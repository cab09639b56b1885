------------------------------ MODULE Accounts ------------------------------
(***************************************************************************)
(* Accounts from signup to suspension: auth.service.ts with the JWT         *)
(* strategy and the guards, suspendUser, unsuspendUser and createAdmin of   *)
(* admin.service.ts, and applyReferralCode of referrals.service.ts.         *)
(*                                                                          *)
(* A row is named by its owner, e-mail addresses being unique.  Passwords   *)
(* and verification codes are secrets, a hash stands for its password; a    *)
(* code may expire at any time, that is, verifyEmail need not be taken.     *)
(* resetPassword asks for an e-mail address and nothing else: whoever calls  *)
(* it sets the password, and whoever set it can log in.                      *)
(***************************************************************************)
EXTENDS Integers

CONSTANTS
    People,     \* owners of e-mail addresses
    root,       \* the SUPERADMIN that was seeded
    Secrets,
    Hands,      \* handlers in flight at the same time
    NoOne, NoSecret

ASSUME AccountsAssumption ==
    /\ root \in People /\ Secrets # {}
    /\ NoOne \notin People /\ NoSecret \notin Secrets

VARIABLES
    account,    \* the users table, with each user's profile
    token,      \* who holds an access token: valid, expired but renewable, none
    trail,      \* what the last audit row about a user says of its status
    referrals,  \* rows of the referrals table: <<referrer, referred>>
    hand,       \* handlers in flight
    knows,      \* history: the password and the code the owner was told last, and
                \* whether the password in force was set for the owner
    strayed     \* history: what about a user two handlers did at once, one left
                \* half done, or a lost mail was to tell

accountVars == <<account, token, trail, referrals, hand, knows, strayed>>

Somebody == People \cup {NoOne}
Secret == Secrets \cup {NoSecret}

Account == [role : {"NONE", "USER", "ADMIN", "SUPERADMIN"},
            type : {"CREATOR", "CONTRIBUTOR", "APPROVER"},
            profile : {"none", "personal", "business"},
            status : {"ACTIVE", "SUSPENDED"},
            verified : BOOLEAN, pass : Secret, code : Secret, refBy : Somebody]

Matters == {"code", "referral", "pass", "status"}
Ops == {"none", "signup", "resend", "verify", "change", "reset", "forgot",
        "suspend", "unsuspend", "enlist", "apply"}
Steps == {"idle", "create", "stub", "refer", "answer", "recode", "verify", "set",
          "mail", "status", "audit", "adopt"}

Job == [op : Ops, step : Steps, who : Somebody, row : Account, secret : Secret]

AccountsTypeOK ==
    /\ account \in [People -> Account]
    /\ token \in [People -> {"none", "expired", "valid"}]
    /\ trail \in [People -> {"NONE", "ACTIVE", "SUSPENDED"}]
    /\ referrals \subseteq People \X People
    /\ hand \in [Hands -> Job]
    /\ knows \in [People -> [pass : Secret, code : Secret, own : BOOLEAN]]
    /\ strayed \subseteq People \X Matters

\* The row of a user who signed up, but for what the request chooses.
NewRow == [role |-> "USER", type |-> "CREATOR", profile |-> "none", status |-> "ACTIVE",
           verified |-> FALSE, pass |-> NoSecret, code |-> NoSecret, refBy |-> NoOne]
NoRow == [NewRow EXCEPT !.role = "NONE"]
Idle == [op |-> "none", step |-> "idle", who |-> NoOne, row |-> NoRow, secret |-> NoSecret]

StaffRow(role, s) == [NewRow EXCEPT !.role = role, !.type = "APPROVER",
                                    !.verified = TRUE, !.pass = s]

AccountsInit ==
    \E s \in Secrets :
        /\ account = [p \in People |->
                         IF p = root THEN StaffRow("SUPERADMIN", s) ELSE NoRow]
        /\ knows = [p \in People |-> [pass |-> IF p = root THEN s ELSE NoSecret,
                                      code |-> NoSecret, own |-> TRUE]]
        /\ token = [p \in People |-> "none"]
        /\ trail = [p \in People |-> IF p = root THEN "ACTIVE" ELSE "NONE"]
        /\ referrals = {}
        /\ hand = [h \in Hands |-> Idle]
        /\ strayed = {}

-----------------------------------------------------------------------------
(* Handlers and what they are about                                         *)

Exists(p) == account[p].role # "NONE"

About(op) ==
    CASE op = "signup" -> {"code", "referral"}
      [] op \in {"resend", "verify"} -> {"code"}
      [] op \in {"change", "reset", "forgot"} -> {"pass"}
      [] op \in {"suspend", "unsuspend", "enlist"} -> {"status"}
      [] op = "apply" -> {"referral"}
      [] OTHER -> {}

Busy(p, matter) == \E h \in Hands : hand[h].who = p /\ matter \in About(hand[h].op)

Employ(h, op, step, p, row, s) ==
    /\ hand[h].step = "idle"
    /\ hand' = [hand EXCEPT ![h] = [op |-> op, step |-> step, who |-> p, row |-> row,
                                    secret |-> s]]
    /\ strayed' = strayed \cup
          (IF Exists(p) THEN {p} \X {m \in About(op) : Busy(p, m)} ELSE {})

Go(h, step) == hand' = [hand EXCEPT ![h].step = step]
Release(h) == hand' = [hand EXCEPT ![h] = Idle]
Put(h, row) == account' = [account EXCEPT ![hand[h].who] = row]
Tell(p, what, s) == knows' = [knows EXCEPT ![p] = [@ EXCEPT ![what] = s]]

\* The token is valid and the strategy finds an active user (JwtAuthGuard).
Authenticated(p) == token[p] = "valid" /\ account[p].status = "ACTIVE"

\* RolesGuard and SuperAdminGuard.
Staff(p) == Authenticated(p) /\ account[p].role \in {"ADMIN", "SUPERADMIN"}
SuperAdmin(p) == Authenticated(p) /\ account[p].role = "SUPERADMIN"

\* A handler dies, or the database refuses its next statement; what it wrote stays.
DropHand(h) ==
    /\ hand[h].step # "idle"
    /\ strayed' = IF hand[h].step \in {"create", "recode", "verify", "set", "status", "adopt"}
                  THEN strayed
                  ELSE strayed \cup ({hand[h].who} \X About(hand[h].op))
    /\ Release(h)
    /\ UNCHANGED <<account, token, trail, referrals, knows>>

-----------------------------------------------------------------------------
(* signup, resendVerification, verifyEmail                                  *)

\* Only creators can be a business, and then they have a name.
BusinessFields(type, business) == business => type = "CREATOR"

Signup(h, p, type, business, r, s) ==
    /\ BusinessFields(type, business)
    /\ ~Exists(p)
    /\ r # NoOne => Exists(r)
    /\ Employ(h, "signup", "create", p,
             [NewRow EXCEPT !.type = type, !.pass = s, !.code = s, !.refBy = r,
                            !.profile = IF business THEN "business" ELSE "personal"], s)
    /\ UNCHANGED <<account, token, trail, referrals, knows>>

\* The address is unique: of two signups the database refuses one.
CreateAccount(h) ==
    LET p == hand[h].who
    IN  /\ hand[h].step = "create" /\ ~Exists(p)
        /\ Put(h, [hand[h].row EXCEPT !.profile = "none"])
        /\ Tell(p, "pass", hand[h].secret)
        /\ Go(h, IF hand[h].op = "signup" THEN "stub" ELSE "audit")
        /\ UNCHANGED <<token, trail, referrals, strayed>>

StubProfile(h) ==
    /\ hand[h].step = "stub"
    /\ Put(h, [account[hand[h].who] EXCEPT !.profile = hand[h].row.profile])
    /\ Go(h, IF hand[h].row.refBy = NoOne THEN "answer" ELSE "refer")
    /\ UNCHANGED <<token, trail, referrals, knows, strayed>>

\* The pair is unique.
CreateReferral(h) ==
    LET pair == <<hand[h].row.refBy, hand[h].who>>
    IN  /\ hand[h].step = "refer" /\ pair \notin referrals
        /\ referrals' = referrals \cup {pair}
        /\ IF hand[h].op = "signup" THEN Go(h, "answer") ELSE Release(h)
        /\ UNCHANGED <<account, token, trail, knows, strayed>>

\* The response carries the code, and says that the password was changed; that of a
\* password somebody else has set tells the owner nothing.
Answer(h) ==
    /\ hand[h].step = "answer"
    /\ IF hand[h].op = "reset" THEN UNCHANGED knows
       ELSE Tell(hand[h].who, IF hand[h].op = "change" THEN "pass" ELSE "code",
                 hand[h].secret)
    /\ Release(h)
    /\ UNCHANGED <<account, token, trail, referrals, strayed>>

ResendVerification(h, p, s) ==
    /\ Exists(p) /\ ~account[p].verified
    /\ Employ(h, "resend", "recode", p, NoRow, s)
    /\ UNCHANGED <<account, token, trail, referrals, knows>>

Recode(h) ==
    /\ hand[h].step = "recode"
    /\ Put(h, [account[hand[h].who] EXCEPT !.code = hand[h].secret])
    /\ Go(h, "answer")
    /\ UNCHANGED <<token, trail, referrals, knows, strayed>>

\* With the code of the row, before it expires.
VerifyEmail(h, p) ==
    /\ Exists(p) /\ ~account[p].verified
    /\ account[p].code # NoSecret
    /\ Employ(h, "verify", "verify", p, NoRow, NoSecret)
    /\ UNCHANGED <<account, token, trail, referrals, knows>>

Verify(h) ==
    /\ hand[h].step = "verify"
    /\ Put(h, [account[hand[h].who] EXCEPT !.verified = TRUE, !.code = NoSecret])
    /\ Release(h)
    /\ UNCHANGED <<token, trail, referrals, knows, strayed>>

-----------------------------------------------------------------------------
(* login, refreshToken, changePassword, forgotPassword, resetPassword       *)

\* The owner has the password told last; one that was not set for the owner is known
\* to whoever set it.
KnowsPassword(p, own) == IF own THEN account[p].pass = knows[p].pass ELSE ~knows[p].own

Login(p) ==
    /\ Exists(p) /\ account[p].status = "ACTIVE"
    /\ \E own \in BOOLEAN : KnowsPassword(p, own)
    /\ token' = [token EXCEPT ![p] = "valid"]
    /\ UNCHANGED <<account, trail, referrals, hand, knows, strayed>>

RefreshToken(p) ==
    /\ token[p] = "expired" /\ account[p].status = "ACTIVE"
    /\ token' = [token EXCEPT ![p] = "valid"]
    /\ UNCHANGED <<account, trail, referrals, hand, knows, strayed>>

TokenExpires(p) ==
    /\ token[p] # "none"
    /\ token' = [token EXCEPT ![p] = IF @ = "valid" THEN "expired" ELSE "none"]
    /\ UNCHANGED <<account, trail, referrals, hand, knows, strayed>>

\* The current password is checked, then the hash of the new one is written, for the
\* owner or for somebody else who knew it.
ChangePassword(h, p, own, s) ==
    /\ Authenticated(p)
    /\ KnowsPassword(p, own)
    /\ Employ(h, IF own THEN "change" ELSE "reset", "set", p, NoRow, s)
    /\ UNCHANGED <<account, token, trail, referrals, knows>>

\* Of a public endpoint, for the e-mail address: the owner calls it, or somebody else.
ResetPassword(h, p, own, s) ==
    /\ Exists(p)
    /\ Employ(h, IF own THEN "change" ELSE "reset", "set", p, NoRow, s)
    /\ UNCHANGED <<account, token, trail, referrals, knows>>

ForgotPassword(h, p, s) ==
    /\ Exists(p)
    /\ Employ(h, "forgot", "set", p, NoRow, s)
    /\ UNCHANGED <<account, token, trail, referrals, knows>>

\* Mutant: a default password is mailed and not stored.
SetChosen(h) ==
    /\ hand[h].step = "set"
    /\ Put(h, [account[hand[h].who] EXCEPT
                    !.pass = IF hand[h].op = "forgot" THEN @ ELSE hand[h].secret])
    /\ knows' = [knows EXCEPT ![hand[h].who] = [@ EXCEPT !.own = hand[h].op # "reset"]]
    /\ Go(h, IF hand[h].op = "forgot" THEN "mail" ELSE "answer")
    /\ UNCHANGED <<token, trail, referrals, strayed>>

SetSecret(h) ==
    /\ hand[h].step = "set"
    /\ Put(h, [account[hand[h].who] EXCEPT !.pass = hand[h].secret])
    /\ knows' = [knows EXCEPT ![hand[h].who] = [@ EXCEPT !.own = hand[h].op # "reset"]]
    /\ Go(h, IF hand[h].op = "forgot" THEN "mail" ELSE "answer")
    /\ UNCHANGED <<token, trail, referrals, strayed>>

\* A mail with a password reaches its reader, or it is lost: sending never fails.
SendEmail(p, s) ==
    \/ Tell(p, "pass", s) /\ UNCHANGED strayed
    \/ strayed' = strayed \cup {<<p, "pass">>} /\ UNCHANGED knows

\* sendPasswordReset.
MailDefault(h) ==
    /\ hand[h].step = "mail"
    /\ SendEmail(hand[h].who, hand[h].secret)
    /\ Release(h)
    /\ UNCHANGED <<account, token, trail, referrals>>

-----------------------------------------------------------------------------
(* suspendUser, unsuspendUser, createAdmin                                  *)

SuspendUser(h, by, p) ==
    /\ Staff(by)
    /\ Exists(p) /\ account[p].role # "SUPERADMIN"
    /\ account[p].role = "ADMIN" => SuperAdmin(by)
    /\ Employ(h, "suspend", "status", p, NoRow, NoSecret)
    /\ UNCHANGED <<account, token, trail, referrals, knows>>

UnsuspendUser(h, by, p) ==
    /\ Staff(by)
    /\ Exists(p)
    /\ Employ(h, "unsuspend", "status", p, NoRow, NoSecret)
    /\ UNCHANGED <<account, token, trail, referrals, knows>>

StatusOf(op) == IF op = "suspend" THEN "SUSPENDED" ELSE "ACTIVE"

WriteStatus(h) ==
    /\ hand[h].step = "status"
    /\ Put(h, [account[hand[h].who] EXCEPT !.status = StatusOf(hand[h].op)])
    /\ Go(h, "audit")
    /\ UNCHANGED <<token, trail, referrals, knows, strayed>>

\* Mutant: only suspensions are audited.
AuditSuspensions(h) ==
    /\ hand[h].step = "audit"
    /\ trail' = IF hand[h].op = "unsuspend" THEN trail
                ELSE [trail EXCEPT ![hand[h].who] = StatusOf(hand[h].op)]
    /\ Release(h)
    /\ UNCHANGED <<account, token, referrals, knows, strayed>>

Audit(h) ==
    /\ hand[h].step = "audit"
    /\ trail' = [trail EXCEPT ![hand[h].who] = StatusOf(hand[h].op)]
    /\ Release(h)
    /\ UNCHANGED <<account, token, referrals, knows, strayed>>

CreateAdmin(h, by, p, role, s) ==
    /\ SuperAdmin(by)
    /\ ~Exists(p)
    /\ Employ(h, "enlist", "create", p, StaffRow(role, s), s)
    /\ UNCHANGED <<account, token, trail, referrals, knows>>

-----------------------------------------------------------------------------
(* applyReferralCode                                                        *)

\* Mutant: a code may be applied again.
ApplyAgain(h, p, r) ==
    /\ Authenticated(p) /\ account[p].role = "USER"
    /\ Exists(r) /\ r # p
    /\ Employ(h, "apply", "adopt", p, [NoRow EXCEPT !.refBy = r], NoSecret)
    /\ UNCHANGED <<account, token, trail, referrals, knows>>

\* For creators and contributors (UserTypesGuard), once, with the code of another.
ApplyReferralCode(h, p, r) ==
    /\ Authenticated(p) /\ account[p].role = "USER"
    /\ account[p].refBy = NoOne
    /\ Exists(r) /\ r # p
    /\ Employ(h, "apply", "adopt", p, [NoRow EXCEPT !.refBy = r], NoSecret)
    /\ UNCHANGED <<account, token, trail, referrals, knows>>

Adopt(h) ==
    /\ hand[h].step = "adopt"
    /\ Put(h, [account[hand[h].who] EXCEPT !.refBy = hand[h].row.refBy])
    /\ Go(h, "refer")
    /\ UNCHANGED <<token, trail, referrals, knows, strayed>>

-----------------------------------------------------------------------------
Entrance(h) ==
    \/ \E p \in People, type \in {"CREATOR", "CONTRIBUTOR"}, business \in BOOLEAN,
          r \in Somebody, s \in Secrets : Signup(h, p, type, business, r, s)
    \/ \E p \in People, s \in Secrets : ResendVerification(h, p, s)
    \/ \E p \in People : VerifyEmail(h, p)
    \/ CreateAccount(h) \/ StubProfile(h) \/ Recode(h) \/ Verify(h) \/ Answer(h)

Session == \E p \in People : Login(p) \/ RefreshToken(p) \/ TokenExpires(p)

Passwords(h) ==
    \/ \E p \in People, s \in Secrets, own \in BOOLEAN :
          ChangePassword(h, p, own, s) \/ ResetPassword(h, p, own, s)
    \/ \E p \in People, s \in Secrets : ForgotPassword(h, p, s)
    \/ SetSecret(h) \/ MailDefault(h) \/ Answer(h)

Supervision(h) ==
    \/ \E by, p \in People : SuspendUser(h, by, p) \/ UnsuspendUser(h, by, p)
    \/ \E by, p \in People, role \in {"ADMIN", "SUPERADMIN"}, s \in Secrets :
          CreateAdmin(h, by, p, role, s)
    \/ CreateAccount(h) \/ WriteStatus(h) \/ Audit(h)

Referring(h) ==
    \/ \E p, r \in People : ApplyReferralCode(h, p, r)
    \/ Adopt(h) \/ CreateReferral(h)

AccountsNext ==
    \/ Session
    \/ \E h \in Hands :
          Entrance(h) \/ Passwords(h) \/ Supervision(h) \/ Referring(h) \/ DropHand(h)

AccountsSpec == AccountsInit /\ [][AccountsNext]_accountVars

-----------------------------------------------------------------------------
(* Properties                                                               *)

Settled(p, matter) == Exists(p) /\ ~Busy(p, matter) /\ <<p, matter>> \notin strayed

\* The owner can log in: the password in force is the one told to the owner last,
\* by the form it was chosen in or by forgotPassword's mail - unless somebody else set
\* it, which resetPassword lets anybody do who knows the address, and nothing was set
\* for the owner since; or the mail was lost, a handler died after the write, or two
\* changed the password at once.
OwnerKnowsPassword ==
    \A p \in People : Settled(p, "pass") /\ knows[p].own =>
        account[p].pass = knows[p].pass

\* An owner whose address is not verified holds the code that verifies it, and a
\* verified account has no code left - unless codes were made while another
\* handler worked on the code (signup, resendVerification, verifyEmail).
ShownCodeWorks ==
    \A p \in People : Settled(p, "code") /\ account[p].role = "USER" =>
        account[p].code = IF account[p].verified THEN NoSecret ELSE knows[p].code

\* The audit log tells which accounts are suspended and who was made staff, but
\* for overlapping decisions and a handler that died before its audit row.
AuditTellsStatus ==
    \A p \in People : Settled(p, "status") =>
        /\ account[p].status = "SUSPENDED" <=> trail[p] = "SUSPENDED"
        /\ account[p].role # "USER" => trail[p] # "NONE"

\* A user has one referrer, for good, and the referrals table names the same one,
\* however signup and later codes interleave - unless two codes were applied at
\* once or a handler died between the user's row and the referral.
OneReferrer ==
    \A p \in People : Settled(p, "referral") =>
        {r \in People : <<r, p>> \in referrals} = {account[p].refBy} \ {NoOne}
=============================================================================
