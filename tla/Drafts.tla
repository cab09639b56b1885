------------------------------- MODULE Drafts -------------------------------
(***************************************************************************)
(* The text of a campaign and the brief an AI provider writes from it:       *)
(* createTask, updateTask and saveDraft in tasks.service.ts, and             *)
(* ai.service.ts.  Only createTask has the text moderated; only createTask   *)
(* and saveDraft have the brief written, from the request rather than from   *)
(* the row.  Prices are Pricing.tla's and payment is Payment.tla's.          *)
(***************************************************************************)
EXTENDS Integers

CONSTANTS
    Drafts,     \* campaigns
    Titles, Notes,
    Offensive,  \* titles the moderator rejects
    Authors,    \* handlers in flight
    Omitted,    \* a field that the request leaves out
    NoDraft

ASSUME DraftsAssumption ==
    /\ Omitted \notin Titles \cup Notes /\ Offensive \subseteq Titles
    /\ NoDraft \notin Drafts

VARIABLES
    draft,      \* rows of tasks: status, text, brief and context
    author,     \* handlers in flight
    adrift,     \* history: campaigns whose last change was not a save, or a
                \* creation, that ran alone, to its end, and with every field
    unscreened  \* history: campaigns edited after they were moderated, or
                \* moderated while the provider was out of reach

draftVars == <<draft, author, adrift, unscreened>>

Text == [title : Titles \cup {Omitted}, notes : Notes \cup {Omitted}]
NoText == [title |-> Omitted, notes |-> Omitted]

Draft == [status : {"NONE", "DRAFT", "ACTIVE", "COMPLETED"},
          text : Text, brief : Text, context : Text]
Author == [step : {"idle", "brief", "insert", "save", "update", "rebrief"},
           on : Drafts \cup {NoDraft}, dto : Text, waved : BOOLEAN, alone : BOOLEAN]

DraftsTypeOK ==
    /\ draft \in [Drafts -> Draft]
    /\ author \in [Authors -> Author]
    /\ adrift \subseteq Drafts /\ unscreened \subseteq Drafts

Resting == [step |-> "idle", on |-> NoDraft, dto |-> NoText, waved |-> FALSE, alone |-> TRUE]

DraftsInit ==
    /\ draft = [d \in Drafts |-> [status |-> "NONE", text |-> NoText,
                                  brief |-> NoText, context |-> NoText]]
    /\ author = [a \in Authors |-> Resting]
    /\ adrift = {} /\ unscreened = {}

-----------------------------------------------------------------------------
(* ai.service.ts                                                            *)

\* The provider's verdict, or approval when there is no key, no answer, or an answer
\* that is not JSON.  (An empty answer refuses, which leaves everything as it is.)
ModerateTaskContent(dto) == {dto.title \notin Offensive, TRUE}

\* A provider may answer with nothing, and then the brief is empty; without an answer
\* a template takes its place.  The context is assembled here either way.
GenerateTaskBrief(dto) ==
    {[brief |-> b, context |-> dto] : b \in {dto, NoText}}

-----------------------------------------------------------------------------
(* createTask                                                               *)

\* The user is read, and the text is moderated.
CreateTask(a, dto) ==
    /\ author[a] = Resting
    /\ TRUE \in ModerateTaskContent(dto)
    /\ author' = [author EXCEPT ![a] = [Resting EXCEPT !.step = "insert", !.dto = dto,
                                                       !.waved = dto.title \in Offensive]]
    /\ UNCHANGED <<draft, adrift, unscreened>>

InsertTask(a, d) ==
    LET dto == author[a].dto
    IN  /\ author[a].step = "insert"
        /\ draft[d].status = "NONE"
        /\ \E made \in GenerateTaskBrief(dto) :
              draft' = [draft EXCEPT ![d] = [status |-> "DRAFT", text |-> dto,
                                             brief |-> made.brief, context |-> made.context]]
        /\ author' = [author EXCEPT ![a] = Resting]
        /\ unscreened' = IF author[a].waved THEN unscreened \cup {d} ELSE unscreened
        /\ UNCHANGED adrift

-----------------------------------------------------------------------------
(* updateTask and saveDraft                                                 *)

At(d) == {a \in Authors : author[a].on = d}

\* The handler a has read campaign d; those that are at it already are not alone now.
Take(a, d, step, dto) ==
    author' = [b \in Authors |->
        IF b = a THEN [Resting EXCEPT !.step = step, !.on = d, !.dto = dto, !.alone = At(d) = {}]
        ELSE IF b \in At(d) THEN [author[b] EXCEPT !.alone = FALSE]
        ELSE author[b]]

UpdateTask(a, d, dto) ==
    /\ author[a] = Resting
    /\ draft[d].status \notin {"NONE", "COMPLETED"}
    /\ Take(a, d, "update", dto)
    /\ UNCHANGED <<draft, adrift, unscreened>>

\* What the DTO says about the status is not written.
SaveDraft(a, d, dto) ==
    /\ author[a] = Resting
    /\ draft[d].status \notin {"NONE", "COMPLETED"}
    /\ Take(a, d, "save", dto)
    /\ UNCHANGED <<draft, adrift, unscreened>>

\* A field that is left out, or empty, keeps what the row has.
Merged(text, dto) ==
    [f \in {"title", "notes"} |-> IF dto[f] = Omitted THEN text[f] ELSE dto[f]]

WriteText(a) ==
    LET d == author[a].on
    IN  /\ author[a].step \in {"save", "update"}
        /\ draft' = [draft EXCEPT ![d].text = Merged(@, author[a].dto)]
        /\ author' = [author EXCEPT ![a] = IF author[a].step = "save"
                                           THEN [@ EXCEPT !.step = "rebrief"] ELSE Resting]
        /\ adrift' = adrift \cup {d}
        /\ unscreened' = unscreened \cup {d}

\* Mutant: the context keeps what it was made of.
WriteBriefAlone(a) ==
    LET d == author[a].on  dto == author[a].dto
    IN  /\ author[a].step = "rebrief"
        /\ \E made \in GenerateTaskBrief(dto) :
              draft' = [draft EXCEPT ![d].brief = made.brief]
        /\ author' = [author EXCEPT ![a] = Resting]
        /\ adrift' = IF author[a].alone /\ dto.notes # Omitted THEN adrift \ {d} ELSE adrift
        /\ UNCHANGED unscreened

\* The brief is generated from the request, and written whatever the row holds by now.
WriteBrief(a) ==
    LET d == author[a].on  dto == author[a].dto
    IN  /\ author[a].step = "rebrief"
        /\ \E made \in GenerateTaskBrief(dto) :
              draft' = [draft EXCEPT ![d].brief = made.brief, ![d].context = made.context]
        /\ author' = [author EXCEPT ![a] = Resting]
        /\ adrift' = IF author[a].alone /\ dto.notes # Omitted THEN adrift \ {d} ELSE adrift
        /\ UNCHANGED unscreened

\* The process dies, or the database refuses; a brief that cannot be saved is dropped.
DropAuthor(a) ==
    /\ author[a] # Resting
    /\ author' = [author EXCEPT ![a] = Resting]
    /\ UNCHANGED <<draft, adrift, unscreened>>

-----------------------------------------------------------------------------
(* The rest of a campaign's life, as far as the text depends on it          *)

\* The brief is not written again.
PublishTask(d) ==
    /\ draft[d].status = "DRAFT"
    /\ draft' = [draft EXCEPT ![d].status = "ACTIVE"]
    /\ UNCHANGED <<author, adrift, unscreened>>

EndTask(d) ==
    /\ draft[d].status = "ACTIVE"
    /\ draft' = [draft EXCEPT ![d].status = "COMPLETED"]
    /\ UNCHANGED <<author, adrift, unscreened>>

\* A title is required of a new or a saved draft, and of nothing else.
Whole == {dto \in Text : dto.title # Omitted}

DraftsNext ==
    \/ \E a \in Authors :
          \/ \E dto \in Whole : CreateTask(a, dto)
          \/ \E d \in Drafts : InsertTask(a, d)
          \/ \E d \in Drafts, dto \in Text : UpdateTask(a, d, dto)
          \/ \E d \in Drafts, dto \in Whole : SaveDraft(a, d, dto)
          \/ WriteText(a) \/ WriteBrief(a) \/ DropAuthor(a)
    \/ \E d \in Drafts : PublishTask(d) \/ EndTask(d)

DraftsSpec == DraftsInit /\ [][DraftsNext]_draftVars

-----------------------------------------------------------------------------
\* The brief that contributors read, and the context their work is compared with, are
\* about the campaign as it is, when its last change was a creation or a save that ran
\* alone and to its end, with every field (saveDraft: "regenerate AI brief with new
\* data").  An edit by updateTask, two saves at once, or a field that is cleared leave
\* the brief of another text.
BriefMatchesText ==
    \A d \in Drafts \ adrift :
        /\ draft[d].context = draft[d].text
        /\ draft[d].brief \in {draft[d].text, NoText}

\* What the moderator rejects reaches contributors only by an edit, which nobody
\* moderates, or while the provider is out of reach (createTask, moderateTaskContent).
OffensiveOnlyUnscreened ==
    \A d \in Drafts : draft[d].text.title \in Offensive => d \in unscreened
=============================================================================
