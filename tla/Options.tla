------------------------------- MODULE Options -------------------------------
(***************************************************************************)
(* The lists that forms offer - interests, age groups, genders, platforms   *)
(* and categories - as staff add to them and remove from them               *)
(* (utilities.service.ts).  Removing hides a row; its name stays taken.      *)
(***************************************************************************)
EXTENDS Integers

CONSTANTS
    Lists, Labels,
    Unnamed,    \* the lists without a unique name: categories
    Rows,       \* ids of rows
    Adders,     \* additions in flight
    NoList, NoLabel

ASSUME OptionsAssumption == NoList \notin Lists /\ NoLabel \notin Labels

VARIABLES
    option,     \* rows of the five tables
    adder,      \* additions in flight: the name was looked for
    retired     \* history: what was removed, by list and name

optionVars == <<option, adder, retired>>

Somewhere == Lists \cup {NoList}
Option == [list : Somewhere, label : Labels \cup {NoLabel}, active : BOOLEAN]
Adder == [list : Somewhere, label : Labels \cup {NoLabel}]

OptionsTypeOK ==
    /\ option \in [Rows -> Option]
    /\ adder \in [Adders -> Adder]
    /\ retired \subseteq Lists \X Labels

NoOption == [list |-> NoList, label |-> NoLabel, active |-> FALSE]
NotAdding == [list |-> NoList, label |-> NoLabel]

OptionsInit ==
    /\ option = [r \in Rows |-> NoOption]
    /\ adder = [a \in Adders |-> NotAdding]
    /\ retired = {}

RowsOf(l, x) == {r \in Rows : option[r].list = l /\ option[r].label = x}

AddOption(a, l, x) ==
    /\ adder[a] = NotAdding
    /\ l \notin Unnamed => RowsOf(l, x) = {}
    /\ adder' = [adder EXCEPT ![a] = [list |-> l, label |-> x]]
    /\ UNCHANGED <<option, retired>>

\* Mutant: the index is on the name and whether it is shown.
InsertShown(a, r) ==
    LET l == adder[a].list  x == adder[a].label
    IN  /\ adder[a] # NotAdding
        /\ option[r] = NoOption
        /\ l \notin Unnamed => \A o \in RowsOf(l, x) : ~option[o].active
        /\ option' = [option EXCEPT ![r] = [list |-> l, label |-> x, active |-> TRUE]]
        /\ adder' = [adder EXCEPT ![a] = NotAdding]
        /\ UNCHANGED retired

\* The database refuses a name it has, whoever added it meanwhile.
InsertOption(a, r) ==
    LET l == adder[a].list  x == adder[a].label
    IN  /\ adder[a] # NotAdding
        /\ option[r] = NoOption
        /\ l \notin Unnamed => RowsOf(l, x) = {}
        /\ option' = [option EXCEPT ![r] = [list |-> l, label |-> x, active |-> TRUE]]
        /\ adder' = [adder EXCEPT ![a] = NotAdding]
        /\ UNCHANGED retired

DropAdder(a) ==
    /\ adder[a] # NotAdding
    /\ adder' = [adder EXCEPT ![a] = NotAdding]
    /\ UNCHANGED <<option, retired>>

RemoveOption(r) ==
    /\ option[r] # NoOption
    /\ option' = [option EXCEPT ![r].active = FALSE]
    /\ retired' = retired \cup {<<option[r].list, option[r].label>>}
    /\ UNCHANGED adder

OptionsNext ==
    \/ \E a \in Adders :
          \/ \E l \in Lists, x \in Labels : AddOption(a, l, x)
          \/ \E r \in Rows : InsertOption(a, r)
          \/ DropAdder(a)
    \/ \E r \in Rows : RemoveOption(r)

OptionsSpec == OptionsInit /\ [][OptionsNext]_optionVars

-----------------------------------------------------------------------------
Offered(l, x) == {r \in RowsOf(l, x) : option[r].active}

\* A form offers every option once, and one that staff removed never again, however
\* additions and removals overlap - but for categories, whose titles are not unique
\* (addInterest, addAgeGroup, addGender, addPlatform and their removals).
OfferedOnce ==
    \A l \in Lists \ Unnamed, x \in Labels :
        /\ \A q, r \in Offered(l, x) : q = r
        /\ <<l, x>> \in retired => Offered(l, x) = {}
=============================================================================
