----------------------------- MODULE MenuPrompt -----------------------------
(***************************************************************************)
(* The prompts of the setup wizard (packages/virage-cli/src/cli:           *)
(* checkbox-nav.ts): a list to tick, with separators and disabled entries, *)
(* and a list to choose one from.  A key is handled to its end before the  *)
(* next one.                                                               *)
(***************************************************************************)
EXTENDS Naturals, Sequences, FiniteSets

CONSTANTS
    Lists,      \* the lists offered: sequences of entries, see Entries
    MaxNumber   \* the digits tried

Entries == [separator : BOOLEAN, disabled : BOOLEAN, checked : BOOLEAN]

ASSUME MenuAssumption == Lists \subseteq Seq(Entries) \ {<<>>} /\ MaxNumber \in Nat

VARIABLES
    prompt,     \* "checkbox" or "select"
    items, active,
    complaint,  \* "This option is disabled ..." is shown
    outcome,    \* "open", "back", "exit" or "answered"
    chosen,     \* the positions answered with
    offered     \* history: the list as it was offered

menuVars == <<prompt, items, active, complaint, outcome, chosen, offered>>

IsNavigable(i)  == ~items[i].separator
IsSelectable(i) == IsNavigable(i) /\ ~items[i].disabled
IsChecked(i)    == IsNavigable(i) /\ items[i].checked
Least(S)        == CHOOSE i \in S : \A j \in S : i <= j

\* The first entry that is no separator, or the default of a select.
MenuInit ==
    /\ prompt \in {"checkbox", "select"}
    /\ items \in Lists
    /\ prompt = "select" => \A i \in DOMAIN items : IsSelectable(i) /\ ~items[i].checked
    /\ LET entries == {i \in DOMAIN items : IsNavigable(i)}
       IN  active \in IF prompt = "select" THEN DOMAIN items
                      ELSE IF entries = {} THEN {1} ELSE {Least(entries)}
    /\ complaint = FALSE /\ outcome = "open" /\ chosen = {} /\ offered = items

Open == outcome = "open"

LeaveMenu(how) ==
    /\ Open
    /\ outcome' = how
    /\ UNCHANGED <<prompt, items, active, complaint, chosen, offered>>

Enter ==
    /\ Open
    /\ outcome' = "answered"
    /\ chosen' = IF prompt = "select" THEN {active} ELSE {i \in DOMAIN items : IsChecked(i)}
    /\ UNCHANGED <<prompt, items, active, complaint, offered>>

\* Faulty variant: one entry on, whatever it is.
NextEntryPlain(i, down) == IF down THEN (i % Len(items)) + 1 ELSE ((i + Len(items) - 2) % Len(items)) + 1

\* The next entry in a direction, round the ends and over the separators.
NextEntry(i, down) ==
    LET n     == Len(items)
        at(k) == IF down THEN ((i - 1 + k) % n) + 1 ELSE ((i - 1 + n - k) % n) + 1
        stops == {k \in 1..n : IsNavigable(at(k)) \/ at(k) = i}
    IN  at(Least(stops))

Move(down) ==
    /\ Open
    /\ active' = NextEntry(active, down)
    /\ complaint' = FALSE
    /\ UNCHANGED <<prompt, items, outcome, chosen, offered>>

Toggled(S) == [i \in DOMAIN items |-> IF i \in S /\ IsSelectable(i) THEN [items[i] EXCEPT !.checked = ~@] ELSE items[i]]

Space ==
    /\ Open /\ prompt = "checkbox"
    /\ IsNavigable(active)
    /\ complaint' = items[active].disabled
    /\ items' = Toggled({active})
    /\ UNCHANGED <<prompt, active, outcome, chosen, offered>>

\* "a" ticks all, or none when all are; "i" turns every tick round.
All ==
    /\ Open /\ prompt = "checkbox"
    /\ LET some == \E i \in DOMAIN items : IsSelectable(i) /\ ~IsChecked(i)
       IN  items' = [i \in DOMAIN items |-> IF IsSelectable(i) THEN [items[i] EXCEPT !.checked = some] ELSE items[i]]
    /\ UNCHANGED <<prompt, active, complaint, outcome, chosen, offered>>

Invert ==
    /\ Open /\ prompt = "checkbox"
    /\ items' = Toggled(DOMAIN items)
    /\ UNCHANGED <<prompt, active, complaint, outcome, chosen, offered>>

\* A digit counts the entries, not the separators, and ticks the one it names.
Digit(d) ==
    /\ Open /\ prompt = "checkbox"
    /\ \E i \in DOMAIN items :
         /\ IsSelectable(i)
         /\ Cardinality({j \in 1..i : IsNavigable(j)}) = d
         /\ active' = i /\ items' = Toggled({i})
    /\ UNCHANGED <<prompt, complaint, outcome, chosen, offered>>

MenuNext ==
    \/ \E how \in {"back", "exit"} : LeaveMenu(how)
    \/ Enter \/ Space \/ All \/ Invert
    \/ \E down \in BOOLEAN : Move(down)
    \/ \E d \in 1..MaxNumber : Digit(d)

MenuSpec == MenuInit /\ [][MenuNext]_menuVars

-----------------------------------------------------------------------------
(* Properties.                                                             *)

\* Whatever keys were pressed: the cursor is on an entry when there is one,
\* entries that are disabled keep their tick and the others are what the user sees
\* when Enter takes them; a choice is exactly one entry.
MenuSound ==
    /\ items \in Seq(Entries) /\ active \in DOMAIN items
    /\ (\E i \in DOMAIN items : IsNavigable(i)) => IsNavigable(active)
    /\ \A i \in DOMAIN items :
          /\ items[i].separator = offered[i].separator
          /\ ~IsSelectable(i) => items[i] = offered[i]
    /\ outcome = "answered" =>
          chosen = IF prompt = "select" THEN {active} ELSE {i \in DOMAIN items : IsChecked(i)}
    /\ outcome # "answered" => chosen = {}
=============================================================================
