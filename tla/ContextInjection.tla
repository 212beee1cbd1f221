-------------------------- MODULE ContextInjection --------------------------
(***************************************************************************)
(* The UserPromptSubmit hook: every prompt starts a process that searches, *)
(* drops what the session was already given and prints the rest            *)
(* (packages/virage-agent-claude/src: inject-context.ts, session-state.ts).*)
(* What was given is kept in one file per session, replaced by writing a   *)
(* temporary file, always the same one, and renaming it.  A process can be *)
(* killed at any point, its reads and writes can fail, and two prompts of  *)
(* a session can overlap.                                                  *)
(***************************************************************************)
EXTENDS Naturals, FiniteSets, Functions, FiniteSetsExt

CONSTANTS
    Hooks,      \* the processes, each the hook of one prompt
    Chunks,     \* the chunks of the index
    Text        \* Text[c]: the number of characters of chunk c

ASSUME InjectAssumption ==
    /\ Hooks \cap {"none", "cut"} = {}
    /\ IsFiniteSet(Chunks)
    /\ Text \in [Chunks -> Nat]

VARIABLES
    hook,       \* where each process is
    found,      \* the results each process still means to print, by their rank
    memory,     \* the hashes each process read, with those it adds
    state,      \* the session file: its hashes
    tmp,        \* the temporary file: its hashes, or what a write left of it
    shown,      \* history: how often prompts of the session printed each chunk
    forgotten,  \* history: the chunks a failed read or save kept from the session file
    killed,     \* history: some process was killed
    overlap     \* history: two processes ran at once

injectVars == <<hook, found, memory, state, tmp, shown, forgotten, killed, overlap>>

DEFAULT_TOP_K    == 5
TOKEN_BUDGET     == 2000
CHUNK_CHAR_LIMIT == 800

InjectInit ==
    /\ hook = [h \in Hooks |-> "ready"]
    /\ found = [h \in Hooks |-> <<>>]
    /\ memory = [h \in Hooks |-> {}]
    /\ state = {}
    /\ tmp = "none"
    /\ shown = [c \in Chunks |-> 0]
    /\ forgotten = {}
    /\ killed = FALSE
    /\ overlap = FALSE

Running == {h \in Hooks : hook[h] \notin {"ready", "done"}}
Step(h, from, to) == hook[h] = from /\ hook' = [hook EXCEPT ![h] = to]

\* Up to top-k results of different texts, best first; any failure of the query
\* ends the hook.  So does, as far as the session can tell, a prompt that names no
\* session: it prints all that it found and neither reads nor writes a file.
Query(h) ==
    /\ \/ /\ Step(h, "ready", "load")
          /\ \E rs \in UNION {[1..n -> Chunks] : n \in 1..Min({DEFAULT_TOP_K, Cardinality(Chunks)})} :
                /\ \A i, j \in DOMAIN rs : rs[i] = rs[j] => i = j
                /\ found' = [found EXCEPT ![h] = rs]
       \/ /\ Step(h, "ready", "done")
          /\ UNCHANGED found
    /\ overlap' = (overlap \/ Running # {})
    /\ UNCHANGED <<memory, state, tmp, shown, forgotten, killed>>

\* loadSessionState, and the results that are new to the session.  A file that
\* cannot be read counts as empty, and the next save replaces it.
Load(h) ==
    \E read \in {state, {}} :
        LET new == Restrict(found[h], {n \in DOMAIN found[h] : found[h][n] \notin read})
        IN  /\ Step(h, "load", IF DOMAIN new = {} THEN "done" ELSE "write")
            /\ found' = [found EXCEPT ![h] = new]
            /\ memory' = [memory EXCEPT ![h] = read \cup Range(new)]
            /\ forgotten' = forgotten \cup (state \ read)
            /\ UNCHANGED <<state, tmp, shown, killed, overlap>>

\* saveSessionState: the temporary file is truncated and filled ...
TruncateTmp(h) ==
    /\ Step(h, "write", "fill")
    /\ tmp' = "cut"
    /\ UNCHANGED <<found, memory, state, shown, forgotten, killed, overlap>>

\* ... by two processes at once, perhaps: then it is the text of the last one,
\* or of neither; and one that comes after the rename writes to the session file.
FillTmp(h) ==
    /\ Step(h, "fill", "rename")
    /\ \/ /\ tmp = "none"
          /\ state' \in {memory[h], {}}
          /\ tmp' = tmp
       \/ /\ tmp = "cut"
          /\ tmp' = h
          /\ state' = state
       \/ /\ tmp \in Hooks
          /\ tmp' \in {h, "cut"}
          /\ state' = state
    /\ UNCHANGED <<found, memory, shown, forgotten, killed, overlap>>

\* ... and renamed, unless the other process renamed the file away.
Rename(h) ==
    /\ Step(h, "rename", "print")
    /\ state' = CASE tmp = "none" -> state
                  [] tmp = "cut"  -> {}
                  [] OTHER        -> memory[tmp]
    /\ tmp' = "none"
    /\ UNCHANGED <<found, memory, shown, forgotten, killed, overlap>>

\* Each of the three may fail, the second half way, and the failure is swallowed:
\* the context is printed all the same.
SaveFails(h) ==
    /\ hook[h] \in {"write", "fill", "rename"}
    /\ hook' = [hook EXCEPT ![h] = "print"]
    /\ forgotten' = forgotten \cup Range(found[h])
    /\ \/ UNCHANGED <<state, tmp>>
       \/ /\ hook[h] = "fill" /\ tmp # "none"
          /\ tmp' = "cut" /\ state' = state
       \/ /\ hook[h] = "fill" /\ tmp = "none"
          /\ tmp' = tmp /\ state' = {}
    /\ UNCHANGED <<found, memory, shown, killed, overlap>>

\* formatContext: chunks are cut to a size and printed while the budget lasts,
\* the first one always.
Tokens(c) == (Min({Text[c], CHUNK_CHAR_LIMIT}) + 3) \div 4
FormatContext(rs) ==
    LET spent[n \in 0..DEFAULT_TOP_K] ==
            IF n = 0 THEN 0
            ELSE spent[n - 1] + IF n \in DOMAIN rs THEN Tokens(rs[n]) ELSE 0
    IN  {rs[n] : n \in {m \in DOMAIN rs : spent[m] <= TOKEN_BUDGET \/ \A k \in DOMAIN rs : m <= k}}

\* Faulty variant: the session file is consulted once more.
PrintUnseen(h) ==
    /\ Step(h, "print", "done")
    /\ shown' = [c \in Chunks |-> IF c \in FormatContext(found[h]) \ state THEN shown[c] + 1 ELSE shown[c]]
    /\ UNCHANGED <<found, memory, state, tmp, forgotten, killed, overlap>>

PrintContext(h) ==
    /\ Step(h, "print", "done")
    /\ shown' = [c \in Chunks |-> IF c \in FormatContext(found[h]) THEN shown[c] + 1 ELSE shown[c]]
    /\ UNCHANGED <<found, memory, state, tmp, forgotten, killed, overlap>>

Kill(h) ==
    /\ h \in Running
    /\ hook' = [hook EXCEPT ![h] = "done"]
    /\ killed' = TRUE
    /\ UNCHANGED <<found, memory, state, tmp, shown, forgotten, overlap>>

InjectHook(h) ==
    \/ Query(h) \/ Load(h) \/ TruncateTmp(h) \/ FillTmp(h) \/ Rename(h)
    \/ SaveFails(h)
    \/ PrintContext(h) \/ Kill(h)

InjectNext == \E h \in Hooks : InjectHook(h)

InjectSpec == InjectInit /\ [][InjectNext]_injectVars

-----------------------------------------------------------------------------
(* Properties.                                                             *)

InjectTypeOK ==
    /\ tmp \in Hooks \cup {"none", "cut"}
    /\ state \subseteq Chunks
    /\ \A h \in Hooks : memory[h] \subseteq Chunks

\* The prompts of a session are given a chunk at most once, also when hooks are
\* killed and when they fail to read or save the file, with three exceptions: two
\* prompts that overlap; the chunks found by a prompt whose save failed, and those
\* in a file that could not be read (forgotten); and prompts that name no session,
\* which are given all they find every time and are not counted here.
ShownOnce == ~overlap => \A c \in Chunks \ forgotten : shown[c] <= 1

\* What the session file calls given was given: hashes are stored before the
\* text is printed and before it is cut to the budget, so this needs the budget
\* to hold top-k chunks of full size.  A kill between the two loses chunks; a
\* failed read or save loses none.
RememberedWasShown ==
    (~overlap /\ ~killed /\ Running = {}) => \A c \in state : shown[c] > 0

\* Two prompts that overlap, and no kill: each chunk is given at most once per
\* hook, and every chunk a hook found is given by one of them or was before.
NothingWithheld ==
    (~killed /\ Running = {}) => \A c \in Chunks :
        (\E h \in Hooks : c \in memory[h]) => shown[c] > 0

\* A session is given its context: once, where overlapping prompts and failed reads
\* and saves allow it, and with nothing remembered that was not given, where kills
\* and overlapping prompts allow it.
ContextGiven == InjectTypeOK /\ ShownOnce /\ RememberedWasShown /\ NothingWithheld
=============================================================================
