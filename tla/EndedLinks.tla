----------------------------- MODULE EndedLinks -----------------------------
(***************************************************************************)
(* The bans of ended link epochs and their file, ended_links.json.  Every  *)
(* hang-up bans its epoch in memory and then writes both sets to the file: *)
(* it reads the sets under their locks, opens the file, which truncates    *)
(* it, and writes.  Nothing serialises two hang-ups, and the daemon may    *)
(* die at any moment; at its next start it loads what the file holds.      *)
(***************************************************************************)
EXTENDS Naturals, FiniteSets

CONSTANTS
    Epochs,
    Savers,     \* tasks that may be ending a link: control handlers, streams
    None,
    BanCap      \* bound of each set (32 in the code)

ASSUME BanAssumption == None \notin Epochs /\ BanCap \in Nat \ {0}

Kinds == {"local", "peer"}  \* ENDED_LINKS and PEER_ENDED_LINKS
Bans  == [Kinds -> SUBSET Epochs]
NoBans == [k \in Kinds |-> {}]

VARIABLES
    bans,       \* the two sets in memory
    file,       \* ended_links.json; a torn file counts as empty
    step,       \* where each hang-up stands
    mine,       \* the epoch each hang-up is about
    snap,       \* the sets it has read and is about to write
    finished,   \* history: epochs whose hang-up is complete and not outdated
    clash       \* history: two saves overlapped, or a crash or an error hit a
                \* write half done

vars == <<bans, file, step, mine, snap, finished, clash>>

Steps == {"idle", "banned", "read", "truncated"}

All(b) == b["local"] \cup b["peer"]

\* end_link and peer_end_link: a full set forgets every older ban.
Ban(b, k, e) ==
    [b EXCEPT ![k] = IF Cardinality(b[k]) >= BanCap THEN {e} ELSE b[k] \cup {e}]

Init ==
    /\ bans = NoBans /\ file = NoBans
    /\ step = [x \in Savers |-> "idle"]
    /\ mine = [x \in Savers |-> None]
    /\ snap = [x \in Savers |-> NoBans]
    /\ finished = {} /\ clash = FALSE
----------------------------------------------------------------------------
\* A hang-up bans its epoch: EndLink and LinkEnded always, a teardown only when
\* the epoch is not banned yet, or not at all when it has no epoch.
EndLink(x, k, e) ==
    /\ step[x] = "idle"
    /\ bans' = Ban(bans, k, e)
    /\ finished' = finished \cap All(bans')
    /\ step' = [step EXCEPT ![x] = "banned"]
    /\ mine' = [mine EXCEPT ![x] = e]
    /\ UNCHANGED <<file, snap, clash>>

\* Mutant: the ban is written down for a link without an epoch, too.
TeardownUnchecked(x, e) ==
    /\ step[x] = "idle"
    /\ e = None \/ e \in All(bans)
    /\ bans' = Ban(bans, "local", e)
    /\ step' = [step EXCEPT ![x] = "banned"]
    /\ mine' = [mine EXCEPT ![x] = e]
    /\ UNCHANGED <<file, snap, finished, clash>>

TeardownAgain(x, e) ==
    /\ step[x] = "idle"
    /\ e = None \/ e \in All(bans)
    /\ step' = [step EXCEPT ![x] = "banned"]
    /\ mine' = [mine EXCEPT ![x] = e]
    /\ UNCHANGED <<bans, file, snap, finished, clash>>

\* Mutant: a hang-up writes the one ban it is about.
ReadOwn(x) ==
    /\ step[x] = "banned"
    /\ snap' = [snap EXCEPT ![x] = [k \in Kinds |-> {mine[x]} \cap Epochs]]
    /\ clash' = (clash \/ \E y \in Savers : step[y] \in {"read", "truncated"})
    /\ step' = [step EXCEPT ![x] = "read"]
    /\ UNCHANGED <<bans, file, mine, finished>>

\* persist_ended_links reads both sets ...
Read(x) ==
    /\ step[x] = "banned"
    /\ snap' = [snap EXCEPT ![x] = bans]
    /\ clash' = (clash \/ \E y \in Savers : step[y] \in {"read", "truncated"})
    /\ step' = [step EXCEPT ![x] = "read"]
    /\ UNCHANGED <<bans, file, mine, finished>>

\* ... and fs::write opens the file with truncation ...
Truncate(x) ==
    /\ step[x] = "read"
    /\ file' = NoBans
    /\ step' = [step EXCEPT ![x] = "truncated"]
    /\ UNCHANGED <<bans, mine, snap, finished, clash>>

\* The hang-up returns; its locals are gone.
Return(x) ==
    /\ step' = [step EXCEPT ![x] = "idle"]
    /\ mine' = [mine EXCEPT ![x] = None]
    /\ snap' = [snap EXCEPT ![x] = NoBans]

\* ... before the bytes are there.
Write(x) ==
    /\ step[x] = "truncated"
    /\ file' = snap[x]
    /\ finished' = finished \cup ({mine[x]} \cap All(snap[x]) \cap All(bans))
    /\ Return(x)
    /\ UNCHANGED <<bans, clash>>

\* The file cannot be opened (the old one stays) or not be written to its end:
\* a warning, and the hang-up goes on.
WriteFails(x) ==
    /\ step[x] \in {"read", "truncated"}
    /\ clash' = (clash \/ step[x] = "truncated")
    /\ Return(x)
    /\ UNCHANGED <<bans, file, finished>>

\* Mutant: the next start takes up the peer's bans only.
CrashLosesLocal ==
    /\ bans' = [file EXCEPT !["local"] = {}]
    /\ step' = [x \in Savers |-> "idle"]
    /\ mine' = [x \in Savers |-> None]
    /\ snap' = [x \in Savers |-> NoBans]
    /\ clash' = (clash \/ \E x \in Savers : step[x] = "truncated")
    /\ UNCHANGED <<file, finished>>

\* The process dies, and load_ended_links reads the file at the next start.
Crash ==
    /\ bans' = file
    /\ step' = [x \in Savers |-> "idle"]
    /\ mine' = [x \in Savers |-> None]
    /\ snap' = [x \in Savers |-> NoBans]
    /\ clash' = (clash \/ \E x \in Savers : step[x] = "truncated")
    /\ UNCHANGED <<file, finished>>

Next ==
    \/ \E x \in Savers :
         \/ \E k \in Kinds, e \in Epochs : EndLink(x, k, e)
         \/ \E e \in Epochs \cup {None} : TeardownAgain(x, e)
         \/ Read(x) \/ Truncate(x) \/ Write(x) \/ WriteFails(x)
    \/ Crash

Spec == Init /\ [][Next]_vars
----------------------------------------------------------------------------
TypeOK ==
    /\ bans \in Bans /\ file \in Bans
    /\ step \in [Savers -> Steps]
    /\ mine \in [Savers -> Epochs \cup {None}]
    /\ snap \in [Savers -> Bans]
    /\ finished \in SUBSET Epochs
    /\ clash \in BOOLEAN

\* A finished hang-up stays in force in memory, in the file whenever no write is
\* half done, and so across every restart, unless two saves overlapped or one
\* broke off between the truncation and the write: whatever another hang-up wrote
\* later, it had read this ban too.
FinishedBansHold ==
    ~clash => /\ finished \subseteq All(bans)
              /\ (\A x \in Savers : step[x] # "truncated")
                    => finished \subseteq All(file)

\* "Deliberate-Disconnect bans survive restarts" and "a daemon restart must not
\* resurrect a dead link": a finished hang-up is in force, restart or not.
BansSurviveRestarts == finished \subseteq All(bans)
----------------------------------------------------------------------------
(* The inductive invariant behind FinishedBansHold.                        *)

\* A save under way will write every finished ban, and is alone unless clash.
SaveHolds ==
    ~clash => /\ \A x \in Savers : step[x] \in {"read", "truncated"}
                    => finished \subseteq All(snap[x])
              /\ \A x, y \in Savers :
                    step[x] \in {"read", "truncated"}
                    /\ step[y] \in {"read", "truncated"} => x = y

IInv == TypeOK /\ SaveHolds /\ FinishedBansHold
=============================================================================
