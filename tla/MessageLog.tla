------------------------------- MODULE MessageLog -------------------------------
(***************************************************************************)
(* What a conversation promises its users, with no rows, locks, clocks or  *)
(* requests: one gap-free log that only grows, a set of users who may      *)
(* append to it, for every user exactly the part of the log that was       *)
(* appended while that user belonged to the conversation, and a read       *)
(* cursor that only moves forward inside that part.                        *)
(* Conversation implements it (Conversation!RefinesMessageLog); the        *)
(* modules about pulling and pushing messages build on it.                 *)
(***************************************************************************)
EXTENDS Integers, Sequences

CONSTANTS
    LogUsers,       \* users
    LogKeys,        \* client message ids, unique per sender
    Participants,   \* who belongs to the conversation from the start
    StartOpen       \* TRUE: appending is possible from the start (single chat)

VARIABLES
    log,            \* seq |-> [sender, key]
    open,           \* appends are accepted
    members,        \* users who may append and who see what is appended
    entitled,       \* user |-> seqs the user may see
    read            \* user |-> read cursor

logVars == <<log, open, members, entitled, read>>

Size == Len(log)
KeyUsed(u, k) == \E s \in 1 .. Size : log[s].sender = u /\ log[s].key = k

LogInit ==
    /\ log = <<>>
    /\ open = StartOpen
    /\ members = Participants
    /\ entitled = [u \in LogUsers |-> {}]
    /\ read = [u \in LogUsers |-> 0]

(* A group starts once, with its initial members and no message. *)
Start(S) ==
    /\ ~open /\ members = {} /\ log = <<>>
    /\ open' = TRUE
    /\ members' = S
    /\ UNCHANGED <<log, entitled, read>>

(* A message of a member enters the log once; every member may see it, and *)
(* the sender's cursor follows or stays.                                   *)
Append1(u, k, own) ==
    /\ open /\ u \in members
    /\ ~KeyUsed(u, k)
    /\ log' = Append(log, [sender |-> u, key |-> k])
    /\ entitled' = [v \in LogUsers |-> IF v \in members THEN entitled[v] \cup {Size + 1} ELSE entitled[v]]
    /\ read' = [read EXCEPT ![u] = IF own THEN Size + 1 ELSE @]
    /\ UNCHANGED <<open, members>>

(* A joiner sees nothing of the past, also nothing of an earlier stay. *)
Enter(u) ==
    /\ u \notin members
    /\ members' = members \cup {u}
    /\ entitled' = [entitled EXCEPT ![u] = {}]
    /\ read' = [read EXCEPT ![u] = Size]
    /\ UNCHANGED <<log, open>>

(* A leaver keeps what was visible, and the cursor. *)
Leave(u) ==
    /\ u \in members
    /\ members' = members \ {u}
    /\ UNCHANGED <<log, open, entitled, read>>

Read(u, s) ==
    /\ s \in entitled[u] /\ s > read[u]
    /\ read' = [read EXCEPT ![u] = s]
    /\ UNCHANGED <<log, open, members, entitled>>

Close ==
    /\ open
    /\ open' = FALSE
    /\ UNCHANGED <<log, members, entitled, read>>

LogNext ==
    \/ \E S \in SUBSET LogUsers : Start(S)
    \/ \E u \in LogUsers, k \in LogKeys, own \in BOOLEAN : Append1(u, k, own)
    \/ \E u \in LogUsers : Enter(u) \/ Leave(u) \/ (\E s \in entitled[u] : Read(u, s))
    \/ Close

LogSpec == LogInit /\ [][LogNext]_logVars
=============================================================================
