-------------------------- MODULE MCConversationChats --------------------------
(***************************************************************************)
(* Two conversations, one per behaviour. The single chat (the constants of *)
(* the configuration): sends, retries and reads on nodes whose clocks      *)
(* disagree. The group: joins, departures and removals at the member limit *)
(* among an owner, administrators and members.                             *)
(***************************************************************************)
EXTENDS MCConversation

CONSTANTS o, a, b, c

VARIABLE chat

G == INSTANCE Conversation WITH
        Users <- {o, a, b, c}, Owner <- o, SessionType <- "group",
        Workload <- {"join", "quit", "kick"}, Times <- {1}, MaxMsgs <- 0

MCInit ==
    \/ chat = "single" /\ Init
    \/ chat = "group" /\ G!Init

MCNext ==
    /\ chat' = chat
    /\ (chat = "single" /\ Next) \/ (chat = "group" /\ G!Next)

\* The fairness of the single chat; liveness is stated for it alone.
MCSpec == MCInit /\ [][MCNext]_<<chat, vars>> /\ Fairness

\* The single chat implements MessageLog.
Alone(x, y) == IF chat = "single" THEN x ELSE y
SingleLog == INSTANCE MessageLog WITH
    LogUsers <- {o, a}, LogKeys <- ClientMsgIds, Participants <- {o, a}, StartOpen <- TRUE,
    log <- Alone([s \in 1 .. conversation.maxSeq |-> LogEntry(s)], <<>>),
    open <- Alone(groupStatus = "normal", TRUE),
    members <- {o, a},
    entitled <- [u \in {o, a} |-> Alone(Visible(u), {})],
    read <- [u \in {o, a} |-> Alone(uc[u].readSeq, 0)]
SingleRefinesLog == SingleLog!LogSpec

\* Liveness: every request that was begun is answered or fails; no outcome of another
\* request, not even its crash inside the transaction, leaves the row locked for ever.
EveryRequestEnds ==
    \A r \in Req : (chat = "single" /\ pc[r] # "idle") ~> pc[r] = "idle"
================================================================================
