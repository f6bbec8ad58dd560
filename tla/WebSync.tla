------------------------------- MODULE WebSync -------------------------------
(***************************************************************************)
(* One device of one user: the web client (web/src/client) against the     *)
(* server's read services and tables.  A sync round walks the conversation *)
(* list and the sync baseline page by page, then pulls what each           *)
(* conversation lacks; pushes, resync requests, timers, page events and    *)
(* failures arrive between its requests.                                   *)
(***************************************************************************)
EXTENDS ReadService

CONSTANTS Convs,      \* conversations (numbers: they order a page)
          Groups,     \* those the user may leave and join again
          MaxSends,
          MaxDisturbances, \* departures, losses, failures and page events
          PageMax, PullMax,       \* the server's page sizes
          ListLimit, BoundsLimit, \* the limits the client asks for
          Active      \* the conversation on screen, if any: a set of at most one

ASSUME WebSyncAssumption ==
    /\ IsFiniteSet(Convs) /\ Convs \subseteq Nat /\ Groups \subseteq Convs /\ Active \subseteq Convs
    /\ PerMs \in Nat \ {0} /\ FarFuture \in Nat \ {0}
    /\ {PageMax, PullMax, ListLimit, BoundsLimit} \subseteq Nat

VARIABLES db, clock,
          up, frames,        \* the socket, and the frames on it
          cursors, stored,   \* conversation -> local maximum; the copy in localStorage
          messages,          \* conversation -> seqs on view
          conversations,     \* conversation on the list -> [min, max, read]
          round,             \* refreshPromise: {} or {the round and its place in it}
          dirty, syncTimer, reconcileTimer,
          backoff,           \* retrySyncAt lies ahead
          page,              \* "visible", "hidden" or "offline"
          got,               \* history: seqs this device received
          pushed,            \* history: seqs of pushes applied since the page was loaded
          moved,             \* history: conversations whose row moved during the walk
          missed,            \* history: conversations the latest walk did not find
          ok,                \* history: the latest round succeeded
          sends, disturbances

serverVars == <<db, clock, sends>>
clientVars == <<cursors, messages, conversations, got, pushed>>
timerVars == <<dirty, syncTimer, reconcileTimer, backoff>>
vars == <<serverVars, up, frames, clientVars, stored, round, timerVars, page, ok, missed, moved, disturbances>>

me == 1
Seqs == 1..MaxSends

NewRow(min, read, now) == [peer |-> 0, min |-> min, max |-> 0, read |-> read, opt |-> 0,
                           pinned |-> FALSE, updated |-> now, created |-> now]

\* refresh's round: walking the list ("list"), walking the baseline ("bounds"), with
\* the last page of it on its way ("apply"), asking for messages ("ask"), with the
\* answer on its way ("pull"), and the requests after the last range ("tail").
Round(phase) == [phase |-> phase, at |-> {}, list |-> <<>>, bounds |-> <<>>, range |-> 0,
                 local |-> 0, answer |-> <<>>]

NewRound == {Round("list")}

\* A group that everybody joined when it was made; a page that was just opened.
Init ==
    /\ db = [users |-> <<>>, groups |-> <<>>, online |-> <<>>, msgs |-> <<>>,
             members |-> [k \in Convs \X {me} |-> [role |-> 1]],
             convs |-> [c \in Convs |-> [max |-> 0, created |-> 0, updated |-> 0]],
             ucs |-> [k \in {me} \X Convs |-> NewRow(1, 0, 0)]]
    /\ clock = 0 /\ up = FALSE /\ frames = <<>>
    /\ cursors = [c \in Convs |-> 0] /\ stored = cursors
    /\ messages = [c \in Convs |-> {}] /\ conversations = <<>>
    /\ round = NewRound /\ dirty = FALSE
    /\ syncTimer = FALSE /\ reconcileTimer = FALSE /\ backoff = FALSE
    /\ page = "visible"
    /\ got = [c \in Convs |-> {}] /\ pushed = [c \in Convs |-> {}]
    /\ moved = {} /\ missed = {} /\ ok = FALSE
    /\ sends = 0 /\ disturbances = 0

-----------------------------------------------------------------------------
(* The server.                                                             *)

\* Two writes are a tick apart: some in the same millisecond, some not.
Tick == clock + 1 < FarFuture /\ clock' = clock + 1

Disturbance == disturbances < MaxDisturbances /\ disturbances' = disturbances + 1

Moves(C) == moved' = IF round = {} THEN moved ELSE moved \cup C

Row(c) == db.ucs[<<me, c>>]
HasRow(c) == <<me, c>> \in DOMAIN db.ucs
IsMember(c) == <<c, me>> \in DOMAIN db.members
ConvMax(c) == db.convs[c].max

\* The transaction of Send: the message, the conversation's maximum, the members' rows.
Stored(c, sender, seq, now) ==
    LET sent == InsertMessage(db, c, seq, [server |-> <<c, seq>>, sender |-> sender, client |-> seq, time |-> now]).db
        bumped == SetConversationMaxSeq(sent, c, seq, now).db
        touched == TouchConversationMembers(bumped, c, now).db
    IN  IF sender = me THEN AdvanceReadSeq(touched, me, c, seq).db ELSE touched

\* ... and its push to this connection: delivered, replaced by a resync request, or lost.
Pushes(c, seq) ==
    IF ~up \/ VisibleOwners(db', c, {me}, seq).val = {} THEN UNCHANGED <<frames, disturbances>>
    ELSE \/ frames' = Append(frames, <<"push", c, seq>>) /\ UNCHANGED disturbances
         \/ /\ Disturbance
            /\ frames' \in {Append(frames, <<"resync", c, seq>>), frames}

\* Somebody else's message.
Send(c) ==
    LET seq == ConvMax(c) + 1
    IN  /\ sends < MaxSends /\ sends' = sends + 1
        /\ Tick
        /\ db' = Stored(c, 2, seq, Larger(db.convs[c].updated, NowMs(clock')))
        /\ Pushes(c, seq)
        /\ Moves(IF IsMember(c) THEN {c} ELSE {})
        /\ UNCHANGED <<up, clientVars, stored, round, timerVars, page, ok, missed>>

\* The user leaves the group (or is removed from it) and joins it again.
Leave(c) ==
    /\ IsMember(c) /\ Disturbance
    /\ LET out == RemoveGroupMember(db, c, me).db
       IN  db' = IF ConvMax(c) = 0 THEN DeleteUserConversation(out, me, c).db
                 ELSE SetUserConversationMaxSeq(out, me, c, ConvMax(c)).db
    /\ UNCHANGED <<clock, sends, up, frames, clientVars, stored, round, timerVars, page, ok, missed, moved>>

Join(c) ==
    /\ ~IsMember(c) /\ Tick
    /\ LET in == AddGroupMember(db, c, me, [role |-> 1]).db
       IN  db' = UpsertUserConversation(in, me, c, NewRow(ConvMax(c) + 1, ConvMax(c), NowMs(clock'))).db
    /\ Moves({c})
    /\ UNCHANGED <<sends, up, frames, clientVars, stored, round, timerVars, page, ok, missed, disturbances>>

-----------------------------------------------------------------------------
(* Timers and page events.                                                 *)

canAutoSync == page = "visible"

\* A running round is repeated, otherwise one starts.
refresh ==
    IF round # {} THEN dirty' = TRUE /\ UNCHANGED <<round, reconcileTimer, moved>>
    ELSE round' = NewRound /\ dirty' = FALSE /\ reconcileTimer' = FALSE /\ moved' = {}

backgroundSync ==
    IF canAutoSync /\ ~backoff THEN refresh ELSE UNCHANGED <<round, dirty, reconcileTimer, moved>>

scheduleSync == syncTimer' = (syncTimer \/ (canAutoSync /\ ~backoff))

SyncTimerFires ==
    /\ syncTimer /\ syncTimer' = FALSE
    /\ backgroundSync
    /\ UNCHANGED <<serverVars, up, frames, clientVars, stored, backoff, page, ok, missed, disturbances>>

\* The timer is set only while no round runs and the page is visible; after a failure
\* it fires when retrySyncAt is reached.
ReconcileTimerFires ==
    /\ reconcileTimer /\ backoff' = FALSE
    /\ refresh
    /\ UNCHANGED <<serverVars, up, frames, clientVars, stored, syncTimer, page, ok, missed, disturbances>>

pauseSyncTimers == syncTimer' = FALSE /\ reconcileTimer' = FALSE

Hide ==
    /\ page = "visible" /\ page' = "hidden" /\ Disturbance
    /\ pauseSyncTimers
    /\ UNCHANGED <<serverVars, up, frames, clientVars, stored, round, dirty, backoff, ok, missed, moved>>

offline ==
    /\ page = "visible" /\ page' = "offline" /\ Disturbance
    /\ pauseSyncTimers
    /\ up' = FALSE /\ frames' = <<>>
    /\ UNCHANGED <<serverVars, clientVars, stored, round, dirty, backoff, ok, missed, moved>>

\* The page is visible and online again, or gets the focus: a round, whatever the backoff.
resume ==
    /\ \/ page # "visible" /\ UNCHANGED disturbances
       \/ page = "visible" /\ Disturbance
    /\ page' = "visible" /\ backoff' = FALSE
    /\ refresh
    /\ UNCHANGED <<serverVars, up, frames, clientVars, stored, syncTimer, ok, missed>>

\* The page is left and opened again, with or without its pagehide event.
Reload ==
    /\ Disturbance /\ page' = "visible"
    /\ stored' \in {cursors, stored} /\ cursors' = stored'
    /\ messages' = [c \in Convs |-> {}] /\ conversations' = <<>>
    /\ round' = NewRound /\ dirty' = FALSE /\ moved' = {}
    /\ syncTimer' = FALSE /\ reconcileTimer' = FALSE /\ backoff' = FALSE
    /\ up' = FALSE /\ frames' = <<>> /\ pushed' = [c \in Convs |-> {}]
    /\ UNCHANGED <<serverVars, got, ok, missed>>

-----------------------------------------------------------------------------
(* The socket.                                                             *)

\* connect and its onopen.
connect ==
    /\ ~up /\ page # "offline" /\ up' = TRUE
    /\ backgroundSync
    /\ UNCHANGED <<serverVars, frames, clientVars, stored, syncTimer, backoff, page, ok, missed, disturbances>>

Disconnect ==
    /\ up /\ Disturbance
    /\ up' = FALSE /\ frames' = <<>>
    /\ UNCHANGED <<serverVars, clientVars, stored, round, timerVars, page, ok, missed, moved>>

\* Mutants: any newer push is applied; a push does not ask for another round.
InOrderNewer(c, s) == s > cursors[c]
AnotherRoundNever == FALSE

\* The push continues what this device has.
InOrder(c, s) == s = cursors[c] + 1 /\ s >= conversations[c].min

AnotherRound == round # {}

applyPush(c, s) ==
    /\ cursors' = [cursors EXCEPT ![c] = s]
    /\ dirty' = (dirty \/ AnotherRound)
    /\ conversations' = [conversations EXCEPT ![c].max = Larger(@, s)]
    /\ messages' = [messages EXCEPT ![c] = @ \cup {s}]
    /\ got' = [got EXCEPT ![c] = @ \cup {s}]
    /\ pushed' = [pushed EXCEPT ![c] = @ \cup {s}]

onmessage ==
    /\ frames # <<>> /\ frames' = Tail(frames)
    /\ LET f == Head(frames)
           c == f[2]
           s == f[3]
           known == f[1] = "push" /\ c \in DOMAIN conversations
       IN  IF known /\ s <= cursors[c] THEN UNCHANGED <<clientVars, dirty, syncTimer>>
           ELSE IF known /\ InOrder(c, s) THEN applyPush(c, s) /\ UNCHANGED syncTimer
           ELSE scheduleSync /\ UNCHANGED <<clientVars, dirty>>
    /\ UNCHANGED <<serverVars, up, stored, round, reconcileTimer, backoff, page, ok, missed, moved, disturbances>>

-----------------------------------------------------------------------------
(* The round.  Its requests are answered one at a time; an answer that only *)
(* fills the round's local variables is read and stored in one step.       *)

Goes(r) == round' = {r}

\* Mutant: no timer is set after a failure.
scheduleReconciliationIfOk(failed) == reconcileTimer' = (canAutoSync /\ ~failed)

\* Set at the end of every round; after a failure it also ends the backoff.
scheduleReconciliation(failed) == reconcileTimer' = canAutoSync

\* syncOnce has returned: another one if a push or an event asked for it.
Finish ==
    IF dirty THEN /\ round' = NewRound /\ dirty' = FALSE /\ moved' = {}
                  /\ UNCHANGED <<stored, reconcileTimer, backoff, ok>>
    ELSE /\ round' = {} /\ backoff' = FALSE /\ stored' = cursors /\ ok' = TRUE
         /\ scheduleReconciliation(FALSE)
         /\ UNCHANGED <<dirty, moved>>

Fail ==
    /\ round' = {} /\ backoff' = TRUE /\ stored' = cursors /\ ok' = FALSE
    /\ scheduleReconciliation(TRUE)
    /\ UNCHANGED <<dirty, moved>>

\* GET /conversation/list: a page, with the user's conversations in it.
ListConversations ==
    \E r \in round :
        /\ r.phase = "list"
        /\ LET answer == List(db, me, r.at, ListLimit, PageMax)
               items == {answer.items[i].item : i \in DOMAIN answer.items}
               seen == With(r.list, [c \in {x.id : x \in items} |-> CHOOSE x \in items : x.id = c])
           IN  Goes([r EXCEPT !.list = seen, !.at = answer.next,
                              !.phase = IF answer.next = {} THEN "bounds" ELSE "list"])
        /\ UNCHANGED <<serverVars, up, frames, clientVars, stored, timerVars, page, ok, missed, moved, disturbances>>

\* GET /message/max_seqs: a page; the last one is on its way to the client.
ListBounds ==
    \E r \in round :
        /\ r.phase = "bounds"
        /\ LET answer == MaxSeqs(db, me, r.at, BoundsLimit, PageMax)
           IN  Goes([r EXCEPT !.bounds = @ \o answer.items, !.at = answer.next,
                              !.phase = IF answer.next = {} THEN "apply" ELSE "bounds"])
        /\ moved' = IF r.bounds = <<>> THEN {} ELSE moved
        /\ UNCHANGED <<serverVars, up, frames, clientVars, stored, timerVars, page, ok, missed, disturbances>>

\* syncRange's first commit: the cursor, moved into the round's bounds.
Clamped(cur, b) == LET low == Larger(cur, b.min - 1) IN IF low < b.max THEN low ELSE b.max

\* The ranges of b from the i-th on that lack something, and where a walk of them stops.
Lacking(b, cur, i) == {k \in i..Len(b) : Clamped(cur[b[k].id], b[k]) < b[k].max}

StopAt(b, cur, i) ==
    LET lacks == Lacking(b, cur, i)
    IN  IF lacks = {} THEN Len(b) ELSE CHOOSE k \in lacks : \A x \in lacks : k <= x

\* From the i-th range on: the ranges that lack nothing only have their cursor moved
\* into their bounds; the first that lacks something is asked for.
NextRange(r, cur, i) ==
    LET b == r.bounds
        stop == StopAt(b, cur, i)
    IN  /\ cursors' = [c \in Convs |->
                         IF \E k \in i..stop : b[k].id = c
                         THEN Clamped(cur[c], b[CHOOSE k \in i..stop : b[k].id = c]) ELSE cur[c]]
        /\ IF Lacking(b, cur, i) = {}
           THEN Goes([r EXCEPT !.phase = "tail", !.list = <<>>, !.range = 0, !.local = 0, !.answer = <<>>])
           ELSE Goes([r EXCEPT !.phase = "ask", !.list = <<>>, !.range = stop,
                               !.local = Clamped(cur[b[stop].id], b[stop]), !.answer = <<>>])

Bound(r, c) == {x \in Elements(r.bounds) : x.id = c}

\* The baseline has arrived: view and list are cut to it, and the pulls begin.
ApplyBounds ==
    \E r \in round :
        /\ r.phase = "apply"
        /\ messages' = [c \in Convs |-> {s \in messages[c] : \E b \in Bound(r, c) : b.min <= s /\ s <= b.max}]
        /\ conversations' = [c \in DOMAIN r.list |->
               LET item == r.list[c]
                   range == IF Bound(r, c) = {} THEN item ELSE CHOOSE b \in Bound(r, c) : TRUE
                   before == IF c \in DOMAIN conversations THEN conversations[c].read ELSE 0
               IN  [min |-> range.min, max |-> range.max,
                    read |-> Larger(Larger(range.read, item.read), before)]]
        /\ missed' = {c \in Convs : Bound(r, c) = {}}
        /\ NextRange(r, cursors, 1)
        /\ UNCHANGED <<serverVars, up, frames, got, pushed, stored, timerVars, page, ok, moved, disturbances>>

\* GET /message/pull: the server's answer, on its way.
PullRange ==
    \E r \in round :
        /\ r.phase = "ask"
        /\ LET b == r.bounds[r.range]
               answer == Pull(db, me, b.id, r.local + 1, b.max, 100, PullMax)
           IN  IF answer.err # Nil \/ answer.val.seqs = <<>>
               THEN Fail
               ELSE /\ Goes([r EXCEPT !.phase = "pull", !.answer = answer.val.seqs])
                    /\ UNCHANGED <<stored, dirty, reconcileTimer, backoff, ok, moved>>
        /\ UNCHANGED <<serverVars, up, frames, clientVars, syncTimer, page, missed, disturbances>>

\* ... arrives: merged if it continues what was there, page after page.
CommitPage ==
    \E r \in round :
        LET b == r.bounds[r.range]
            contiguous == \A i \in DOMAIN r.answer : r.answer[i] = r.local + i /\ r.answer[i] <= b.max
            next == r.answer[Len(r.answer)]
        IN  /\ r.phase = "pull"
            /\ IF ~contiguous
               THEN Fail /\ UNCHANGED clientVars
               ELSE /\ messages' = [messages EXCEPT ![b.id] = @ \cup Elements(r.answer)]
                    /\ got' = [got EXCEPT ![b.id] = @ \cup Elements(r.answer)]
                    /\ IF next < b.max
                       THEN /\ cursors' = [cursors EXCEPT ![b.id] = next]
                            /\ Goes([r EXCEPT !.phase = "ask", !.local = next, !.answer = <<>>])
                       ELSE NextRange(r, [cursors EXCEPT ![b.id] = next], r.range + 1)
                    /\ UNCHANGED <<conversations, pushed, stored, dirty, reconcileTimer, backoff, ok, moved>>
            /\ UNCHANGED <<serverVars, up, frames, syncTimer, page, missed, disturbances>>

\* Profiles, and the history of the conversation on screen if nothing of it is on view.
EndRound ==
    \E r \in round :
        /\ r.phase = "tail"
        /\ messages' = [c \in Convs |->
               IF c \in Active /\ Bound(r, c) # {} /\ messages[c] = {}
               THEN LET b == CHOOSE x \in Bound(r, c) : TRUE
                        current == IF c \in DOMAIN conversations THEN conversations[c] ELSE b
                        answer == Pull(db, me, c, Larger(b.min, b.max - 99), b.max, 100, 100)
                    IN  IF answer.err # Nil \/ b.max < b.min \/ b.max < 1 THEN {}
                        ELSE {s \in Elements(answer.val.seqs) : current.min <= s /\ s <= current.max}
               ELSE messages[c]]
        /\ Finish
        /\ UNCHANGED <<serverVars, up, frames, cursors, conversations, got, pushed, syncTimer, page, missed, disturbances>>

\* A request of the round gets no answer, or an error.
RequestFails ==
    /\ round # {} /\ Disturbance
    /\ Fail
    /\ UNCHANGED <<serverVars, up, frames, clientVars, syncTimer, page, missed>>

-----------------------------------------------------------------------------
(* The user.                                                               *)

ReadTarget(c, seq) == IF seq < cursors[c] THEN seq ELSE cursors[c]

\* POST /conversation/read for the latest message on view, and its answer; the view
\* calls it while it is visible and not syncing.
markRead(c) ==
    LET seq == CHOOSE s \in messages[c] : \A x \in messages[c] : x <= s
        read == ReadTarget(c, seq)
        answer == MarkRead(db, me, c, read)
    IN  /\ round = {} /\ page = "visible" /\ messages[c] # {} /\ c \in DOMAIN conversations
        /\ read >= 1 /\ read > conversations[c].read
        /\ answer.err = Nil
        /\ db' = answer.db
        /\ conversations' = [conversations EXCEPT ![c].read = Larger(@, answer.val)]
        /\ UNCHANGED <<clock, sends, up, frames, cursors, messages, got, pushed, stored, round,
                       timerVars, page, ok, missed, moved, disturbances>>

\* POST /message/send and its ack: on view at once, the cursor left to the sync.
transmit(c) ==
    LET seq == ConvMax(c) + 1
    IN  /\ IsMember(c) /\ c \in DOMAIN conversations
        /\ sends < MaxSends /\ sends' = sends + 1
        /\ Tick
        /\ db' = Stored(c, me, seq, Larger(db.convs[c].updated, NowMs(clock')))
        /\ Pushes(c, seq)
        /\ messages' = [messages EXCEPT ![c] = @ \cup {seq}]
        /\ scheduleSync
        /\ Moves({c})
        /\ UNCHANGED <<up, cursors, conversations, got, pushed, stored, round, dirty,
                       reconcileTimer, backoff, page, ok, missed>>

Environment ==
    \/ \E c \in Convs : Send(c)
    \/ \E c \in Groups : Leave(c) \/ Join(c)
    \/ \E c \in Active : markRead(c) \/ transmit(c)
    \/ Hide \/ offline \/ Reload \/ Disconnect \/ RequestFails

Rounds == ListConversations \/ ListBounds \/ ApplyBounds \/ PullRange \/ CommitPage \/ EndRound

EventLoop == Rounds \/ SyncTimerFires \/ ReconcileTimerFires \/ connect \/ onmessage

Next == Environment \/ EventLoop \/ resume

Spec == Init /\ [][Next]_vars

\* The browser's event loop runs whatever is due: requests are answered or fail, timers
\* fire, the socket is opened again and its frames are handled, in any order.  (Weak
\* fairness of EventLoop, with Due for its ENABLED, which TLC is slow to evaluate.)
Due == round # {} \/ syncTimer \/ reconcileTimer \/ frames # <<>> \/ (~up /\ page # "offline")

FairSpec == Spec /\ ([]<>(~Due) \/ []<><<EventLoop>>_vars)

-----------------------------------------------------------------------------
Visible(c) == {s \in Seqs : HasRow(c) /\ Row(c).min <= s /\ s <= VisibleMax(Row(c), ConvMax(c))}

\* The local maximum never covers a visible message that this device has not received,
\* whatever pushes, pulls of older rounds, rejoins and reloads interleave: syncRange's
\* "a last_message, push or send ACK must never skip a gap in this cursor".
CursorNoGap == \A c \in Convs : \A s \in Visible(c) : s <= cursors[c] => s \in got[c]

\* A finished walk of the list or of the baseline misses only conversations whose row
\* moved while it ran, however the rows' times fall into the cursor's milliseconds
\* (ListPage, EncodeCursor, NowMs).
WalkComplete ==
    \A r \in round : \A c \in Convs : HasRow(c) =>
        /\ r.phase = "bounds" /\ r.bounds = <<>> => c \in DOMAIN r.list \cup moved
        /\ r.phase = "apply" => Bound(r, c) # {} \/ c \in moved

\* When no round runs and the latest one succeeded, no cursor is behind a push that was
\* applied: a round that moved it back to older bounds was repeated (applyPush, dirty).
\* The exception is a conversation that the latest walk missed.
PushSurvivesRound ==
    round = {} /\ ok => \A c \in Convs \ missed : \A s \in pushed[c] : cursors[c] >= s

\* A page that stays visible and online ends up with a local maximum at the visible
\* maximum of every conversation, whatever frames and requests were lost before
\* (scheduleReconciliation, refresh, resume).
EventuallySynced ==
    page = "visible" ~>
        \/ page # "visible"
        \/ \A c \in Convs : HasRow(c) => cursors[c] = VisibleMax(Row(c), ConvMax(c))

\* A message that a push put on view is still there when the latest round succeeded,
\* if it is still visible and that round's walk found its conversation (syncOnce and
\* applyPush; README: "a client that missed frames pulls the range it lacks instead of
\* losing messages").
PushStaysOnView ==
    round = {} /\ ok =>
        \A c \in DOMAIN conversations \ missed : pushed[c] \cap Visible(c) \subseteq messages[c]
=============================================================================
