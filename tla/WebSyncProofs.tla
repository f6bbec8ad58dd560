---------------------------- MODULE WebSyncProofs ---------------------------
(*****************************************************************************)
(* Theorems about WebSync for any conversations, groups, page sizes and      *)
(* clock resolution, and any number of messages and disturbances. The        *)
(* device's half comes first: every step of the client, of its round and of  *)
(* its walk through the pages keeps the inductive invariant of WebSyncInv,   *)
(* whatever pages and answers of the promised shape the read services give.  *)
(* With the server's half (WebSyncTables) the invariant is inductive, and it *)
(* implies what the runs check of cursors, pushes and page walks.            *)
(*****************************************************************************)
EXTENDS WebSyncTables, WellFoundedInduction

(* A leaf that names no prover is Zenon's; SMTT marks those with arithmetic. *)
USE ZenonT(30)

-----------------------------------------------------------------------------
(* Numbers, sequences and frames. *)

(* A nonempty set of numbers has a least one. *)
LEMMA LeastNumber == ASSUME NEW T \in SUBSET Nat, T # {} PROVE \E n \in T : \A m \in T : n <= m
  <1>1. \E n \in T : \A m \in T : ~(<<m, n>> \in OpToRel(<, Nat)) BY NatLessThanWellFounded, WFMin
  <1>2. \A m, n \in Nat : <<m, n>> \in OpToRel(<, Nat) <=> m < n BY DEF OpToRel
  <1>3. \E n \in T : \A m \in T : ~(m < n) BY <1>1, <1>2
  <1> QED BY <1>3, SMTT(30)

(* The numbers in the rows of a conversation. *)
LEMMA RowNumbers ==
  ASSUME DbType(db), NEW c \in Convs
  PROVE  /\ ConvMax(c) \in Nat
         /\ HasRow(c) => /\ Row(c) \in UcRow
                         /\ Row(c).min \in Nat /\ Row(c).max \in Nat /\ Row(c).updated \in Nat
                         /\ Top(c) \in Nat
  <1>1. ConvMax(c) \in Nat BY SMTT(30) DEF DbType, ConvsType, ConvRow, ConvMax
  <1>2. HasRow(c) => Row(c) \in UcRow BY DEF DbType, UcsType, HasRow, Row
  <1>3. ASSUME NEW u \in UcRow PROVE u.min \in Nat /\ u.max \in Nat /\ u.updated \in Nat BY SMTT(30) DEF UcRow
  <1> QED BY <1>1, <1>2, <1>3 DEF Top, VisibleMax

(* ... after a step. *)
LEMMA RowNumbersNext ==
  ASSUME DbType(db'), NEW c \in Convs
  PROVE  ConvMax(c)' \in Nat /\ (HasRow(c)' => Row(c)'.min \in Nat)
  <1>1. ConvMax(c)' \in Nat BY SMTT(30) DEF DbType, ConvsType, ConvRow, ConvMax
  <1>2. HasRow(c)' => Row(c)' \in UcRow BY DEF DbType, UcsType, HasRow, Row
  <1>3. ASSUME NEW u \in UcRow PROVE u.min \in Nat BY SMTT(30) DEF UcRow
  <1> QED BY <1>1, <1>2, <1>3

(* The elements of a sequence have its type. *)
LEMMA SeqElements ==
  ASSUME NEW T, NEW s \in Seq(T)
  PROVE  Len(s) \in Nat /\ DOMAIN s = 1 .. Len(s)
  BY SMTT(30)

(* The head and the tail of a nonempty sequence. *)
LEMMA HeadTail ==
  ASSUME NEW T, NEW s \in Seq(T)
  PROVE  <<>> \in Seq(T) /\ (s # <<>> => Head(s) \in T /\ Tail(s) \in Seq(T))
  BY SMTT(30)

(* The parts of a frame. *)
LEMMA FrameParts ==
  ASSUME NEW f \in Frame PROVE f[1] \in {"push", "resync"} /\ f[2] \in Convs /\ f[3] \in Nat
  BY SMTT(30) DEF Frame

-----------------------------------------------------------------------------
(* Steps that keep, start or end a round. *)

(* What stays when the tables and the clock do. *)
LEMMA TablesSame ==
  ASSUME IInv, UNCHANGED <<db, clock>>
  PROVE  /\ TableInv' /\ TimeInv' /\ DbType(db') /\ clock' \in Nat /\ clock' < FarFuture
         /\ \A c : HasRow(c)' = HasRow(c) /\ Row(c)' = Row(c) /\ ConvMax(c)' = ConvMax(c) /\ Top(c)' = Top(c)
                   /\ Place(c)' = Place(c)
         /\ \A f : FrameOk(f)' = FrameOk(f)
         /\ \A b : BoundOk(b)' = BoundOk(b)
  <1>1. TableInv' BY DEF IInv, TableInv, HasRow, Row, ConvMax, IsMember
  <1>2. TimeInv' BY DEF IInv, TimeInv, HasRow, Row
  <1>3. DbType(db') /\ clock' \in Nat /\ clock' < FarFuture BY DEF IInv, TypeInv
  <1>4. \A c : HasRow(c)' = HasRow(c) /\ Row(c)' = Row(c) /\ ConvMax(c)' = ConvMax(c) BY DEF HasRow, Row, ConvMax
  <1>5. \A c : Top(c)' = Top(c) BY <1>4 DEF Top
  <1>6. \A c : Place(c)' = Place(c) BY <1>4 DEF Place
  <1>7. \A f : FrameOk(f)' = FrameOk(f) BY DEF FrameOk, HasRow, Row, ConvMax, Top
  <1>8. \A b : BoundOk(b)' = BoundOk(b) BY DEF BoundOk, HasRow, Row, ConvMax
  <1> QED BY <1>1, <1>2, <1>3, <1>4, <1>5, <1>6, <1>7, <1>8

(* What was filled stays filled when the device received more. *)
LEMMA FilledSame ==
  ASSUME db' = db, NEW c, got[c] \subseteq got'[c], NEW m, Filled(c, m)
  PROVE  Filled(c, m)'
  BY DEF Filled, HasRow, Row, ConvMax

(* A new round is at the first page of the list. *)
LEMMA NewRoundType ==
  \A r \in NewRound : NewRound = {r} /\ RoundType(r) /\ r.phase = "list" /\ r.at = {} /\ r.bounds = <<>>
  <1>1. NewRound = {Round("list")} BY DEF NewRound
  <1>2. PICK r : r = Round("list") OBVIOUS
  <1>3. r.phase = "list" /\ r.at = {} /\ r.bounds = <<>> /\ r.range = 0 /\ r.local = 0 /\ r.answer = <<>>
    BY <1>2, SMTT(30) DEF Round
  <1>4. r = [phase |-> r.phase, at |-> r.at, list |-> r.list, bounds |-> r.bounds,
             range |-> r.range, local |-> r.local, answer |-> r.answer]
    BY <1>2, SMTT(30) DEF Round
  <1>5. <<>> \in Seq(Item) /\ <<>> \in Seq(Nat) /\ 0 \in Nat /\ "list" \in Phases BY SMTT(30) DEF Phases
  <1>6. RoundType(r) BY <1>3, <1>4, <1>5 DEF RoundType
  <1> QED BY <1>1, <1>2, <1>3, <1>6

(* Every row precedes the first page's cursor. *)
LEMMA FreshPage ==
  ASSUME DbType(db), clock \in Nat, clock < FarFuture, TimeInv, NEW c \in Convs, HasRow(c)
  PROVE  Precedes(Place(c), DecodeCursor({}))
  <1>1. Place(c) = <<Row(c).updated, c>> BY DEF Place
  <1>2. Row(c).updated \in Nat /\ Row(c).updated <= NowMs(clock) BY RowNumbers DEF TimeInv, Stamp
  <1>3. NowMs(clock) \in Nat /\ NowMs(clock) <= clock BY WebSyncAssumption, SMTT(30) DEF NowMs
  <1>4. DecodeCursor({}) = <<FarFuture, 0>> BY DEF DecodeCursor
  <1>5. Row(c).updated < FarFuture BY <1>2, <1>3, WebSyncAssumption, SMTT(30)
  <1> QED BY <1>1, <1>4, <1>5, SMTT(30) DEF Precedes

(* The tail of a sequence holds elements of it. *)
LEMMA TailElement ==
  ASSUME NEW T, NEW s \in Seq(T), s # <<>>, NEW i \in DOMAIN Tail(s)
  PROVE  \E j \in DOMAIN s : Tail(s)[i] = s[j]
  <1>1. i + 1 \in DOMAIN s /\ Tail(s)[i] = s[i + 1] BY SMTT(30)
  <1> QED BY <1>1

\* Steps that keep the round, start one or end one.
RoundStays == round' = round /\ moved' = moved /\ missed' = missed /\ (dirty => dirty') /\ (round = {} /\ ok' => ok)
              /\ cursors' = cursors /\ pushed' = pushed
RoundStarts == round' = NewRound
RoundEnds == round' = {} /\ PushSurvivesRound'

(* A step that keeps the round, starts one or ends one keeps the invariant. *)
LEMMA RoundKeeps ==
  ASSUME IInv, UNCHANGED <<db, clock, got>>,
         frames' = frames \/ frames' = <<>> \/ (frames # <<>> /\ frames' = Tail(frames)),
         messages' \in [Convs -> SUBSET Nat], \A c \in Convs : messages'[c] \subseteq 1 .. ConvMax(c),
         cursors' \in {cursors, stored}, stored' \in {cursors, stored}, dirty' \in BOOLEAN,
         pushed' = pushed \/ pushed' = [c \in Convs |-> {}],
         RoundStays \/ RoundStarts \/ RoundEnds
  PROVE  IInv'
  <1> USE TablesSame
  <1>1. TypeInv'
    <2>1. frames' \in Seq(Frame)
      <3>1. frames \in Seq(Frame) /\ <<>> \in Seq(Frame) /\ (frames # <<>> => Tail(frames) \in Seq(Frame))
        BY HeadTail DEF IInv, TypeInv, Frame
      <3> QED BY <3>1
    <2>2. cursors' \in [Convs -> Nat] /\ stored' \in [Convs -> Nat] /\ got' \in [Convs -> SUBSET Nat] BY DEF IInv, TypeInv
    <2>3. pushed' \in [Convs -> SUBSET Nat]
      <3>1. pushed \in [Convs -> SUBSET Nat] /\ [c \in Convs |-> {}] \in [Convs -> SUBSET Nat] BY DEF IInv, TypeInv
      <3> QED BY <3>1
    <2>4. \A r \in round' : round' = {r} /\ RoundType(r)
      <3>1. \A r \in round : round = {r} /\ RoundType(r) BY DEF IInv, TypeInv
      <3> QED BY <3>1, NewRoundType DEF RoundStays, RoundStarts, RoundEnds
    <2>5. DbType(db') /\ clock' \in Nat /\ clock' < FarFuture OBVIOUS
    <2> QED BY <2>1, <2>2, <2>3, <2>4, <2>5 DEF TypeInv, Frame
  <1>2. GapInv'
    <2>1. ASSUME NEW c \in Convs PROVE GapConv(c)'
      <3>1. Filled(c, cursors[c]) /\ Filled(c, stored[c]) BY DEF IInv, GapInv, GapConv
      <3>2. PICK m, n : m = cursors'[c] /\ n = stored'[c] OBVIOUS
      <3>3. Filled(c, m) /\ Filled(c, n) BY <3>1, <3>2
      <3>4. Filled(c, m)' /\ Filled(c, n)' BY <3>3, FilledSame
      <3>5. Filled(c, cursors[c])' /\ Filled(c, stored[c])' BY <3>2, <3>4 DEF Filled
      <3>6. messages'[c] \subseteq 1 .. ConvMax(c)' OBVIOUS
      <3> QED BY <3>5, <3>6 DEF GapConv
    <2>2. ASSUME NEW i \in DOMAIN frames' PROVE FrameOk(frames[i])'
      <3>1. CASE frames' = <<>> BY <2>2, <3>1, SMTT(30)
      <3>2. CASE frames' = frames
        <4>1. PICK f : f = frames[i] OBVIOUS
        <4>2. FrameOk(f) BY <2>2, <3>2, <4>1 DEF IInv, GapInv
        <4>3. FrameOk(f)' BY <4>2
        <4> QED BY <3>2, <4>1, <4>3 DEF FrameOk
      <3>3. CASE frames # <<>> /\ frames' = Tail(frames)
        <4>1. frames \in Seq(Frame) BY DEF IInv, TypeInv, Frame
        <4>2. PICK j \in DOMAIN frames : frames'[i] = frames[j] BY <2>2, <3>3, <4>1, TailElement
        <4>3. PICK f : f = frames[j] OBVIOUS
        <4>4. FrameOk(f) BY <4>2, <4>3 DEF IInv, GapInv
        <4>5. FrameOk(f)' BY <4>4
        <4> QED BY <4>2, <4>3, <4>5 DEF FrameOk
      <3> QED BY <3>1, <3>2, <3>3
    <2>3. ASSUME NEW r \in round' PROVE GapRound(r)'
      <3>1. CASE r \in round
        <4>1. GapRound(r) BY <3>1 DEF IInv, GapInv
        <4>2. \A k \in DOMAIN r.bounds : BoundOk(r.bounds[k])' BY <4>1 DEF GapRound
        <4>3. \A m, c : Filled(c, m) => Filled(c, m)' BY FilledSame
        <4> QED BY <4>1, <4>2, <4>3 DEF GapRound
      <3>2. CASE r \in NewRound
        <4>1. r.phase = "list" /\ r.bounds = <<>> BY <3>2, NewRoundType
        <4>2. DOMAIN r.bounds = {} BY <4>1, SMTT(30)
        <4> QED BY <4>1, <4>2 DEF GapRound
      <3> QED BY <2>3, <3>1, <3>2 DEF RoundStays, RoundStarts, RoundEnds
    <2> QED BY <2>1, <2>2, <2>3 DEF GapInv
  <1>3. PushInv'
    <2>1. ASSUME NEW c \in Convs PROVE PushConv(c)'
      <3>1. PushConv(c) BY DEF IInv, PushInv
      <3>2. CASE pushed' = pushed BY <3>1, <3>2 DEF PushConv
      <3>3. CASE pushed' = [x \in Convs |-> {}] BY <3>3 DEF PushConv
      <3> QED BY <3>2, <3>3
    <2>2. CASE RoundStays
      <3>1. ASSUME NEW r \in round PROVE PushRound(r)'
        <4>1. PushRound(r) BY DEF IInv, PushInv
        <4> QED BY <2>2, <4>1 DEF RoundStays, PushRound, PushBounds, Covered
      <3>2. PushSurvivesRound' BY <2>2 DEF RoundStays, IInv, PushInv, PushSurvivesRound
      <3> QED BY <2>1, <2>2, <3>1, <3>2 DEF RoundStays, PushInv
    <2>3. CASE RoundStarts
      <3>1. ASSUME NEW r \in round' PROVE PushRound(r)'
        <4>1. r.phase = "list" /\ r.bounds = <<>> BY <2>3, <3>1, NewRoundType DEF RoundStarts
        <4>2. DOMAIN r.bounds = {} BY <4>1, SMTT(30)
        <4> QED BY <4>1, <4>2 DEF PushRound, PushBounds
      <3>2. PushSurvivesRound' BY <2>3 DEF RoundStarts, NewRound, PushSurvivesRound
      <3> QED BY <2>1, <3>1, <3>2 DEF PushInv
    <2>4. CASE RoundEnds BY <2>1, <2>4 DEF RoundEnds, PushInv
    <2> QED BY <2>2, <2>3, <2>4
  <1>4. WalkInv'
    <2>1. CASE RoundStays
      <3>1. ASSUME NEW r \in round PROVE WalkRound(r)'
        <4>1. WalkRound(r) BY DEF IInv, WalkInv
        <4> QED BY <2>1, <4>1 DEF RoundStays, WalkRound
      <3>2. WalkComplete' BY <2>1 DEF RoundStays, IInv, WalkInv, WalkComplete
      <3> QED BY <2>1, <3>1, <3>2 DEF RoundStays, WalkInv
    <2>2. CASE RoundStarts
      <3>1. ASSUME NEW r \in round' PROVE WalkRound(r)'
        <4>1. r.phase = "list" /\ r.at = {} /\ r.bounds = <<>> BY <2>2, <3>1, NewRoundType DEF RoundStarts
        <4>2. DOMAIN r.bounds = {} BY <4>1, SMTT(30)
        <4>3. \A c \in Convs : HasRow(c) => Precedes(Place(c), DecodeCursor({})) BY FreshPage DEF IInv, TypeInv
        <4>4. \A c \in Convs : HasRow(c)' => Precedes(Place(c)', DecodeCursor(r.at)) BY <4>1, <4>3
        <4> QED BY <4>1, <4>2, <4>4 DEF WalkRound, Distinct
      <3>2. WalkComplete'
        <4>1. \A r \in round' : r.phase = "list" BY <2>2, NewRoundType DEF RoundStarts
        <4> QED BY <4>1 DEF WalkComplete
      <3> QED BY <3>1, <3>2 DEF WalkInv
    <2>3. CASE RoundEnds BY <2>3 DEF RoundEnds, WalkInv, WalkComplete
    <2> QED BY <2>1, <2>2, <2>3
  <1> QED BY <1>1, <1>2, <1>3, <1>4 DEF IInv

(* A view that stays, in the same tables. *)
LEMMA ViewStays ==
  ASSUME IInv, messages' = messages \/ messages' = [c \in Convs |-> {}]
  PROVE  messages' \in [Convs -> SUBSET Nat] /\ \A c \in Convs : messages'[c] \subseteq 1 .. ConvMax(c)
  <1>1. messages \in [Convs -> SUBSET Nat] /\ \A c \in Convs : messages[c] \subseteq 1 .. ConvMax(c)
    BY DEF IInv, TypeInv, GapInv, GapConv
  <1>2. CASE messages' = messages BY <1>1, <1>2
  <1>3. CASE messages' = [c \in Convs |-> {}] BY <1>3
  <1> QED BY <1>2, <1>3

-----------------------------------------------------------------------------
(* Timers, page events, failures and the end of a round. *)

(* refresh keeps the round or starts one. *)
LEMMA RefreshRound ==
  ASSUME IInv, refresh, UNCHANGED <<missed, ok, cursors, pushed>>
  PROVE  (RoundStays \/ RoundStarts) /\ dirty' \in BOOLEAN
  BY DEF refresh, RoundStays, RoundStarts

(* backgroundSync keeps the round or starts one. *)
LEMMA BackgroundRound ==
  ASSUME IInv, backgroundSync, UNCHANGED <<missed, ok, cursors, pushed>>
  PROVE  (RoundStays \/ RoundStarts) /\ dirty' \in BOOLEAN
  <1>1. CASE refresh BY <1>1, RefreshRound
  <1>2. CASE UNCHANGED <<round, dirty, reconcileTimer, moved>> BY <1>2 DEF RoundStays, IInv, TypeInv
  <1> QED BY <1>1, <1>2 DEF backgroundSync

(* The timers, the open socket and resume keep the invariant. *)
LEMMA TimersKeep ==
  ASSUME IInv, SyncTimerFires \/ ReconcileTimerFires \/ resume \/ connect
  PROVE  IInv'
  <1>1. /\ UNCHANGED <<db, clock, got, frames, messages, cursors, stored, pushed, missed, ok>>
        /\ refresh \/ backgroundSync
    BY DEF SyncTimerFires, ReconcileTimerFires, resume, connect, serverVars, clientVars
  <1>2. (RoundStays \/ RoundStarts) /\ dirty' \in BOOLEAN BY <1>1, RefreshRound, BackgroundRound
  <1> QED BY <1>1, <1>2, ViewStays, RoundKeeps

(* Hiding the page and losing the socket keep the invariant. *)
LEMMA PausesKeep ==
  ASSUME IInv, Hide \/ offline \/ Disconnect
  PROVE  IInv'
  <1>1. /\ UNCHANGED <<db, clock, got, messages, cursors, stored, pushed, missed, ok, round, dirty, moved>>
        /\ frames' = frames \/ frames' = <<>>
    BY DEF Hide, offline, Disconnect, serverVars, clientVars, timerVars
  <1>2. RoundStays /\ dirty' \in BOOLEAN BY <1>1 DEF RoundStays, IInv, TypeInv
  <1> QED BY <1>1, <1>2, ViewStays, RoundKeeps

(* Leaving the page and opening it again keeps the invariant. *)
LEMMA ReloadKeeps ==
  ASSUME IInv, Reload
  PROVE  IInv'
  <1>1. /\ UNCHANGED <<db, clock, got>> /\ frames' = <<>> /\ messages' = [c \in Convs |-> {}]
        /\ cursors' \in {cursors, stored} /\ stored' \in {cursors, stored} /\ dirty' = FALSE
        /\ pushed' = [c \in Convs |-> {}] /\ round' = NewRound
    BY DEF Reload, serverVars
  <1> QED BY <1>1, ViewStays, RoundKeeps DEF RoundStarts

(* A failure ends the round. *)
LEMMA FailEnds ==
  ASSUME IInv, Fail
  PROVE  RoundEnds /\ stored' = cursors /\ dirty' \in BOOLEAN
  BY DEF Fail, RoundEnds, PushSurvivesRound, IInv, TypeInv

(* ... and keeps the invariant. *)
LEMMA FailKeeps ==
  ASSUME IInv, Fail, UNCHANGED <<db, clock, got, frames, messages, cursors, pushed>>
  PROVE  IInv'
  BY FailEnds, ViewStays, RoundKeeps

(* A request without answer keeps the invariant. *)
LEMMA RequestFailsKeeps ==
  ASSUME IInv, RequestFails
  PROVE  IInv'
  <1>1. Fail /\ UNCHANGED <<db, clock, got, frames, messages, cursors, pushed>>
    BY DEF RequestFails, serverVars, clientVars
  <1> QED BY <1>1, FailKeeps

(* The elements of a sequence have its type. *)
LEMMA ElementsType ==
  ASSUME NEW T, NEW s \in Seq(T)
  PROVE  Elements(s) \subseteq T
  BY SMTT(30) DEF Elements

(* A bound of a conversation is an item of the baseline. *)
LEMMA BoundItem ==
  ASSUME NEW r, RoundType(r), NEW c \in Convs, NEW b \in Bound(r, c)
  PROVE  b \in Item /\ b.id = c /\ \E k \in DOMAIN r.bounds : r.bounds[k] = b
  <1>1. r.bounds \in Seq(Item) BY DEF RoundType
  <1>2. b \in Elements(r.bounds) /\ b.id = c BY DEF Bound
  <1>3. Elements(r.bounds) \subseteq Item BY <1>1, ElementsType
  <1> QED BY <1>2, <1>3 DEF Elements

(* The fields of an item of the baseline. *)
LEMMA ItemType ==
  ASSUME NEW b \in Item
  PROVE  b.id \in Convs /\ b.min \in Nat /\ b.max \in Nat /\ b.read \in Nat
  BY SMTT(30) DEF Item

(* A round's bounds are items. *)
LEMMA RoundItems ==
  ASSUME NEW r, RoundType(r), NEW k \in DOMAIN r.bounds
  PROVE  r.bounds[k] \in Item
  BY SMTT(30) DEF RoundType

(* The end of a round keeps the invariant: without a push since it started,  *)
(* every range it covered reaches every push.                                *)
LEMMA EndRoundKeeps ==
  ASSUME IInv, Answers, EndRound
  PROVE  IInv'
  <1>1. PICK r \in round :
        /\ r.phase = "tail"
        /\ messages' = [c \in Convs |->
               IF c \in Active /\ Bound(r, c) # {} /\ messages[c] = {}
               THEN LET b == CHOOSE x \in Bound(r, c) : TRUE
                        current == IF c \in DOMAIN conversations THEN conversations[c] ELSE b
                        answer == Pull(db, me, c, Larger(b.min, b.max - 99), b.max, 100, 100)
                    IN  IF answer.err # Nil \/ b.max < b.min \/ b.max < 1 THEN {}
                        ELSE {s \in Elements(answer.val.seqs) : current.min <= s /\ s <= current.max}
               ELSE messages[c]]
        /\ Finish
        /\ UNCHANGED <<serverVars, up, frames, cursors, conversations, got, pushed, syncTimer, page, missed, disturbances>>
    BY DEF EndRound
  <1>2. /\ RoundType(r) /\ round = {r} /\ PushRound(r) /\ DbType(db) /\ TableInv
        /\ messages \in [Convs -> SUBSET Nat] /\ \A c \in Convs : messages[c] \subseteq 1 .. ConvMax(c)
    BY DEF IInv, TypeInv, PushInv, GapInv, GapConv
  <1>3. ASSUME NEW c \in Convs
        PROVE  messages'[c] \subseteq 1 .. ConvMax(c) /\ messages'[c] \subseteq Nat
    <2>1. 1 .. ConvMax(c) \subseteq Nat BY <1>2, RowNumbers, SMTT(30)
    <2>2. CASE ~(c \in Active /\ Bound(r, c) # {} /\ messages[c] = {})
      <3>1. messages'[c] = messages[c] BY <1>1, <2>2
      <3> QED BY <1>2, <2>1, <3>1
    <2>3. CASE c \in Active /\ Bound(r, c) # {} /\ messages[c] = {}
      <3> DEFINE b == CHOOSE x \in Bound(r, c) : TRUE
                 current == IF c \in DOMAIN conversations THEN conversations[c] ELSE b
                 answer == Pull(db, me, c, Larger(b.min, b.max - 99), b.max, 100, 100)
      <3>1. messages'[c] = IF answer.err # Nil \/ b.max < b.min \/ b.max < 1 THEN {}
                           ELSE {s \in Elements(answer.val.seqs) : current.min <= s /\ s <= current.max}
        BY <1>1, <2>3
      <3>2. b \in Item BY <1>2, <2>3, BoundItem
      <3> HIDE DEF b
      <3>3. b.min \in Nat /\ b.max \in Nat BY <3>2, ItemType
      <3>4. Larger(b.min, b.max - 99) \in Nat /\ 100 \in Nat BY <3>3, SMTT(30) DEF Larger
      <3>5. answer.err = Nil => \A i \in DOMAIN answer.val.seqs : answer.val.seqs[i] \in 1 .. ConvMax(c)
        BY <1>2, <3>3, <3>4 DEF Answers, IsAnswer
      <3> HIDE DEF answer
      <3>6. answer.err = Nil => Elements(answer.val.seqs) \subseteq 1 .. ConvMax(c) BY <3>5 DEF Elements
      <3>7. messages'[c] \subseteq 1 .. ConvMax(c) BY <3>1, <3>6
      <3> QED BY <2>1, <3>7
    <2> QED BY <2>2, <2>3
  <1>4. messages' \in [Convs -> SUBSET Nat]
    <2>1. DOMAIN messages' = Convs /\ messages' = [c \in Convs |-> messages'[c]] BY <1>1
    <2> QED BY <1>3, <2>1
  <1>5. UNCHANGED <<db, clock, got, frames, cursors, pushed, missed>> /\ Finish BY <1>1 DEF serverVars
  <1>6. (RoundStarts \/ RoundEnds) /\ dirty' \in BOOLEAN /\ stored' \in {cursors, stored}
    <2>1. CASE dirty BY <1>5, <2>1 DEF Finish, RoundStarts
    <2>2. CASE ~dirty
      <3>1. round' = {} /\ stored' = cursors /\ ok' = TRUE /\ dirty' = dirty BY <1>5, <2>2 DEF Finish
      <3>2. PushSurvivesRound'
        <4> SUFFICES ASSUME NEW c \in Convs \ missed, NEW s \in pushed[c] PROVE cursors[c] >= s
          BY <1>5 DEF PushSurvivesRound
        <4>1. Bound(r, c) # {} BY <1>1, <1>2 DEF PushRound
        <4>2. PICK b \in Bound(r, c) : TRUE BY <4>1
        <4>3. PICK k \in DOMAIN r.bounds : r.bounds[k] = b /\ b.id = c BY <1>2, <4>2, BoundItem
        <4>4. Covered(c) BY <1>1, <1>2, <2>2, <4>3 DEF PushRound
        <4>5. s <= cursors[c] /\ s \in Nat /\ cursors[c] \in Nat BY <4>4 DEF Covered, IInv, TypeInv
        <4> QED BY <4>5, SMTT(30)
      <3> QED BY <3>1, <3>2 DEF RoundEnds, IInv, TypeInv
    <2> QED BY <2>1, <2>2
  <1> QED BY <1>3, <1>4, <1>5, <1>6, RoundKeeps

-----------------------------------------------------------------------------
(* The frames. *)

(* A frame that is dropped keeps the invariant. *)
LEMMA MessageKept ==
  ASSUME IInv, UNCHANGED <<db, clock, got, messages, cursors, stored, pushed, missed, ok, round, dirty, moved>>,
         frames # <<>>, frames' = Tail(frames)
  PROVE  IInv'
  <1>1. RoundStays /\ dirty' \in BOOLEAN BY DEF RoundStays, IInv, TypeInv
  <1> QED BY <1>1, ViewStays, RoundKeeps

(* The first frame on the socket is usable. *)
LEMMA HeadFrame ==
  ASSUME IInv, frames # <<>>
  PROVE  Head(frames) \in Frame /\ FrameOk(Head(frames))
  <1>1. frames \in Seq(Frame) /\ \A i \in DOMAIN frames : FrameOk(frames[i]) BY DEF IInv, TypeInv, Frame, GapInv
  <1>2. 1 \in DOMAIN frames /\ Head(frames) = frames[1] BY <1>1, SMTT(30)
  <1>3. Head(frames) \in Frame BY <1>1, HeadTail
  <1> QED BY <1>1, <1>2, <1>3

(* A push that continues what the device has keeps the invariant. *)
LEMMA ApplyKeeps ==
  ASSUME IInv, frames # <<>>, frames' = Tail(frames), NEW c \in Convs, NEW s \in Nat,
         s = cursors[c] + 1, s <= ConvMax(c), HasRow(c) => s <= Top(c), applyPush(c, s),
         UNCHANGED <<db, clock, stored, round, missed, ok, moved>>
  PROVE  IInv'
  <1> USE TablesSame
  <1>1. /\ cursors' = [cursors EXCEPT ![c] = s] /\ messages' = [messages EXCEPT ![c] = @ \cup {s}]
        /\ got' = [got EXCEPT ![c] = @ \cup {s}] /\ pushed' = [pushed EXCEPT ![c] = @ \cup {s}]
        /\ dirty' = (dirty \/ round # {})
    BY DEF applyPush, AnotherRound
  <1>2. /\ cursors \in [Convs -> Nat] /\ stored \in [Convs -> Nat] /\ messages \in [Convs -> SUBSET Nat]
        /\ got \in [Convs -> SUBSET Nat] /\ pushed \in [Convs -> SUBSET Nat] /\ dirty \in BOOLEAN
        /\ DbType(db) /\ frames \in Seq(Frame) /\ \A r \in round : round = {r} /\ RoundType(r)
    BY DEF IInv, TypeInv, Frame
  <1>3. /\ cursors'[c] = s /\ s \in messages'[c] /\ s \in got'[c]
        /\ messages'[c] = messages[c] \cup {s} /\ pushed'[c] = pushed[c] \cup {s}
        /\ \A x \in Convs : /\ got[x] \subseteq got'[x]
                            /\ x # c => cursors'[x] = cursors[x] /\ messages'[x] = messages[x] /\ pushed'[x] = pushed[x]
    BY <1>1, <1>2
  <1>4. TypeInv'
    <2>1. /\ cursors' \in [Convs -> Nat] /\ messages' \in [Convs -> SUBSET Nat] /\ got' \in [Convs -> SUBSET Nat]
          /\ pushed' \in [Convs -> SUBSET Nat] /\ stored' \in [Convs -> Nat]
      BY <1>1, <1>2
    <2>2. dirty' \in BOOLEAN BY <1>1, <1>2
    <2>3. frames' \in Seq(Frame) BY <1>2, HeadTail
    <2>4. \A r \in round' : round' = {r} /\ RoundType(r) BY <1>2
    <2>5. DbType(db') /\ clock' \in Nat /\ clock' < FarFuture OBVIOUS
    <2> QED BY <2>1, <2>2, <2>3, <2>4, <2>5 DEF TypeInv, Frame
  <1>5. \A x \in Convs : \A m : Filled(x, m) => Filled(x, m)' BY <1>3, FilledSame
  <1>6. GapInv'
    <2>1. ASSUME NEW x \in Convs PROVE GapConv(x)'
      <3>1. Filled(x, cursors[x]) /\ Filled(x, stored[x]) /\ messages[x] \subseteq 1 .. ConvMax(x) BY DEF IInv, GapInv, GapConv
      <3>2. Filled(x, stored[x])'
        <4>1. PICK n : n = stored[x] OBVIOUS
        <4>2. Filled(x, n)' BY <1>5, <3>1, <4>1
        <4> QED BY <4>1, <4>2 DEF Filled
      <3>3. CASE x # c
        <4>1. PICK n : n = cursors[x] OBVIOUS
        <4>2. Filled(x, n)' BY <1>5, <3>1, <4>1
        <4>3. Filled(x, cursors[x])' BY <1>3, <3>3, <4>1, <4>2 DEF Filled
        <4>4. messages'[x] \subseteq 1 .. ConvMax(x)' BY <1>3, <3>1, <3>3
        <4> QED BY <3>2, <4>3, <4>4 DEF GapConv
      <3>4. CASE x = c
        <4>1. ConvMax(c) \in Nat /\ cursors[c] \in Nat BY <1>2, RowNumbers
        <4>2. s \in 1 .. ConvMax(c) BY <4>1, SMTT(30)
        <4>3. messages'[x] \subseteq 1 .. ConvMax(x)' BY <1>3, <3>1, <3>4, <4>2
        <4>4. ASSUME NEW y \in 1 .. s, HasRow(c), Row(c).min <= y PROVE y \in got'[c]
          <5>1. CASE y = s BY <1>3, <5>1
          <5>2. CASE y # s
            <6>1. y \in 1 .. cursors[c] BY <4>1, <4>4, <5>2, SMTT(30)
            <6>2. y \in got[c] BY <3>1, <3>4, <4>4, <6>1 DEF Filled
            <6> QED BY <1>3, <6>2
          <5> QED BY <5>1, <5>2
        <4>5. Filled(c, s)' BY <4>4 DEF Filled
        <4>6. Filled(x, cursors[x])' BY <1>3, <3>4, <4>5 DEF Filled
        <4> QED BY <3>2, <4>3, <4>6 DEF GapConv
      <3> QED BY <3>3, <3>4
    <2>2. ASSUME NEW i \in DOMAIN frames' PROVE FrameOk(frames[i])'
      <3>1. PICK j \in DOMAIN frames : frames'[i] = frames[j] BY <1>2, <2>2, TailElement
      <3>2. PICK f : f = frames[j] OBVIOUS
      <3>3. FrameOk(f) BY <3>1, <3>2 DEF IInv, GapInv
      <3>4. FrameOk(f)' BY <3>3
      <3> QED BY <3>1, <3>2, <3>4 DEF FrameOk
    <2>3. ASSUME NEW r \in round PROVE GapRound(r)'
      <3>1. GapRound(r) /\ RoundType(r) BY <1>2 DEF IInv, GapInv
      <3>2. \A k \in DOMAIN r.bounds : BoundOk(r.bounds[k])' BY <3>1 DEF GapRound
      <3>3. \A k \in DOMAIN r.bounds : r.bounds[k].id \in Convs BY <3>1, RoundItems, ItemType
      <3> QED BY <1>5, <3>1, <3>2, <3>3 DEF GapRound
    <2> QED BY <2>1, <2>2, <2>3 DEF GapInv
  <1>7. PushInv'
    <2>1. ASSUME NEW x \in Convs PROVE PushConv(x)'
      <3>1. PushConv(x) BY DEF IInv, PushInv
      <3>2. CASE x # c BY <1>3, <3>1, <3>2 DEF PushConv
      <3>3. CASE x = c BY <1>3, <3>1, <3>3 DEF PushConv
      <3> QED BY <3>2, <3>3
    <2>2. ASSUME NEW r \in round PROVE PushRound(r)'
      <3>1. dirty' BY <1>1
      <3>2. PushRound(r) BY DEF IInv, PushInv
      <3> QED BY <3>1, <3>2 DEF PushRound
    <2>3. PushSurvivesRound'
      <3> SUFFICES ASSUME round = {}, ok, NEW x \in Convs \ missed, NEW y \in pushed'[x] PROVE cursors'[x] >= y
        BY DEF PushSurvivesRound
      <3>1. \A z \in pushed[x] : cursors[x] >= z BY DEF IInv, PushInv, PushSurvivesRound
      <3>2. CASE x # c BY <1>3, <3>1, <3>2
      <3>3. CASE x = c
        <4>1. y = s \/ y \in pushed[c] BY <1>3, <3>3
        <4>2. y = s \/ (y \in Nat /\ cursors[c] >= y) BY <1>2, <3>1, <3>3, <4>1
        <4>3. s >= y
          <5>1. cursors[c] \in Nat BY <1>2
          <5> QED BY <4>2, <5>1, SMTT(30)
        <4> QED BY <1>3, <3>3, <4>3
      <3> QED BY <3>2, <3>3
    <2> QED BY <2>1, <2>2, <2>3 DEF PushInv
  <1>8. WalkInv'
    <2>1. ASSUME NEW r \in round PROVE WalkRound(r)'
      <3>1. WalkRound(r) BY DEF IInv, WalkInv
      <3> QED BY <3>1 DEF WalkRound
    <2>2. WalkComplete' BY DEF IInv, WalkInv, WalkComplete
    <2> QED BY <2>1, <2>2 DEF WalkInv
  <1> QED BY <1>4, <1>6, <1>7, <1>8 DEF IInv

(* Handling a frame keeps the invariant. *)
LEMMA OnMessageKeeps == ASSUME IInv, onmessage PROVE IInv'
  <1>1. PICK f : f = Head(frames) OBVIOUS
  <1>2. frames # <<>> /\ frames' = Tail(frames)
        /\ UNCHANGED <<db, clock, stored, round, missed, ok, moved>>
    BY DEF onmessage, serverVars
  <1>3. f \in Frame /\ FrameOk(f) BY <1>1, <1>2, HeadFrame
  <1>4. f[2] \in Convs /\ f[3] \in Nat BY <1>3, FrameParts
  <1>5. \/ UNCHANGED <<clientVars, dirty>>
        \/ InOrder(f[2], f[3]) /\ applyPush(f[2], f[3])
    BY <1>1 DEF onmessage
  <1>6. CASE UNCHANGED <<clientVars, dirty>>
    <2>1. UNCHANGED <<cursors, messages, got, pushed, dirty>> BY <1>6 DEF clientVars
    <2> QED BY <1>2, <2>1, MessageKept
  <1>7. CASE InOrder(f[2], f[3]) /\ applyPush(f[2], f[3])
    <2>1. f[3] = cursors[f[2]] + 1 BY <1>7 DEF InOrder
    <2>2. f[3] <= ConvMax(f[2]) /\ (HasRow(f[2]) => f[3] <= Top(f[2])) BY <1>3 DEF FrameOk
    <2> QED BY <1>2, <1>4, <1>7, <2>1, <2>2, ApplyKeeps
  <1> QED BY <1>5, <1>6, <1>7

-----------------------------------------------------------------------------
(* The walk of the list. *)

(* A step of the round keeps the invariant if it leaves the round in good    *)
(* order.                                                                    *)
LEMMA RoundGoes ==
  ASSUME IInv, UNCHANGED <<db, clock, frames, stored, pushed, dirty>>,
         got' \in [Convs -> SUBSET Nat], \A c \in Convs : got[c] \subseteq got'[c],
         messages' \in [Convs -> SUBSET Nat], \A c \in Convs : messages'[c] \subseteq 1 .. ConvMax(c),
         cursors' \in [Convs -> Nat], \A c \in Convs : Filled(c, cursors[c])',
         NEW r, round' = {r}, RoundType(r), GapRound(r)', PushRound(r)', WalkRound(r)', WalkComplete'
  PROVE  IInv'
  <1> USE TablesSame
  <1>1. TypeInv'
    <2>1. frames' \in Seq(Frame) /\ stored' \in [Convs -> Nat] /\ pushed' \in [Convs -> SUBSET Nat] /\ dirty' \in BOOLEAN
      BY DEF IInv, TypeInv, Frame
    <2>2. DbType(db') /\ clock' \in Nat /\ clock' < FarFuture OBVIOUS
    <2> QED BY <2>1, <2>2 DEF TypeInv, Frame
  <1>2. GapInv'
    <2>1. ASSUME NEW c \in Convs PROVE GapConv(c)'
      <3>1. PICK n : n = stored[c] OBVIOUS
      <3>2. Filled(c, n) BY <3>1 DEF IInv, GapInv, GapConv
      <3>3. Filled(c, n)' BY <3>2, FilledSame
      <3>4. Filled(c, stored[c])' BY <3>1, <3>3 DEF Filled
      <3>5. messages'[c] \subseteq 1 .. ConvMax(c)' OBVIOUS
      <3> QED BY <3>4, <3>5 DEF GapConv
    <2>2. ASSUME NEW i \in DOMAIN frames' PROVE FrameOk(frames[i])'
      <3>1. PICK f : f = frames[i] OBVIOUS
      <3>2. FrameOk(f) BY <2>2, <3>1 DEF IInv, GapInv
      <3>3. FrameOk(f)' BY <3>2
      <3> QED BY <3>1, <3>3 DEF FrameOk
    <2> QED BY <2>1, <2>2 DEF GapInv
  <1>3. PushInv'
    <2>1. ASSUME NEW c \in Convs PROVE PushConv(c)' BY DEF IInv, PushInv, PushConv
    <2>2. PushSurvivesRound' BY DEF PushSurvivesRound
    <2> QED BY <2>1, <2>2 DEF PushInv
  <1>4. WalkInv' BY DEF WalkInv
  <1> QED BY <1>1, <1>2, <1>3, <1>4 DEF IInv

(* The view and the cursors when only the round moves. *)
LEMMA GoesView ==
  ASSUME IInv, UNCHANGED <<db, clock, got, messages, cursors>>
  PROVE  /\ got' \in [Convs -> SUBSET Nat] /\ \A c \in Convs : got[c] \subseteq got'[c]
         /\ messages' \in [Convs -> SUBSET Nat] /\ \A c \in Convs : messages'[c] \subseteq 1 .. ConvMax(c)
         /\ cursors' \in [Convs -> Nat] /\ \A c \in Convs : Filled(c, cursors[c])'
  <1>1. got \in [Convs -> SUBSET Nat] /\ messages \in [Convs -> SUBSET Nat] /\ cursors \in [Convs -> Nat]
    BY DEF IInv, TypeInv
  <1>2. \A c \in Convs : Filled(c, cursors[c]) /\ messages[c] \subseteq 1 .. ConvMax(c) BY DEF IInv, GapInv, GapConv
  <1>3. \A c \in Convs : Filled(c, cursors[c])' BY <1>2 DEF Filled, HasRow, Row, ConvMax
  <1> QED BY <1>1, <1>2, <1>3

\* A cursor, and the round after a page of the list.
IsCursor(at) == \A x \in at : x \in Nat \X Convs /\ at = {x}

Listing(r, seen, at, phase) == [r EXCEPT !.list = seen, !.at = at, !.phase = phase]

HasListed(n, r, seen, at, phase) ==
    RoundType(n) /\ n.list = seen /\ n.at = at /\ n.phase = phase /\ n.bounds = r.bounds

(* The fields of the round after a page of the list. *)
LEMMA ListRound ==
  ASSUME NEW r, RoundType(r), NEW seen, NEW at, NEW phase \in Phases, IsCursor(at)
  PROVE  HasListed(Listing(r, seen, at, phase), r, seen, at, phase)
  <1>1. PICK a : a = [r EXCEPT !.list = seen] OBVIOUS
  <1>2. PICK b : b = [a EXCEPT !.at = at] OBVIOUS
  <1>3. PICK n : n = [b EXCEPT !.phase = phase] OBVIOUS
  <1>4. /\ a.list = seen /\ a.phase = r.phase /\ a.at = r.at /\ a.bounds = r.bounds /\ a.range = r.range /\ a.local = r.local
        /\ a.answer = r.answer
        /\ a = [phase |-> a.phase, at |-> a.at, list |-> a.list, bounds |-> a.bounds, range |-> a.range, local |-> a.local,
                answer |-> a.answer]
    BY <1>1, SMTT(30) DEF RoundType
  <1>5. /\ b.list = seen /\ b.phase = r.phase /\ b.at = at /\ b.bounds = r.bounds /\ b.range = r.range /\ b.local = r.local
        /\ b.answer = r.answer
        /\ b = [phase |-> b.phase, at |-> b.at, list |-> b.list, bounds |-> b.bounds, range |-> b.range, local |-> b.local,
                answer |-> b.answer]
    BY <1>2, <1>4, SMTT(30)
  <1>6. /\ n.list = seen /\ n.phase = phase /\ n.at = at /\ n.bounds = r.bounds /\ n.range = r.range /\ n.local = r.local
        /\ n.answer = r.answer
        /\ n = [phase |-> n.phase, at |-> n.at, list |-> n.list, bounds |-> n.bounds, range |-> n.range, local |-> n.local,
                answer |-> n.answer]
    BY <1>3, <1>5, SMTT(30)
  <1>7. RoundType(n) BY <1>6 DEF RoundType, IsCursor
  <1>8. n = Listing(r, seen, at, phase) BY <1>1, <1>2, <1>3 DEF Listing
  <1> QED BY <1>6, <1>7, <1>8 DEF HasListed

(* A page of the list keeps the invariant. *)
LEMMA ListConversationsKeeps == ASSUME IInv, Answers, ListConversations PROVE IInv'
  <1>1. PICK r \in round :
        /\ r.phase = "list"
        /\ LET answer == List(db, me, r.at, ListLimit, PageMax)
               items == {answer.items[i].item : i \in DOMAIN answer.items}
               seen == With(r.list, [c \in {x.id : x \in items} |-> CHOOSE x \in items : x.id = c])
           IN  Goes([r EXCEPT !.list = seen, !.at = answer.next,
                              !.phase = IF answer.next = {} THEN "bounds" ELSE "list"])
        /\ UNCHANGED <<serverVars, up, frames, clientVars, stored, timerVars, page, ok, missed, moved, disturbances>>
    BY DEF ListConversations
  <1>2. UNCHANGED <<db, clock, frames, stored, pushed, dirty, got, messages, cursors, moved, missed>>
    BY <1>1 DEF serverVars, clientVars, timerVars
  <1> DEFINE p == ListPage(db, me, r.at, ListLimit, PageMax)
             answer == List(db, me, r.at, ListLimit, PageMax)
             items == {answer.items[i].item : i \in DOMAIN answer.items}
             seen == With(r.list, [c \in {x.id : x \in items} |-> CHOOSE x \in items : x.id = c])
             at == answer.next
             phase == IF at = {} THEN "bounds" ELSE "list"
  <1>3. IsPage(p, DecodeCursor(r.at)) BY WebSyncAssumption DEF Answers
  <1>4. answer.next = p.next /\ DOMAIN answer.items = DOMAIN p.rows
        /\ \A i \in DOMAIN p.rows : answer.items[i].item = itemFromRow(p.rows[i])
    <2> HIDE DEF p
    <2> DEFINE item(i) == itemFromRow(p.rows[i])
               msgs == {m[1] : m \in GetMessages(db, Ascending(UNION {lastMessageKey(item(i)) : i \in DOMAIN p.rows})).val}
               it == [i \in DOMAIN p.rows |-> [item |-> item(i), last |-> {k[2] : k \in lastMessageKey(item(i)) \cap msgs}]]
    <2>1. answer = [items |-> it, next |-> p.next] BY DEF List, p
    <2>2. \A i \in DOMAIN p.rows : it[i].item = item(i)
      <3> HIDE DEF item, msgs
      <3> QED OBVIOUS
    <2>3. DOMAIN it = DOMAIN p.rows OBVIOUS
    <2> HIDE DEF it
    <2>4. answer.items = it /\ answer.next = p.next BY <2>1, SMTT(30)
    <2> HIDE DEF answer
    <2> QED BY <2>2, <2>3, <2>4
  <1>5. \A i \in DOMAIN p.rows : itemFromRow(p.rows[i]).id = p.rows[i].id
    <2> HIDE DEF p
    <2> QED BY SMTT(30) DEF itemFromRow
  <1> HIDE DEF p, answer
  <1>6. DOMAIN seen = DOMAIN r.list \cup {x.id : x \in items} BY DEF With
  <1>7. \A i \in DOMAIN p.rows : p.rows[i].id \in DOMAIN seen
    <2> SUFFICES ASSUME NEW i \in DOMAIN p.rows PROVE p.rows[i].id \in {x.id : x \in items}
      <3> HIDE DEF seen, items
      <3> QED BY <1>6
    <2>1. answer.items[i].item \in items BY <1>4
    <2> HIDE DEF items
    <2> QED BY <1>4, <1>5, <2>1
  <1>8. RoundType(r) /\ WalkRound(r) BY DEF IInv, TypeInv, WalkInv
  <1>9. phase \in Phases BY DEF Phases
  <1> HIDE DEF seen, phase, at
  <1>10. PICK n : n = Listing(r, seen, at, phase) OBVIOUS
  <1>11. RoundType(n) /\ n.list = seen /\ n.at = p.next /\ n.phase = phase /\ n.bounds = r.bounds
    <2>1. at = p.next BY <1>4 DEF at
    <2>2. IsCursor(at) BY <1>3, <2>1 DEF IsPage, IsCursor
    <2>3. HasListed(Listing(r, seen, at, phase), r, seen, at, phase)
      BY <1>8, <1>9, <2>2, ListRound
    <2> QED BY <1>10, <2>1, <2>3 DEF HasListed
  <1>21. round' = {n} BY <1>1, <1>10 DEF Listing, Goes, answer, seen, items, phase, at
  <1> USE TablesSame
  <1>12. phase = IF p.next = {} THEN "bounds" ELSE "list" BY <1>4 DEF phase, at
  <1>13. DOMAIN r.list \subseteq DOMAIN seen BY <1>6
  <1> HIDE DEF items
  <1>14. n.bounds = <<>> /\ DOMAIN n.bounds = {}
    <2>1. r.bounds = <<>> BY <1>1, <1>8 DEF WalkRound
    <2> QED BY <1>11, <2>1, SMTT(30)
  <1>15. n.phase \in {"list", "bounds"} BY <1>11, <1>12
  <1>16. GapRound(n)' BY <1>14, <1>15 DEF GapRound
  <1>17. PushRound(n)' BY <1>14, <1>15 DEF PushRound, PushBounds
  <1>18. ASSUME NEW c \in Convs, HasRow(c), c \notin moved
         PROVE  \/ c \in DOMAIN n.list
                \/ p.next # {} /\ Precedes(Place(c), DecodeCursor(p.next))
    <2>1. c \in DOMAIN r.list \/ Precedes(Place(c), DecodeCursor(r.at)) BY <1>1, <1>8, <1>18 DEF WalkRound
    <2>2. CASE c \in DOMAIN r.list BY <1>11, <1>13, <2>2
    <2>3. CASE Precedes(Place(c), DecodeCursor(r.at))
      <3>1. CASE \E i \in DOMAIN p.rows : p.rows[i].id = c BY <1>7, <1>11, <3>1
      <3>2. CASE ~\E i \in DOMAIN p.rows : p.rows[i].id = c BY <1>3, <1>18, <2>3, <3>2 DEF IsPage
      <3> QED BY <3>1, <3>2
    <2> QED BY <2>1, <2>2, <2>3
  <1>19. WalkComplete' BY <1>2, <1>11, <1>21, <1>12, <1>15, <1>18 DEF WalkComplete
  <1>20. WalkRound(n)'
    <2>1. \A x \in n.at : x[1] * PerMs <= NowMs(clock') BY <1>2, <1>3, <1>11 DEF IsPage
    <2>2. Distinct(n.bounds) BY <1>14 DEF Distinct
    <2>3. n.phase = "bounds" => n.at = {} BY <1>11, <1>12
    <2>4. ASSUME NEW c \in Convs, HasRow(c), c \notin moved
          PROVE  /\ n.phase = "list" => c \in DOMAIN n.list \/ Precedes(Place(c), DecodeCursor(n.at))
                 /\ n.phase = "bounds" => Precedes(Place(c), DecodeCursor(n.at))
      <3>1. n.phase = "bounds" => Precedes(Place(c), DecodeCursor({})) BY <2>4, FreshPage DEF IInv, TypeInv
      <3> QED BY <1>11, <1>12, <1>18, <2>3, <2>4, <3>1
    <2>5. \A c \in Convs : HasRow(c)' /\ c \notin moved' =>
             /\ n.phase = "list" => c \in DOMAIN n.list \/ Precedes(Place(c)', DecodeCursor(n.at))
             /\ n.phase = "bounds" => Precedes(Place(c)', DecodeCursor(n.at))
      BY <1>2, <2>4
    <2> QED BY <1>14, <2>1, <2>2, <2>3, <2>5 DEF WalkRound
  <1> QED BY <1>2, <1>11, <1>21, <1>16, <1>17, <1>19, <1>20, GoesView, RoundGoes

Joins(all, s, t) ==
    /\ \A k \in DOMAIN all : \/ k \in DOMAIN s /\ all[k] = s[k]
                             \/ k - Len(s) \in DOMAIN t /\ all[k] = t[k - Len(s)] /\ k \notin DOMAIN s
    /\ \A k \in DOMAIN s : k \in DOMAIN all /\ all[k] = s[k]
    /\ \A k \in DOMAIN t : k + Len(s) \in DOMAIN all /\ all[k + Len(s)] = t[k]

-----------------------------------------------------------------------------
(* The walk of the baseline. *)

(* The elements of a concatenation. *)
LEMMA ConcatElements ==
  ASSUME NEW T, NEW s \in Seq(T), NEW t \in Seq(T)
  PROVE  s \o t \in Seq(T) /\ Joins(s \o t, s, t)
  BY SMTT(60) DEF Joins

(* Two lists of different conversations concatenate to one. *)
LEMMA ConcatDistinct ==
  ASSUME NEW s \in Seq(Item), NEW t \in Seq(Item), Distinct(s), Distinct(t),
         \A i \in DOMAIN s : \A j \in DOMAIN t : s[i].id # t[j].id
  PROVE  Distinct(s \o t)
  <1> DEFINE b == s \o t
  <1> SUFFICES ASSUME NEW i \in DOMAIN b, NEW j \in DOMAIN b, b[i].id = b[j].id PROVE i = j BY DEF Distinct
  <1>1. /\ (i \in DOMAIN s /\ b[i] = s[i]) \/ (i - Len(s) \in DOMAIN t /\ b[i] = t[i - Len(s)] /\ i \notin DOMAIN s)
        /\ (j \in DOMAIN s /\ b[j] = s[j]) \/ (j - Len(s) \in DOMAIN t /\ b[j] = t[j - Len(s)] /\ j \notin DOMAIN s)
    <2>1. Joins(b, s, t) BY ConcatElements
    <2> HIDE DEF b
    <2> QED BY <2>1 DEF Joins
  <1>2. i \in Nat /\ j \in Nat /\ Len(s) \in Nat
    <2>1. b \in Seq(Item) BY ConcatElements
    <2> HIDE DEF b
    <2> QED BY <2>1, SMTT(30)
  <1> HIDE DEF b
  <1>3. CASE i \in DOMAIN s /\ j \in DOMAIN s BY <1>1, <1>3 DEF Distinct
  <1>4. CASE i \notin DOMAIN s /\ j \notin DOMAIN s
    <2>1. i - Len(s) = j - Len(s) BY <1>1, <1>4 DEF Distinct
    <2> QED BY <1>2, <2>1, SMTT(30)
  <1> QED BY <1>1, <1>3, <1>4

\* The round after one more page of the baseline.
Bounding(r, more, at, phase) == [r EXCEPT !.bounds = @ \o more, !.at = at, !.phase = phase]

HasBounded(n, r, more, at, phase) ==
    RoundType(n) /\ n.list = r.list /\ n.at = at /\ n.phase = phase /\ n.bounds = r.bounds \o more

(* The fields of the round after a page of the baseline. *)
LEMMA BoundRound ==
  ASSUME NEW r, RoundType(r), NEW more \in Seq(Item), NEW at, NEW phase \in Phases, IsCursor(at)
  PROVE  HasBounded(Bounding(r, more, at, phase), r, more, at, phase)
  <1>1. PICK all : all = r.bounds \o more OBVIOUS
  <1>2. PICK a : a = [r EXCEPT !.bounds = all] OBVIOUS
  <1>3. PICK b : b = [a EXCEPT !.at = at] OBVIOUS
  <1>4. PICK n : n = [b EXCEPT !.phase = phase] OBVIOUS
  <1>5. /\ a.list = r.list /\ a.phase = r.phase /\ a.at = r.at /\ a.bounds = all /\ a.range = r.range /\ a.local = r.local
        /\ a.answer = r.answer
        /\ a = [phase |-> a.phase, at |-> a.at, list |-> a.list, bounds |-> a.bounds, range |-> a.range, local |-> a.local,
                answer |-> a.answer]
    BY <1>2, SMTT(30) DEF RoundType
  <1>6. /\ b.list = r.list /\ b.phase = r.phase /\ b.at = at /\ b.bounds = all /\ b.range = r.range /\ b.local = r.local
        /\ b.answer = r.answer
        /\ b = [phase |-> b.phase, at |-> b.at, list |-> b.list, bounds |-> b.bounds, range |-> b.range, local |-> b.local,
                answer |-> b.answer]
    BY <1>3, <1>5, SMTT(30)
  <1>7. /\ n.list = r.list /\ n.phase = phase /\ n.at = at /\ n.bounds = all /\ n.range = r.range /\ n.local = r.local
        /\ n.answer = r.answer
        /\ n = [phase |-> n.phase, at |-> n.at, list |-> n.list, bounds |-> n.bounds, range |-> n.range, local |-> n.local,
                answer |-> n.answer]
    BY <1>4, <1>6, SMTT(30)
  <1>8. all \in Seq(Item) BY <1>1, ConcatElements DEF RoundType
  <1>9. RoundType(n) BY <1>7, <1>8 DEF RoundType, IsCursor
  <1>10. n = Bounding(r, more, at, phase) BY <1>1, <1>2, <1>3, <1>4 DEF Bounding
  <1> QED BY <1>1, <1>7, <1>9, <1>10 DEF HasBounded

\* The items of a page of the baseline.
IsItems(items, p) ==
    /\ items \in Seq(Item) /\ DOMAIN items = DOMAIN p.rows
    /\ \A i \in DOMAIN items : LET c == p.rows[i].id
                               IN  c \in Convs /\ HasRow(c) /\ items[i].id = c /\ items[i].min = Row(c).min /\ items[i].max = Top(c)

(* The items of a page of the baseline are its rows. *)
LEMMA PageItems ==
  ASSUME IInv, NEW p, NEW cur, IsPage(p, cur)
  PROVE  IsItems([i \in DOMAIN p.rows |-> MaxSeqItem(p.rows[i])], p)
  <1> DEFINE items == [i \in DOMAIN p.rows |-> MaxSeqItem(p.rows[i])]
  <1>1. ASSUME NEW i \in DOMAIN p.rows
        PROVE  LET c == p.rows[i].id
               IN  /\ c \in Convs /\ HasRow(c) /\ items[i] \in Item
                   /\ items[i].id = c /\ items[i].min = Row(c).min /\ items[i].max = Top(c)
    <2>1. PICK w : w = p.rows[i] OBVIOUS
    <2>2. w.id \in Convs /\ HasRow(w.id) /\ w.uc = Row(w.id) /\ w.convMax = ConvMax(w.id) BY <2>1 DEF IsPage
    <2>3. PICK it : it = MaxSeqItem(w) OBVIOUS
    <2>4. DbType(db) BY DEF IInv, TypeInv
    <2>5. PICK c \in Convs : c = w.id BY <2>2
    <2>7. PICK top : top = Top(c) OBVIOUS
    <2>8. top \in Nat /\ Row(c).min \in Nat /\ Row(c) \in UcRow BY <2>2, <2>4, <2>5, <2>7, RowNumbers
    <2>6. Row(c).read \in Nat
      <3>1. PICK row \in UcRow : row = Row(c) BY <2>8
      <3>2. row.read \in Nat BY SMTT(30) DEF UcRow
      <3> QED BY <3>1, <3>2
    <2>9. it = [id |-> c, min |-> Row(c).min, max |-> top, read |-> Row(c).read]
      BY <2>2, <2>3, <2>5, <2>7 DEF MaxSeqItem, Top
    <2>10. it \in Item /\ it.id = c /\ it.min = Row(c).min /\ it.max = top BY <2>6, <2>8, <2>9, SMTT(30) DEF Item
    <2>11. items[i] = it BY <2>1, <2>3
    <2> QED BY <2>1, <2>2, <2>5, <2>7, <2>10, <2>11
  <1>2. \E m \in Nat : DOMAIN p.rows = 1 .. m
    <2>1. p.rows \in Seq({ListedRow(c) : c \in Convs}) BY DEF IsPage
    <2>2. Len(p.rows) \in Nat /\ DOMAIN p.rows = 1 .. Len(p.rows) BY <2>1, SeqElements
    <2> QED BY <2>2
  <1>3. items \in Seq(Item)
    <2>1. PICK m \in Nat : DOMAIN p.rows = 1 .. m BY <1>2
    <2>2. items \in [1 .. m -> Item] BY <1>1, <2>1
    <2> HIDE DEF items
    <2> QED BY <2>2, SMTT(30)
  <1>4. DOMAIN items = DOMAIN p.rows OBVIOUS
  <1> HIDE DEF items
  <1>5. IsItems(items, p) BY <1>1, <1>3, <1>4 DEF IsItems
  <1> QED BY <1>5 DEF items

(* A page of the baseline keeps the invariant: it holds conversations the    *)
(* earlier pages do not, and their visible maximum reaches every push so     *)
(* far.                                                                      *)
LEMMA ListBoundsKeeps == ASSUME IInv, Answers, ListBounds PROVE IInv'
  <1>1. PICK r \in round :
        /\ r.phase = "bounds"
        /\ LET answer == MaxSeqs(db, me, r.at, BoundsLimit, PageMax)
           IN  Goes([r EXCEPT !.bounds = @ \o answer.items, !.at = answer.next,
                              !.phase = IF answer.next = {} THEN "apply" ELSE "bounds"])
        /\ moved' = IF r.bounds = <<>> THEN {} ELSE moved
        /\ UNCHANGED <<serverVars, up, frames, clientVars, stored, timerVars, page, ok, missed, disturbances>>
    BY DEF ListBounds
  <1>2. UNCHANGED <<db, clock, frames, stored, pushed, dirty, got, messages, cursors, missed>>
    BY <1>1 DEF serverVars, clientVars, timerVars
  <1> DEFINE cur == DecodeCursor(r.at)
  <1>3. PICK p : p = ListPage(db, me, r.at, BoundsLimit, PageMax) OBVIOUS
  <1>4. PICK items : items = [i \in DOMAIN p.rows |-> MaxSeqItem(p.rows[i])] OBVIOUS
  <1>5. PICK at : at = p.next OBVIOUS
  <1>6. PICK phase : phase = IF at = {} THEN "apply" ELSE "bounds" OBVIOUS
  <1>7. PICK n : n = Bounding(r, items, at, phase) OBVIOUS
  <1>8. round' = {n}
    <2>1. MaxSeqs(db, me, r.at, BoundsLimit, PageMax) = [items |-> items, next |-> at]
      BY <1>3, <1>4, <1>5 DEF MaxSeqs
    <2>2. PICK answer : answer = [items |-> items, next |-> at] OBVIOUS
    <2>3. answer.items = items /\ answer.next = at BY <2>2, SMTT(30)
    <2> QED BY <1>1, <1>6, <1>7, <2>1, <2>2, <2>3 DEF Goes, Bounding
  <1>9. IsPage(p, cur)
    <2> HIDE DEF cur
    <2>1. IsPage(ListPage(db, me, r.at, BoundsLimit, PageMax), cur) BY WebSyncAssumption DEF Answers, cur
    <2> QED BY <1>3, <2>1
  <1> HIDE DEF cur
  <1>10. IsItems(items, p) BY <1>4, <1>9, PageItems
  <1>11. /\ RoundType(r) /\ WalkRound(r) /\ GapRound(r) /\ PushRound(r) /\ round = {r}
         /\ DbType(db) /\ clock \in Nat /\ clock < FarFuture /\ TimeInv /\ TableInv
    BY DEF IInv, TypeInv, WalkInv, GapInv, PushInv
  <1>12. items \in Seq(Item) /\ r.bounds \in Seq(Item) BY <1>10, <1>11 DEF IsItems, RoundType
  <1>13. RoundType(n) /\ n.at = at /\ n.phase = phase /\ n.bounds = r.bounds \o items
    <2>1. IsCursor(at) BY <1>5, <1>9 DEF IsPage, IsCursor
    <2>2. phase \in Phases BY <1>6 DEF Phases
    <2>3. HasBounded(Bounding(r, items, at, phase), r, items, at, phase) BY <1>11, <1>12, <2>1, <2>2, BoundRound
    <2> QED BY <1>7, <2>3 DEF HasBounded
  <1>14. /\ \A k \in DOMAIN n.bounds : \/ k \in DOMAIN r.bounds /\ n.bounds[k] = r.bounds[k]
                                       \/ \E j \in DOMAIN items : n.bounds[k] = items[j]
         /\ \A k \in DOMAIN r.bounds : k \in DOMAIN n.bounds /\ n.bounds[k] = r.bounds[k]
         /\ \A j \in DOMAIN items : \E k \in DOMAIN n.bounds : n.bounds[k] = items[j]
    <2>1. PICK b \in Seq(Item) : b = r.bounds BY <1>12
    <2>2. PICK all : all = b \o items OBVIOUS
    <2>3. Joins(all, b, items) BY <1>12, <2>2, ConcatElements
    <2>4. n.bounds = all BY <1>13, <2>1, <2>2
    <2> QED BY <2>1, <2>3, <2>4 DEF Joins
  <1>15. \A j \in DOMAIN items : LET c == items[j].id
            IN  /\ c \in Convs /\ HasRow(c) /\ items[j].min = Row(c).min /\ items[j].max = Top(c)
                /\ Precedes(Place(c), cur) /\ c = p.rows[j].id
    BY <1>9, <1>10 DEF IsItems, IsPage
  <1>16. n.phase \in {"apply", "bounds"} /\ (n.phase = "apply" <=> at = {}) BY <1>6, <1>13
  <1> USE TablesSame
  <1>17. GapRound(n)'
    <2>1. ASSUME NEW k \in DOMAIN n.bounds PROVE BoundOk(n.bounds[k])'
      <3>1. PICK b : b = n.bounds[k] OBVIOUS
      <3>2. CASE k \in DOMAIN r.bounds /\ n.bounds[k] = r.bounds[k]
        <4>1. BoundOk(b) BY <1>11, <3>1, <3>2 DEF GapRound
        <4>2. BoundOk(b)' BY <1>2, <4>1
        <4> QED BY <3>1, <4>2
      <3>3. CASE \E j \in DOMAIN items : n.bounds[k] = items[j]
        <4>1. PICK j \in DOMAIN items : b = items[j] BY <3>1, <3>3
        <4>2. PICK c \in Convs : c = b.id /\ HasRow(c) /\ b.min = Row(c).min /\ b.max = Top(c) BY <1>15, <4>1
        <4>3. Row(c).min \in Nat /\ Row(c).max \in Nat /\ ConvMax(c) \in Nat BY <1>11, <4>2, RowNumbers
        <4>4. Row(c).min <= ConvMax(c) + 1 /\ Row(c).min <= Row(c).min
          <5>1. Row(c).min <= ConvMax(c) + 1 BY <1>11, <4>2 DEF TableInv
          <5> QED BY <4>3, <5>1, SMTT(30)
        <4>5. Top(c) <= ConvMax(c) BY <4>3, SMTT(30) DEF Top, VisibleMax
        <4>6. BoundOk(b) BY <4>2, <4>4, <4>5 DEF BoundOk
        <4>7. BoundOk(b)' BY <1>2, <4>6
        <4> QED BY <3>1, <4>7
      <3> QED BY <1>14, <3>2, <3>3
    <2> QED BY <1>16, <2>1 DEF GapRound
  <1>18. PushRound(n)'
    <2>1. ASSUME ~dirty, NEW k \in DOMAIN n.bounds, NEW s \in pushed[n.bounds[k].id] PROVE s <= n.bounds[k].max
      <3>1. CASE k \in DOMAIN r.bounds /\ n.bounds[k] = r.bounds[k] BY <1>11, <2>1, <3>1 DEF PushRound, PushBounds
      <3>2. CASE \E j \in DOMAIN items : n.bounds[k] = items[j]
        <4>1. PICK j \in DOMAIN items : n.bounds[k] = items[j] BY <3>2
        <4>2. PICK c \in Convs : c = items[j].id /\ HasRow(c) /\ items[j].max = Top(c) BY <1>15
        <4>3. s <= Top(c) BY <2>1, <4>1, <4>2 DEF IInv, PushInv, PushConv
        <4> QED BY <4>1, <4>2, <4>3
      <3> QED BY <1>14, <3>1, <3>2
    <2>2. ~dirty => PushBounds(n)' BY <1>2, <2>1 DEF PushBounds
    <2> QED BY <1>2, <1>16, <2>2 DEF PushRound
  <1>19. Distinct(n.bounds)
    <2>1. Distinct(r.bounds) BY <1>11 DEF WalkRound
    <2>2. Distinct(items) BY <1>9, <1>10 DEF Distinct, IsItems, IsPage
    <2>3. \A i \in DOMAIN r.bounds : \A j \in DOMAIN items : r.bounds[i].id # items[j].id
      BY <1>1, <1>11, <1>15 DEF WalkRound, cur
    <2> QED BY <1>12, <1>13, <2>1, <2>2, <2>3, ConcatDistinct
  <1>20. \A c \in Convs : (\E k \in DOMAIN n.bounds : n.bounds[k].id = c) => Bound(n, c) # {} BY DEF Bound, Elements
  <1>21. ASSUME NEW c \in Convs, HasRow(c), c \notin moved'
         PROVE  Bound(n, c) # {} \/ (at # {} /\ Precedes(Place(c), DecodeCursor(at)))
    <2>1. Bound(r, c) # {} \/ Precedes(Place(c), cur)
      <3>1. CASE r.bounds = <<>>
        <4>1. r.at = {} BY <1>1, <1>11, <3>1 DEF WalkRound
        <4>2. Precedes(Place(c), DecodeCursor({})) BY <1>11, <1>21, FreshPage
        <4> QED BY <4>1, <4>2 DEF cur
      <3>2. CASE r.bounds # <<>>
        <4>1. c \notin moved BY <1>1, <1>21, <3>2
        <4> QED BY <1>1, <1>11, <1>21, <4>1 DEF WalkRound, cur
      <3> QED BY <3>1, <3>2
    <2>2. CASE Bound(r, c) # {}
      <3>1. PICK b \in Bound(r, c) : TRUE BY <2>2
      <3>2. PICK k \in DOMAIN r.bounds : r.bounds[k] = b /\ b.id = c BY <1>11, <3>1, BoundItem
      <3>3. k \in DOMAIN n.bounds /\ n.bounds[k].id = c BY <1>14, <3>2
      <3> QED BY <1>20, <3>3
    <2>3. CASE Precedes(Place(c), cur)
      <3>1. CASE \E i \in DOMAIN p.rows : p.rows[i].id = c
        <4>1. PICK j \in DOMAIN items : items[j].id = c BY <1>10, <3>1 DEF IsItems
        <4>2. PICK k \in DOMAIN n.bounds : n.bounds[k] = items[j] BY <1>14
        <4> QED BY <1>20, <4>1, <4>2
      <3>2. CASE ~\E i \in DOMAIN p.rows : p.rows[i].id = c BY <1>5, <1>9, <1>21, <2>3, <3>2 DEF IsPage
      <3> QED BY <3>1, <3>2
    <2> QED BY <2>1, <2>2, <2>3
  <1>22. at # {} => n.bounds # <<>>
    <2> SUFFICES ASSUME at # {} PROVE DOMAIN n.bounds # {} BY SMTT(30)
    <2>1. p.rows # <<>> /\ p.rows \in Seq({ListedRow(c) : c \in Convs}) BY <1>5, <1>9 DEF IsPage
    <2>2. 1 \in DOMAIN p.rows
      <3>1. PICK rows : rows = p.rows OBVIOUS
      <3>2. PICK T : rows \in Seq(T) BY <2>1, <3>1
      <3>3. rows # <<>> BY <2>1, <3>1
      <3>4. 1 \in DOMAIN rows BY <3>2, <3>3, SMTT(30)
      <3> QED BY <3>1, <3>4
    <2>3. 1 \in DOMAIN items BY <1>10, <2>2 DEF IsItems
    <2> QED BY <1>14, <2>3
  <1>23. WalkComplete'
    <2>1. \A c \in Convs : HasRow(c) /\ n.phase = "apply" => Bound(n, c) # {} \/ c \in moved' BY <1>16, <1>21
    <2>2. n.phase = "bounds" => n.bounds # <<>> BY <1>16, <1>22
    <2> QED BY <1>2, <1>8, <2>1, <2>2 DEF WalkComplete
  <1>24. WalkRound(n)'
    <2>1. \A x \in n.at : x[1] * PerMs <= NowMs(clock') BY <1>2, <1>5, <1>9, <1>13 DEF IsPage
    <2>2. n.phase = "bounds" => n.bounds # <<>> /\ n.at # {} BY <1>13, <1>16, <1>22
    <2>3. ASSUME n.phase = "bounds", NEW k \in DOMAIN n.bounds PROVE ~Precedes(Place(n.bounds[k].id), DecodeCursor(n.at))
      <3>1. at # {} /\ n.at = at BY <1>13, <1>16, <2>3
      <3>2. CASE k \in DOMAIN r.bounds /\ n.bounds[k] = r.bounds[k]
        <4>1. PICK c \in Convs : c = r.bounds[k].id BY <1>11, <3>2, RoundItems, ItemType
        <4>2. ~Precedes(Place(c), cur) BY <1>1, <1>11, <3>2, <4>1 DEF WalkRound, cur
        <4>3. ~Precedes(Place(c), DecodeCursor(at)) BY <1>5, <1>9, <3>1, <4>2 DEF IsPage
        <4> QED BY <3>1, <3>2, <4>1, <4>3
      <3>3. CASE \E j \in DOMAIN items : n.bounds[k] = items[j]
        <4>1. PICK j \in DOMAIN items : n.bounds[k] = items[j] BY <3>3
        <4>2. j \in DOMAIN p.rows /\ items[j].id = p.rows[j].id BY <1>10, <1>15 DEF IsItems
        <4>3. ~Precedes(Place(p.rows[j].id), DecodeCursor(at)) BY <1>5, <1>9, <3>1, <4>2 DEF IsPage
        <4> QED BY <3>1, <4>1, <4>2, <4>3
      <3> QED BY <1>14, <2>3, <3>2, <3>3
    <2>4. n.phase = "bounds" => \A k \in DOMAIN n.bounds : ~Precedes(Place(n.bounds[k].id)', DecodeCursor(n.at))
      BY <1>2, <2>3
    <2>5. \A c \in Convs : HasRow(c)' /\ c \notin moved' =>
              (n.phase = "bounds" => Bound(n, c) # {} \/ Precedes(Place(c)', DecodeCursor(n.at)))
      BY <1>2, <1>13, <1>16, <1>21
    <2>6. n.phase # "list" BY <1>16
    <2> QED BY <1>19, <2>1, <2>2, <2>4, <2>5, <2>6 DEF WalkRound
  <1> QED BY <1>2, <1>8, <1>13, <1>17, <1>18, <1>23, <1>24, GoesView, RoundGoes

-----------------------------------------------------------------------------
(* The rounds between two requests. *)

\* The round at its next range, with an answer on its way, and with the next page to ask for.
Proceeding(r, phase, range, local) ==
    [r EXCEPT !.phase = phase, !.list = <<>>, !.range = range, !.local = local, !.answer = <<>>]

HasProceeded(n, r, phase, range, local) ==
    RoundType(n) /\ n.at = r.at /\ n.bounds = r.bounds /\ n.phase = phase /\ n.range = range /\ n.local = local

Answering(r, answer) == [r EXCEPT !.phase = "pull", !.answer = answer]

HasAnswered(n, r, answer) ==
    RoundType(n) /\ n.at = r.at /\ n.bounds = r.bounds /\ n.phase = "pull" /\ n.range = r.range /\ n.local = r.local
    /\ n.answer = answer

Paging(r, local) == [r EXCEPT !.phase = "ask", !.local = local, !.answer = <<>>]

HasPaged(n, r, local) ==
    RoundType(n) /\ n.at = r.at /\ n.bounds = r.bounds /\ n.phase = "ask" /\ n.range = r.range /\ n.local = local

(* The fields of the round at its next range. *)
LEMMA ProceedRound ==
  ASSUME NEW r, RoundType(r), NEW phase \in Phases, NEW range \in Nat, NEW local \in Nat
  PROVE  HasProceeded(Proceeding(r, phase, range, local), r, phase, range, local)
  <1>1. PICK a : a = [r EXCEPT !.phase = phase] OBVIOUS
  <1>2. PICK b : b = [a EXCEPT !.list = <<>>] OBVIOUS
  <1>3. PICK c : c = [b EXCEPT !.range = range] OBVIOUS
  <1>4. PICK d : d = [c EXCEPT !.local = local] OBVIOUS
  <1>5. PICK e : e = [d EXCEPT !.answer = <<>>] OBVIOUS
  <1>6. /\ a.phase = phase /\ a.at = r.at /\ a.list = r.list /\ a.bounds = r.bounds
        /\ a.range = r.range /\ a.local = r.local /\ a.answer = r.answer
        /\ a = [phase |-> a.phase, at |-> a.at, list |-> a.list, bounds |-> a.bounds,
              range |-> a.range, local |-> a.local, answer |-> a.answer]
    BY <1>1, SMTT(30) DEF RoundType
  <1>7. /\ b.phase = phase /\ b.at = r.at /\ b.list = <<>> /\ b.bounds = r.bounds
        /\ b.range = r.range /\ b.local = r.local /\ b.answer = r.answer
        /\ b = [phase |-> b.phase, at |-> b.at, list |-> b.list, bounds |-> b.bounds,
              range |-> b.range, local |-> b.local, answer |-> b.answer]
    BY <1>2, <1>6, SMTT(30)
  <1>8. /\ c.phase = phase /\ c.at = r.at /\ c.list = <<>> /\ c.bounds = r.bounds
        /\ c.range = range /\ c.local = r.local /\ c.answer = r.answer
        /\ c = [phase |-> c.phase, at |-> c.at, list |-> c.list, bounds |-> c.bounds,
              range |-> c.range, local |-> c.local, answer |-> c.answer]
    BY <1>3, <1>7, SMTT(30)
  <1>9. /\ d.phase = phase /\ d.at = r.at /\ d.list = <<>> /\ d.bounds = r.bounds
        /\ d.range = range /\ d.local = local /\ d.answer = r.answer
        /\ d = [phase |-> d.phase, at |-> d.at, list |-> d.list, bounds |-> d.bounds,
              range |-> d.range, local |-> d.local, answer |-> d.answer]
    BY <1>4, <1>8, SMTT(30)
  <1>10. /\ e.phase = phase /\ e.at = r.at /\ e.list = <<>> /\ e.bounds = r.bounds
        /\ e.range = range /\ e.local = local /\ e.answer = <<>>
        /\ e = [phase |-> e.phase, at |-> e.at, list |-> e.list, bounds |-> e.bounds,
              range |-> e.range, local |-> e.local, answer |-> e.answer]
    BY <1>5, <1>9, SMTT(30)
  <1>11. <<>> \in Seq(Nat) BY SMTT(30) DEF Phases
  <1>12. RoundType(e) BY <1>10, <1>11 DEF RoundType
  <1>13. e = Proceeding(r, phase, range, local) BY <1>1, <1>2, <1>3, <1>4, <1>5 DEF Proceeding
  <1> QED BY <1>10, <1>12, <1>13 DEF HasProceeded

(* The fields of the round with an answer on its way. *)
LEMMA AnswerRound ==
  ASSUME NEW r, RoundType(r), NEW answer \in Seq(Nat)
  PROVE  HasAnswered(Answering(r, answer), r, answer)
  <1>1. PICK a : a = [r EXCEPT !.phase = "pull"] OBVIOUS
  <1>2. PICK b : b = [a EXCEPT !.answer = answer] OBVIOUS
  <1>3. /\ a.phase = "pull" /\ a.at = r.at /\ a.list = r.list /\ a.bounds = r.bounds
        /\ a.range = r.range /\ a.local = r.local /\ a.answer = r.answer
        /\ a = [phase |-> a.phase, at |-> a.at, list |-> a.list, bounds |-> a.bounds,
              range |-> a.range, local |-> a.local, answer |-> a.answer]
    BY <1>1, SMTT(30) DEF RoundType
  <1>4. /\ b.phase = "pull" /\ b.at = r.at /\ b.list = r.list /\ b.bounds = r.bounds
        /\ b.range = r.range /\ b.local = r.local /\ b.answer = answer
        /\ b = [phase |-> b.phase, at |-> b.at, list |-> b.list, bounds |-> b.bounds,
              range |-> b.range, local |-> b.local, answer |-> b.answer]
    BY <1>2, <1>3, SMTT(30)
  <1>5. "pull" \in Phases BY SMTT(30) DEF Phases
  <1>6. RoundType(b) BY <1>4, <1>5 DEF RoundType
  <1>7. b = Answering(r, answer) BY <1>1, <1>2 DEF Answering
  <1> QED BY <1>4, <1>6, <1>7 DEF HasAnswered

(* The fields of the round with the next page to ask for. *)
LEMMA PageRound ==
  ASSUME NEW r, RoundType(r), NEW local \in Nat
  PROVE  HasPaged(Paging(r, local), r, local)
  <1>1. PICK a : a = [r EXCEPT !.phase = "ask"] OBVIOUS
  <1>2. PICK b : b = [a EXCEPT !.local = local] OBVIOUS
  <1>3. PICK c : c = [b EXCEPT !.answer = <<>>] OBVIOUS
  <1>0. r = [phase |-> r.phase, at |-> r.at, list |-> r.list, bounds |-> r.bounds,
             range |-> r.range, local |-> r.local, answer |-> r.answer]
    BY DEF RoundType
  <1>4. /\ a.phase = "ask" /\ a.at = r.at /\ a.list = r.list /\ a.bounds = r.bounds
        /\ a.range = r.range /\ a.local = r.local /\ a.answer = r.answer
        /\ a = [phase |-> a.phase, at |-> a.at, list |-> a.list, bounds |-> a.bounds,
              range |-> a.range, local |-> a.local, answer |-> a.answer]
    BY <1>0, <1>1, SMTT(30)
  <1>5. /\ b.phase = "ask" /\ b.at = r.at /\ b.list = r.list /\ b.bounds = r.bounds
        /\ b.range = r.range /\ b.local = local /\ b.answer = r.answer
        /\ b = [phase |-> b.phase, at |-> b.at, list |-> b.list, bounds |-> b.bounds,
              range |-> b.range, local |-> b.local, answer |-> b.answer]
    BY <1>2, <1>4, SMTT(30)
  <1>6. /\ c.phase = "ask" /\ c.at = r.at /\ c.list = r.list /\ c.bounds = r.bounds
        /\ c.range = r.range /\ c.local = local /\ c.answer = <<>>
        /\ c = [phase |-> c.phase, at |-> c.at, list |-> c.list, bounds |-> c.bounds,
              range |-> c.range, local |-> c.local, answer |-> c.answer]
    BY <1>3, <1>5, SMTT(30)
  <1>7. "ask" \in Phases /\ <<>> \in Seq(Nat) BY SMTT(30) DEF Phases
  <1>8. RoundType(c) BY <1>6, <1>7 DEF RoundType
  <1>9. c = Paging(r, local) BY <1>1, <1>2, <1>3 DEF Paging
  <1> QED BY <1>6, <1>8, <1>9 DEF HasPaged

-----------------------------------------------------------------------------
(* NextRange. *)

(* A clamped cursor is at most the maximum, and moves up only below the      *)
(* lower bound.                                                              *)
LEMMA ClampedFacts ==
  ASSUME NEW m \in Nat, NEW b \in Item
  PROVE  /\ Clamped(m, b) \in Nat /\ Clamped(m, b) <= b.max
         /\ Clamped(m, b) <= m \/ Clamped(m, b) < b.min
  <1>1. b.min \in Nat /\ b.max \in Nat BY ItemType
  <1> QED BY <1>1, SMTT(30) DEF Clamped, Larger

(* Clamping a cursor skips nothing visible. *)
LEMMA ClampedFilled ==
  ASSUME NEW c \in Convs, NEW m \in Nat, Filled(c, m)', NEW b \in Item, b.id = c, BoundOk(b)', DbType(db')
  PROVE  Filled(c, Clamped(m, b))'
  <1>1. PICK k : k = Clamped(m, b) OBVIOUS
  <1>2. k \in Nat /\ k <= b.max /\ (k <= m \/ k < b.min) BY <1>1, ClampedFacts
  <1>3. b.min \in Nat /\ b.max \in Nat BY ItemType
  <1>4. ConvMax(c)' \in Nat BY RowNumbersNext
  <1>5. b.max <= ConvMax(c)' /\ (HasRow(c)' => b.min <= Row(c)'.min) BY DEF BoundOk
  <1>6. k <= ConvMax(c)' BY <1>2, <1>3, <1>4, <1>5, SMTT(30)
  <1>7. ASSUME NEW s \in 1 .. k, HasRow(c)', Row(c)'.min <= s PROVE s \in got'[c]
    <2>1. CASE s <= m
      <3>1. s \in 1 .. m BY <1>2, <2>1, SMTT(30)
      <3> QED BY <1>7, <3>1 DEF Filled
    <2>2. CASE ~(s <= m)
      <3>1. Row(c)'.min \in Nat BY <1>7, RowNumbersNext
      <3>2. b.min <= Row(c)'.min BY <1>5, <1>7
      <3> QED BY <1>2, <1>3, <1>7, <2>2, <3>1, <3>2, SMTT(30)
    <2> QED BY <2>1, <2>2
  <1>8. Filled(c, k)' BY <1>6, <1>7 DEF Filled
  <1> QED BY <1>1, <1>8

\* What NextRange does from the i-th range on.
Advanced(r, cur, i, n) ==
    /\ round' = {n} /\ RoundType(n) /\ n.at = r.at /\ n.bounds = r.bounds
    /\ \A c \in Convs : (\A k \in DOMAIN r.bounds : r.bounds[k].id = c => k < i) => cursors'[c] = cur[c]
    /\ \/ /\ n.phase = "tail"
          /\ \A k \in DOMAIN r.bounds : i <= k => cursors'[r.bounds[k].id] = r.bounds[k].max
       \/ /\ n.phase = "ask" /\ n.range \in DOMAIN r.bounds /\ i <= n.range
          /\ n.local = cursors'[r.bounds[n.range].id]
          /\ \A k \in DOMAIN r.bounds : i <= k /\ k < n.range => cursors'[r.bounds[k].id] = r.bounds[k].max

(* NextRange moves cursors only within what is filled, and passes only       *)
(* ranges it leaves at their maximum.                                        *)
LEMMA NextRangeFacts ==
  ASSUME NEW r, RoundType(r), Distinct(r.bounds), \A k \in DOMAIN r.bounds : BoundOk(r.bounds[k])', DbType(db'),
         NEW cur \in [Convs -> Nat], \A c \in Convs : Filled(c, cur[c])', NEW i \in Nat \ {0}, NextRange(r, cur, i)
  PROVE  /\ cursors' \in [Convs -> Nat] /\ \A c \in Convs : Filled(c, cursors[c])'
         /\ \E n : Advanced(r, cur, i, n)
  <1>1. PICK b \in Seq(Item) : b = r.bounds BY DEF RoundType
  <1> DEFINE moves(k) == Clamped(cur[b[k].id], b[k])
             lacks == Lacking(b, cur, i)
  <1>2. PICK stop : stop = StopAt(b, cur, i) OBVIOUS
  <1>3. Len(b) \in Nat /\ DOMAIN b = 1 .. Len(b) BY SeqElements
  <1>4. ASSUME NEW k \in DOMAIN b
        PROVE  b[k] \in Item /\ b[k].id \in Convs /\ b[k].max \in Nat /\ moves(k) \in Nat /\ moves(k) <= b[k].max
    <2>1. b[k] \in Item BY SMTT(30)
    <2>2. b[k].id \in Convs /\ b[k].max \in Nat BY <2>1, ItemType
    <2>3. cur[b[k].id] \in Nat BY <2>2
    <2> QED BY <2>1, <2>2, <2>3, ClampedFacts
  <1>5. lacks \in SUBSET Nat /\ \A k \in lacks : k \in DOMAIN b /\ i <= k
    <2> HIDE DEF moves
    <2> QED BY <1>3, SMTT(30) DEF Lacking
  <1>6. /\ lacks # {} => stop \in lacks /\ \A x \in lacks : stop <= x
        /\ lacks = {} => stop = Len(b)
        /\ stop \in Nat /\ stop <= Len(b)
    <2> HIDE DEF lacks
    <2>1. CASE lacks = {}
      <3>1. stop = Len(b) BY <1>2, <2>1 DEF StopAt, lacks
      <3> QED BY <1>3, <2>1, <3>1, SMTT(30)
    <2>2. CASE lacks # {}
      <3>1. \E k \in lacks : \A x \in lacks : k <= x BY <1>5, <2>2, LeastNumber
      <3>2. stop \in lacks /\ \A x \in lacks : stop <= x BY <1>2, <2>2, <3>1 DEF StopAt, lacks
      <3>3. stop \in DOMAIN b BY <1>5, <3>2
      <3>4. stop \in Nat /\ stop <= Len(b) BY <1>3, <3>3, SMTT(30)
      <3> QED BY <2>2, <3>2, <3>4
    <2> QED BY <2>1, <2>2
  <1> HIDE DEF lacks
  <1>17. stop \in Nat /\ stop <= Len(b) BY <1>6
  <1>7. \A k \in i .. stop : k \in DOMAIN b BY <1>3, <1>17, SMTT(30)
  <1>8. cursors' = [c \in Convs |-> IF \E k \in i .. stop : b[k].id = c
                                    THEN Clamped(cur[c], b[CHOOSE k \in i .. stop : b[k].id = c]) ELSE cur[c]]
    BY <1>1, <1>2 DEF NextRange
  <1>9. ASSUME NEW k \in i .. stop PROVE cursors'[b[k].id] = moves(k)
    <2>1. PICK c \in Convs : c = b[k].id BY <1>4, <1>7
    <2>2. PICK x : x = CHOOSE y \in i .. stop : b[y].id = c OBVIOUS
    <2>3. x \in i .. stop /\ b[x].id = c BY <2>1, <2>2
    <2>4. x = k BY <1>1, <1>7, <2>1, <2>3 DEF Distinct
    <2>5. cursors'[c] = Clamped(cur[c], b[x]) BY <1>8, <2>1, <2>2
    <2> QED BY <2>1, <2>4, <2>5
  <1>10. \A c \in Convs : (~\E k \in i .. stop : b[k].id = c) => cursors'[c] = cur[c] BY <1>8
  <1>11. ASSUME NEW c \in Convs PROVE cursors'[c] \in Nat /\ Filled(c, cursors[c])'
    <2>1. cur[c] \in Nat OBVIOUS
    <2>2. CASE ~\E k \in i .. stop : b[k].id = c
      <3>1. cursors'[c] = cur[c] BY <1>10, <2>2
      <3> QED BY <2>1, <3>1 DEF Filled
    <2>3. CASE \E k \in i .. stop : b[k].id = c
      <3>1. PICK k \in i .. stop : b[k].id = c BY <2>3
      <3>2. cursors'[c] = Clamped(cur[c], b[k]) /\ moves(k) \in Nat BY <1>4, <1>7, <1>9, <3>1
      <3>3. BoundOk(b[k])' /\ b[k] \in Item BY <1>1, <1>4, <1>7
      <3>4. PICK it \in Item : it = b[k] BY <3>3
      <3>5. BoundOk(it)' /\ it.id = c BY <3>1, <3>3, <3>4
      <3>6. PICK m \in Nat : m = cur[c] BY <2>1
      <3>7. Filled(c, m)' BY <3>6 DEF Filled
      <3>8. Filled(c, Clamped(m, it))' BY <3>5, <3>7, ClampedFilled
      <3>9. cursors'[c] = Clamped(m, it) BY <3>2, <3>4, <3>6
      <3>10. cursors'[c] \in Nat BY <3>1, <3>2
      <3> QED BY <3>8, <3>9, <3>10 DEF Filled
    <2> QED BY <2>2, <2>3
  <1>12. cursors' \in [Convs -> Nat]
    <2>1. cursors' = [c \in Convs |-> cursors'[c]] BY <1>8
    <2> QED BY <1>11, <2>1
  <1>13. ASSUME NEW k \in i .. stop, k \notin lacks PROVE cursors'[b[k].id] = b[k].max
    <2>1. k \in DOMAIN b /\ k \in i .. Len(b) BY <1>3, <1>17, <1>7, SMTT(30)
    <2>2. ~(moves(k) < b[k].max) BY <1>13, <2>1 DEF Lacking, lacks
    <2>3. moves(k) \in Nat /\ b[k].max \in Nat /\ moves(k) <= b[k].max BY <1>4, <2>1
    <2>4. cursors'[b[k].id] = moves(k) BY <1>9
    <2> HIDE DEF moves
    <2>5. moves(k) = b[k].max BY <2>2, <2>3, SMTT(30)
    <2> QED BY <2>4, <2>5
  <1>14. ASSUME NEW c \in Convs, \A k \in DOMAIN b : b[k].id = c => k < i PROVE cursors'[c] = cur[c]
    <2>1. \A k \in i .. stop : ~(k < i) BY <1>17, SMTT(30)
    <2> QED BY <1>7, <1>10, <1>14, <2>1
  <1>15. CASE lacks = {}
    <2>1. PICK n : n = Proceeding(r, "tail", 0, 0) OBVIOUS
    <2>2. round' = {n} BY <1>1, <1>15, <2>1 DEF NextRange, Goes, Proceeding, lacks
    <2>3. "tail" \in Phases /\ 0 \in Nat BY SMTT(30) DEF Phases
    <2>4. HasProceeded(n, r, "tail", 0, 0) BY <2>1, <2>3, ProceedRound
    <2>5. ASSUME NEW k \in DOMAIN b, i <= k PROVE cursors'[b[k].id] = b[k].max
      <3>1. k \in i .. stop
        <4>1. stop = Len(b) BY <1>6, <1>15
        <4> HIDE DEF lacks
        <4> QED BY <1>3, <2>5, <4>1, SMTT(30)
      <3>2. k \notin lacks BY <1>15
      <3> QED BY <1>13, <3>1, <3>2
    <2>6. Advanced(r, cur, i, n) BY <1>1, <1>14, <2>2, <2>4, <2>5 DEF Advanced, HasProceeded
    <2> QED BY <1>11, <1>12, <2>6
  <1>16. CASE lacks # {}
    <2>1. PICK m : m = moves(stop) OBVIOUS
    <2>2. PICK n : n = Proceeding(r, "ask", stop, m) OBVIOUS
    <2>3. round' = {n} BY <1>1, <1>2, <1>16, <2>1, <2>2 DEF NextRange, Goes, Proceeding, lacks
    <2>4. stop \in lacks /\ \A x \in lacks : stop <= x BY <1>6, <1>16
    <2>5. stop \in DOMAIN b /\ i <= stop BY <1>5, <2>4
    <2>6. m \in Nat BY <1>4, <2>1, <2>5
    <2>7. "ask" \in Phases BY DEF Phases
    <2>8. HasProceeded(n, r, "ask", stop, m) BY <1>6, <2>2, <2>6, <2>7, ProceedRound
    <2>9. stop \in i .. stop
      <3> HIDE DEF lacks
      <3> QED BY <1>17, <2>5, SMTT(30)
    <2>10. m = cursors'[b[stop].id] BY <1>9, <2>1, <2>9
    <2>11. ASSUME NEW k \in DOMAIN b, i <= k, k < stop PROVE cursors'[b[k].id] = b[k].max
      <3>1. k \in i .. stop /\ ~(stop <= k)
        <4> HIDE DEF lacks
        <4> QED BY <1>3, <1>17, <2>11, SMTT(30)
      <3>2. k \notin lacks BY <2>4, <3>1
      <3> QED BY <1>13, <3>1, <3>2
    <2>12. Advanced(r, cur, i, n)
      <3> HIDE DEF lacks, moves
      <3> QED BY <1>1, <1>14, <2>3, <2>5, <2>8, <2>10, <2>11 DEF Advanced, HasProceeded
    <2> QED BY <1>11, <1>12, <2>12
  <1> QED BY <1>15, <1>16

-----------------------------------------------------------------------------
(* Applying the baseline and asking for messages. *)

(* The bound of a conversation depends on the bounds alone. *)
LEMMA BoundSame ==
  ASSUME NEW r, NEW n, n.bounds = r.bounds, NEW c
  PROVE  Bound(n, c) = Bound(r, c)
  BY DEF Bound

(* What the invariant says of a running round. *)
LEMMA RoundFacts ==
  ASSUME IInv, NEW r \in round
  PROVE  /\ RoundType(r) /\ round = {r} /\ GapRound(r) /\ PushRound(r) /\ WalkRound(r) /\ DbType(db) /\ TableInv
         /\ cursors \in [Convs -> Nat] /\ messages \in [Convs -> SUBSET Nat] /\ got \in [Convs -> SUBSET Nat]
         /\ pushed \in [Convs -> SUBSET Nat] /\ Distinct(r.bounds)
         /\ \A c \in Convs : Filled(c, cursors[c]) /\ messages[c] \subseteq 1 .. ConvMax(c)
  BY DEF IInv, TypeInv, GapInv, GapConv, PushInv, WalkInv, WalkRound

(* Going to the next range keeps the invariant if the ranges before it reach *)
(* every push.                                                               *)
LEMMA AdvancedKeeps ==
  ASSUME IInv, NEW r \in round, NEW n, NEW cur, NEW i \in Nat, Advanced(r, cur, i, n),
         UNCHANGED <<db, clock, frames, stored, pushed, dirty, moved>>,
         got' \in [Convs -> SUBSET Nat], \A c \in Convs : got[c] \subseteq got'[c],
         messages' \in [Convs -> SUBSET Nat], \A c \in Convs : messages'[c] \subseteq 1 .. ConvMax(c),
         cursors' \in [Convs -> Nat], \A c \in Convs : Filled(c, cursors[c])',
         \A c \in Convs : Bound(r, c) = {} => c \in missed',
         ~dirty => \A k \in DOMAIN r.bounds : k < i => Covered(r.bounds[k].id)'
  PROVE  IInv'
  <1>1. /\ round' = {n} /\ RoundType(n) /\ n.at = r.at /\ n.bounds = r.bounds /\ n.phase \in {"tail", "ask"}
        /\ n.phase = "ask" => n.range \in DOMAIN r.bounds /\ n.local = cursors'[r.bounds[n.range].id]
    BY DEF Advanced
  <1>2. /\ RoundType(r) /\ GapRound(r) /\ PushRound(r) /\ WalkRound(r) BY RoundFacts
  <1>3. \A k \in DOMAIN r.bounds : r.bounds[k] \in Item /\ r.bounds[k].id \in Convs /\ k \in Nat
    <2>1. \A k \in DOMAIN r.bounds : r.bounds[k] \in Item /\ r.bounds[k].id \in Convs BY <1>2, RoundItems, ItemType
    <2>2. \A k \in DOMAIN r.bounds : k \in Nat BY <1>2, SMTT(30) DEF RoundType
    <2> QED BY <2>1, <2>2
  <1> USE TablesSame
  <1>4. GapRound(n)'
    <2>1. \A k \in DOMAIN n.bounds : BoundOk(n.bounds[k])' BY <1>1, <1>2 DEF GapRound
    <2>2. n.phase = "ask" => Filled(n.bounds[n.range].id, n.local)' BY <1>1, <1>3 DEF Filled
    <2> QED BY <1>1, <2>1, <2>2 DEF GapRound
  <1>5. ASSUME ~dirty, NEW k \in DOMAIN r.bounds, k < i \/ cursors'[r.bounds[k].id] = r.bounds[k].max
        PROVE  Covered(r.bounds[k].id)'
    <2>1. CASE k < i BY <1>5, <2>1
    <2>2. CASE cursors'[r.bounds[k].id] = r.bounds[k].max BY <1>2, <1>5, <2>2 DEF PushRound, PushBounds, Covered
    <2> QED BY <1>5, <2>1, <2>2
  <1>6. PushRound(n)'
    <2>1. ASSUME NEW c \in Convs, Bound(n, c) = {} PROVE c \in missed' BY <1>1, <2>1, BoundSame
    <2>2. ~dirty => PushBounds(n)' BY <1>1, <1>2 DEF PushRound, PushBounds
    <2>3. ASSUME ~dirty, n.phase = "ask", NEW k \in 1 .. n.range - 1 PROVE Covered(n.bounds[k].id)'
      <3>1. n.range \in DOMAIN r.bounds /\ r.bounds \in Seq(Item) BY <1>1, <1>2, <2>3 DEF RoundType
      <3>8. PICK b \in Seq(Item) : b = r.bounds BY <3>1
      <3>9. PICK g \in DOMAIN b : g = n.range BY <3>1, <3>8
      <3>2. b = r.bounds /\ g = n.range BY <3>8, <3>9
      <3>3. k \in 1 .. g - 1 BY <3>2
      <3>4. k \in DOMAIN b /\ k < g /\ (k < i \/ i <= k) BY <3>3, SMTT(30)
      <3>5. k \in DOMAIN r.bounds /\ k < n.range /\ (k < i \/ i <= k) BY <3>2, <3>4
      <3>6. i <= k => cursors'[r.bounds[k].id] = r.bounds[k].max BY <2>3, <3>5 DEF Advanced
      <3>7. k < i \/ cursors'[r.bounds[k].id] = r.bounds[k].max BY <3>5, <3>6
      <3> QED BY <1>1, <1>5, <2>3, <3>5, <3>7
    <2>4. ASSUME ~dirty, n.phase = "tail", NEW k \in DOMAIN n.bounds PROVE Covered(n.bounds[k].id)'
      <3>1. k \in DOMAIN r.bounds /\ k \in Nat BY <1>1, <1>3, <2>4
      <3>2. k < i \/ i <= k BY <3>1, SMTT(30)
      <3>3. i <= k => cursors'[r.bounds[k].id] = r.bounds[k].max BY <2>4, <3>1 DEF Advanced
      <3> QED BY <1>1, <1>5, <2>4, <3>1, <3>2, <3>3
    <2> QED BY <1>1, <2>1, <2>2, <2>3, <2>4 DEF PushRound
  <1>7. WalkRound(n)' BY <1>1, <1>2 DEF WalkRound
  <1>8. WalkComplete' BY <1>1 DEF WalkComplete
  <1> QED BY <1>1, <1>4, <1>6, <1>7, <1>8, RoundGoes

(* Applying the baseline keeps the invariant. *)
LEMMA ApplyBoundsKeeps == ASSUME IInv, ApplyBounds PROVE IInv'
  <1>1. PICK r \in round :
        /\ r.phase = "apply"
        /\ messages' = [c \in Convs |-> {s \in messages[c] : \E b \in Bound(r, c) : b.min <= s /\ s <= b.max}]
        /\ missed' = {c \in Convs : Bound(r, c) = {}}
        /\ NextRange(r, cursors, 1)
        /\ UNCHANGED <<serverVars, up, frames, got, pushed, stored, timerVars, page, ok, moved, disturbances>>
    BY DEF ApplyBounds
  <1>2. UNCHANGED <<db, clock, frames, stored, pushed, dirty, moved, got>> BY <1>1 DEF serverVars, timerVars
  <1> USE RoundFacts
  <1>3. PICK cur : cur = cursors OBVIOUS
  <1>4. cur \in [Convs -> Nat] /\ \A c \in Convs : Filled(c, cur[c])'
    <2>1. \A c \in Convs : Filled(c, cur[c]) BY <1>3
    <2>2. \A c \in Convs : Filled(c, cur[c])' BY <1>2, <2>1 DEF Filled, HasRow, Row, ConvMax
    <2> QED BY <1>3, <2>2
  <1>5. \A k \in DOMAIN r.bounds : BoundOk(r.bounds[k])' BY <1>2, TablesSame DEF GapRound
  <1>6. DbType(db') /\ RoundType(r) /\ Distinct(r.bounds) /\ NextRange(r, cur, 1) BY <1>1, <1>2, <1>3
  <1>7. /\ cursors' \in [Convs -> Nat] /\ \A c \in Convs : Filled(c, cursors[c])'
        /\ \E n : Advanced(r, cur, 1, n)
    <2>1. 1 \in Nat \ {0} BY SMTT(30)
    <2> QED BY <1>4, <1>5, <1>6, <2>1, NextRangeFacts
  <1>8. PICK n : Advanced(r, cur, 1, n) BY <1>7
  <1>9. messages' \in [Convs -> SUBSET Nat] /\ \A c \in Convs : messages'[c] \subseteq 1 .. ConvMax(c)
    <2>1. \A c \in Convs : messages'[c] \subseteq messages[c] BY <1>1
    <2>2. messages' = [c \in Convs |-> messages'[c]] BY <1>1
    <2>3. \A c \in Convs : messages'[c] \in SUBSET Nat BY <2>1
    <2>4. messages' \in [Convs -> SUBSET Nat] BY <2>2, <2>3
    <2> QED BY <2>1, <2>4
  <1>10. \A k \in DOMAIN r.bounds : ~(k < 1)
    <2>1. PICK b \in Seq(Item) : b = r.bounds BY <1>6 DEF RoundType
    <2>2. \A k \in DOMAIN b : ~(k < 1) BY SMTT(30)
    <2> QED BY <2>1, <2>2
  <1>11. 1 \in Nat /\ got' \in [Convs -> SUBSET Nat] /\ \A c \in Convs : got[c] \subseteq got'[c] BY <1>2, SMTT(30)
  <1>12. \A c \in Convs : Bound(r, c) = {} => c \in missed' BY <1>1
  <1> QED BY <1>2, <1>7, <1>8, <1>9, <1>10, <1>11, <1>12, AdvancedKeeps

(* Asking for a page of messages keeps the invariant. *)
LEMMA PullRangeKeeps == ASSUME IInv, Answers, PullRange PROVE IInv'
  <1>1. PICK r \in round :
        /\ r.phase = "ask"
        /\ LET b == r.bounds[r.range]
               answer == Pull(db, me, b.id, r.local + 1, b.max, 100, PullMax)
           IN  IF answer.err # Nil \/ answer.val.seqs = <<>>
               THEN Fail
               ELSE /\ Goes([r EXCEPT !.phase = "pull", !.answer = answer.val.seqs])
                    /\ UNCHANGED <<stored, dirty, reconcileTimer, backoff, ok, moved>>
        /\ UNCHANGED <<serverVars, up, frames, clientVars, syncTimer, page, missed, disturbances>>
    BY DEF PullRange
  <1>2. UNCHANGED <<db, clock, frames, got, messages, cursors, pushed, missed>> BY <1>1 DEF serverVars, clientVars
  <1>3. /\ RoundType(r) /\ GapRound(r) /\ PushRound(r) /\ WalkRound(r) /\ DbType(db) /\ TableInv BY RoundFacts
  <1>4. PICK b \in Item : b = r.bounds[r.range] BY <1>1, <1>3, RoundItems DEF GapRound
  <1>5. b.id \in Convs /\ b.max \in Nat BY ItemType
  <1>6. r.local + 1 \in Nat /\ 100 \in Nat /\ PullMax \in Nat
    <2>1. r.local \in Nat BY <1>3 DEF RoundType
    <2> QED BY <2>1, WebSyncAssumption, SMTT(30)
  <1>7. PICK answer : answer = Pull(db, me, b.id, r.local + 1, b.max, 100, PullMax) OBVIOUS
  <1>8. CASE answer.err # Nil \/ answer.val.seqs = <<>>
    <2>1. Fail BY <1>1, <1>4, <1>7, <1>8
    <2> QED BY <1>2, <2>1, FailKeeps
  <1>9. CASE ~(answer.err # Nil \/ answer.val.seqs = <<>>)
    <2>1. PICK seqs : seqs = answer.val.seqs OBVIOUS
    <2>2. PICK n : n = Answering(r, seqs) OBVIOUS
    <2>3. round' = {n} /\ UNCHANGED <<stored, dirty, ok, moved>>
      BY <1>1, <1>4, <1>7, <1>9, <2>1, <2>2 DEF Goes, Answering
    <2>4. seqs \in Seq(Nat) /\ seqs # <<>> BY <1>3, <1>5, <1>6, <1>7, <1>9, <2>1 DEF Answers, IsAnswer
    <2>5. HasAnswered(n, r, seqs) BY <1>3, <2>2, <2>4, AnswerRound
    <2>6. /\ RoundType(n) /\ n.at = r.at /\ n.bounds = r.bounds /\ n.phase = "pull" /\ n.range = r.range
          /\ n.local = r.local /\ n.answer # <<>>
      BY <2>4, <2>5 DEF HasAnswered
    <2> USE TablesSame
    <2>7. GapRound(n)'
      <3>1. \A k \in DOMAIN n.bounds : BoundOk(n.bounds[k])' BY <1>2, <1>3, <2>6 DEF GapRound
      <3>2. n.range \in DOMAIN n.bounds /\ Filled(n.bounds[n.range].id, n.local)'
        BY <1>1, <1>2, <1>3, <2>6 DEF GapRound, Filled
      <3> QED BY <2>6, <3>1, <3>2 DEF GapRound
    <2>8. PushRound(n)'
      <3>1. \A c \in Convs : Bound(n, c) = Bound(r, c) BY <2>6, BoundSame
      <3>2. ~dirty => PushBounds(n)' BY <1>2, <1>3, <2>6 DEF PushRound, PushBounds
      <3>3. ~dirty => /\ cursors'[n.bounds[n.range].id] = n.local
                      /\ \A k \in 1 .. n.range - 1 : Covered(n.bounds[k].id)'
        BY <1>1, <1>2, <1>3, <2>6 DEF PushRound, Covered
      <3>4. \A c \in Convs : Bound(n, c) = {} => c \in missed' BY <1>1, <1>2, <1>3, <3>1 DEF PushRound
      <3> QED BY <2>3, <2>6, <3>2, <3>3, <3>4 DEF PushRound
    <2>9. WalkRound(n)' BY <1>2, <1>3, <2>6 DEF WalkRound
    <2>10. WalkComplete' BY <2>3, <2>6 DEF WalkComplete
    <2> QED BY <1>2, <2>3, <2>6, <2>7, <2>8, <2>9, <2>10, GoesView, RoundGoes
  <1> QED BY <1>8, <1>9

-----------------------------------------------------------------------------
(* Merging an answer. *)

(* A contiguous page fills everything up to its last seq. *)
LEMMA PageEnd ==
  ASSUME NEW answer \in Seq(Nat), answer # <<>>, NEW local \in Nat, NEW max \in Nat,
         \A i \in DOMAIN answer : answer[i] = local + i /\ answer[i] <= max
  PROVE  LET next == answer[Len(answer)]
         IN  /\ next \in Nat /\ local < next /\ next <= max
             /\ Elements(answer) \subseteq 1 .. max
             /\ \A s \in 1 .. next : s <= local \/ s \in Elements(answer)
  <1>1. Len(answer) \in DOMAIN answer /\ Len(answer) \in Nat /\ Len(answer) >= 1 BY SMTT(30)
  <1>2. PICK m \in Nat : m = Len(answer) BY <1>1
  <1>3. DOMAIN answer = 1 .. m BY <1>2, SeqElements
  <1>4. PICK next : next = answer[m] OBVIOUS
  <1>5. m \in DOMAIN answer BY <1>1, <1>2
  <1>6. next = local + m /\ next <= max BY <1>4, <1>5
  <1>7. next \in Nat /\ local < next BY <1>1, <1>2, <1>6, SMTT(30)
  <1>8. Elements(answer) \subseteq 1 .. max
    <2> SUFFICES ASSUME NEW i \in DOMAIN answer PROVE answer[i] \in 1 .. max BY DEF Elements
    <2>1. i \in 1 .. m /\ answer[i] = local + i /\ answer[i] <= max BY <1>3
    <2> QED BY <2>1, SMTT(30)
  <1>9. ASSUME NEW s \in 1 .. next, ~(s <= local) PROVE s \in Elements(answer)
    <2>1. PICK i : i = s - local OBVIOUS
    <2>2. i \in 1 .. m /\ s = local + i BY <1>6, <1>9, <2>1, SMTT(30)
    <2>3. i \in DOMAIN answer BY <1>3, <2>2
    <2>4. answer[i] = s BY <2>2, <2>3
    <2> QED BY <2>3, <2>4 DEF Elements
  <1>10. \A s \in 1 .. next : s <= local \/ s \in Elements(answer) BY <1>9
  <1> QED BY <1>2, <1>4, <1>6, <1>7, <1>8, <1>10

(* Merging a page of messages keeps the invariant. *)
LEMMA CommitPageKeeps == ASSUME IInv, CommitPage PROVE IInv'
  <1>1. PICK r \in round :
        LET b == r.bounds[r.range]
            contiguous == \A i \in DOMAIN r.answer : r.answer[i] = r.local + i /\ r.answer[i] <= b.max
            next == r.answer[Len(r.answer)]
        IN  /\ r.phase = "pull"
            /\ IF ~contiguous
               THEN Fail /\ UNCHANGED clientVars
               ELSE /\ messages' = [messages EXCEPT ![b.id] = @ \cup Elements(r.answer)]
                    /\ got' = [got EXCEPT ![b.id] = @ \cup Elements(r.answer)]
                    /\ IF next < b.max
                       THEN /\ cursors' = [cursors EXCEPT ![b.id] = next]
                            /\ Goes([r EXCEPT !.phase = "ask", !.local = next, !.answer = <<>>])
                       ELSE NextRange(r, [cursors EXCEPT ![b.id] = next], r.range + 1)
                    /\ UNCHANGED <<conversations, pushed, stored, dirty, reconcileTimer, backoff, ok, moved>>
            /\ UNCHANGED <<serverVars, up, frames, syncTimer, page, missed, disturbances>>
    BY DEF CommitPage
  <1>2. UNCHANGED <<db, clock, frames, missed>> BY <1>1 DEF serverVars
  <1>3. /\ RoundType(r) /\ GapRound(r) /\ PushRound(r) /\ WalkRound(r) /\ DbType(db) /\ Distinct(r.bounds)
        /\ cursors \in [Convs -> Nat] /\ messages \in [Convs -> SUBSET Nat] /\ got \in [Convs -> SUBSET Nat]
        /\ pushed \in [Convs -> SUBSET Nat]
        /\ \A c \in Convs : Filled(c, cursors[c]) /\ messages[c] \subseteq 1 .. ConvMax(c)
    BY RoundFacts
  <1>4. r.phase = "pull" BY <1>1
  <1>5. r.range \in DOMAIN r.bounds /\ Filled(r.bounds[r.range].id, r.local) /\ r.answer # <<>> BY <1>3, <1>4 DEF GapRound
  <1>6. PICK b \in Item : b = r.bounds[r.range] BY <1>3, <1>5, RoundItems
  <1>7. PICK c \in Convs : c = b.id BY ItemType
  <1>8. PICK local \in Nat : local = r.local BY <1>3 DEF RoundType
  <1>9. PICK answer \in Seq(Nat) : answer = r.answer BY <1>3 DEF RoundType
  <1>10. b.max \in Nat /\ BoundOk(b) BY <1>3, <1>5, <1>6, ItemType DEF GapRound
  <1>11. CASE ~(\A i \in DOMAIN answer : answer[i] = local + i /\ answer[i] <= b.max)
    <2>1. Fail /\ UNCHANGED clientVars BY <1>1, <1>6, <1>8, <1>9, <1>11
    <2>2. UNCHANGED <<got, messages, cursors, pushed>> BY <2>1 DEF clientVars
    <2> QED BY <1>2, <2>1, <2>2, FailKeeps
  <1>12. CASE \A i \in DOMAIN answer : answer[i] = local + i /\ answer[i] <= b.max
    <2>1. PICK next : next = answer[Len(answer)] OBVIOUS
    <2>2. /\ next \in Nat /\ local < next /\ next <= b.max /\ Elements(answer) \subseteq 1 .. b.max
          /\ \A s \in 1 .. next : s <= local \/ s \in Elements(answer)
      BY <1>5, <1>9, <1>10, <1>12, <2>1, PageEnd
    <2>3. PICK cur : cur = [cursors EXCEPT ![c] = next] OBVIOUS
    <2>4. /\ messages' = [messages EXCEPT ![c] = @ \cup Elements(answer)]
          /\ got' = [got EXCEPT ![c] = @ \cup Elements(answer)]
          /\ IF next < b.max THEN cursors' = cur /\ round' = {Paging(r, next)}
             ELSE NextRange(r, cur, r.range + 1)
          /\ UNCHANGED <<pushed, stored, dirty, moved>>
      BY <1>1, <1>6, <1>7, <1>8, <1>9, <1>12, <2>1, <2>3 DEF Goes, Paging
    <2>5. ConvMax(c) \in Nat /\ b.max <= ConvMax(c) BY <1>3, <1>7, <1>10, RowNumbers DEF BoundOk
    <2>6. Elements(answer) \subseteq 1 .. ConvMax(c) /\ Elements(answer) \subseteq Nat /\ next <= ConvMax(c)
      BY <1>10, <2>2, <2>5, SMTT(30)
    <2>7. /\ messages' \in [Convs -> SUBSET Nat] /\ \A x \in Convs : messages'[x] \subseteq 1 .. ConvMax(x)
      <3>1. \A x \in Convs : messages'[x] = IF x = c THEN messages[c] \cup Elements(answer) ELSE messages[x] BY <1>3, <2>4
      <3>2. messages' = [x \in Convs |-> messages'[x]] BY <1>3, <2>4
      <3>3. \A x \in Convs : messages'[x] \in SUBSET Nat BY <1>3, <2>6, <3>1
      <3>4. messages' \in [Convs -> SUBSET Nat] BY <3>2, <3>3
      <3>5. \A x \in Convs : messages'[x] \subseteq 1 .. ConvMax(x) BY <1>3, <2>6, <3>1
      <3> QED BY <3>4, <3>5
    <2>8. /\ got' \in [Convs -> SUBSET Nat] /\ \A x \in Convs : got[x] \subseteq got'[x]
          /\ Elements(answer) \subseteq got'[c]
      <3>1. \A x \in Convs : got'[x] = IF x = c THEN got[c] \cup Elements(answer) ELSE got[x] BY <1>3, <2>4
      <3>2. got' = [x \in Convs |-> got'[x]] BY <1>3, <2>4
      <3>3. \A x \in Convs : got'[x] \in SUBSET Nat BY <1>3, <2>6, <3>1
      <3>4. got' \in [Convs -> SUBSET Nat] BY <3>2, <3>3
      <3> QED BY <3>1, <3>4
    <2>9. cur \in [Convs -> Nat] /\ cur[c] = next /\ \A x \in Convs : x # c => cur[x] = cursors[x] BY <1>3, <2>2, <2>3
    <2> USE TablesSame
    <2>10. Filled(c, next)'
      <3>1. ASSUME NEW s \in 1 .. next, HasRow(c), Row(c).min <= s PROVE s \in got'[c]
        <4>1. CASE s \in Elements(answer) BY <2>8, <4>1
        <4>2. CASE s <= local
          <5>1. s \in 1 .. local BY <2>2, <4>2, SMTT(30)
          <5>2. s \in got[c] BY <1>5, <1>6, <1>7, <1>8, <3>1, <5>1 DEF Filled
          <5> QED BY <2>8, <5>2
        <4> QED BY <2>2, <4>1, <4>2
      <3>2. next <= ConvMax(c)' BY <1>2, <2>6
      <3>3. \A s \in 1 .. next : HasRow(c)' /\ Row(c)'.min <= s => s \in got'[c] BY <1>2, <3>1
      <3> QED BY <3>2, <3>3 DEF Filled
    <2>11. ASSUME NEW x \in Convs PROVE Filled(x, cur[x])'
      <3>1. PICK m : m = cur[x] OBVIOUS
      <3>2. CASE x = c BY <2>9, <2>10, <3>2 DEF Filled
      <3>3. CASE x # c
        <4>1. Filled(x, m) BY <1>3, <2>9, <3>1, <3>3
        <4>2. Filled(x, m)' BY <1>2, <2>8, <4>1, FilledSame
        <4> QED BY <3>1, <4>2 DEF Filled
      <3> QED BY <3>2, <3>3
    <2>12. \A k \in DOMAIN r.bounds : BoundOk(r.bounds[k])' BY <1>2, <1>3 DEF GapRound
    <2>13. \A x \in Convs : Bound(r, x) = {} => x \in missed' BY <1>2, <1>3, <1>4 DEF PushRound
    <2>14. PICK bounds \in Seq(Item) : bounds = r.bounds BY <1>3 DEF RoundType
    <2>15. PICK g \in DOMAIN bounds : g = r.range BY <1>5, <2>14
    <2>16. \A k \in DOMAIN bounds : k # g => bounds[k].id # c /\ bounds[k].id \in Convs
      <3>1. \A k \in DOMAIN bounds : bounds[k].id \in Convs BY <1>3, <2>14, RoundItems, ItemType
      <3> QED BY <1>3, <1>6, <1>7, <2>14, <2>15, <3>1 DEF Distinct
    <2>17. \A k \in DOMAIN bounds : ~dirty /\ k < g => Covered(bounds[k].id)
      <3>1. \A k \in DOMAIN bounds : k < g => k \in 1 .. g - 1 BY SMTT(30)
      <3> QED BY <1>3, <1>4, <2>14, <2>15, <3>1 DEF PushRound
    <2>18. CASE next < b.max
      <3>1. cursors' = cur /\ UNCHANGED <<pushed, stored, dirty, moved>> BY <2>4, <2>18
      <3>2. PICK n : n = Paging(r, next) OBVIOUS
      <3>3. round' = {n} BY <2>4, <2>18, <3>2
      <3>4. HasPaged(n, r, next) BY <1>3, <2>2, <3>2, PageRound
      <3>5. /\ RoundType(n) /\ n.at = r.at /\ n.bounds = r.bounds /\ n.phase = "ask" /\ n.range = r.range /\ n.local = next
        BY <3>4 DEF HasPaged
      <3>6. cursors' \in [Convs -> Nat] /\ \A x \in Convs : Filled(x, cursors[x])' BY <2>9, <2>11, <3>1 DEF Filled
      <3>7. GapRound(n)'
        <4>1. Filled(n.bounds[n.range].id, n.local)' BY <1>6, <1>7, <2>10, <3>5
        <4> QED BY <1>5, <2>12, <3>5, <4>1 DEF GapRound
      <3>8. PushRound(n)'
        <4>1. \A x \in Convs : Bound(n, x) = {} => x \in missed' BY <2>13, <3>5, BoundSame
        <4>2. ~dirty => PushBounds(n)' BY <1>3, <3>1, <3>5 DEF PushRound, PushBounds
        <4>3. cursors'[n.bounds[n.range].id] = n.local BY <1>6, <1>7, <2>9, <3>1, <3>5
        <4>4. ASSUME ~dirty, NEW k \in 1 .. n.range - 1 PROVE Covered(n.bounds[k].id)'
          <5>1. k \in 1 .. g - 1 BY <2>15, <3>5
          <5>2. k \in DOMAIN bounds /\ k < g /\ k # g BY <5>1, SMTT(30)
          <5>3. Covered(bounds[k].id) /\ bounds[k].id \in Convs /\ bounds[k].id # c BY <2>16, <2>17, <4>4, <5>2
          <5>4. cursors'[bounds[k].id] = cursors[bounds[k].id] BY <2>9, <3>1, <5>3
          <5> QED BY <2>14, <3>1, <3>5, <5>3, <5>4 DEF Covered
        <4> QED BY <3>1, <3>5, <4>1, <4>2, <4>3, <4>4 DEF PushRound
      <3>9. WalkRound(n)' BY <1>2, <1>3, <3>1, <3>5 DEF WalkRound
      <3>10. WalkComplete' BY <3>3, <3>5 DEF WalkComplete
      <3> QED BY <1>2, <2>7, <2>8, <3>1, <3>3, <3>5, <3>6, <3>7, <3>8, <3>9, <3>10, RoundGoes
    <2>19. CASE ~(next < b.max)
      <3>1. NextRange(r, cur, r.range + 1) /\ UNCHANGED <<pushed, stored, dirty, moved>> BY <2>4, <2>19
      <3>2. next = b.max BY <1>10, <2>2, <2>19, SMTT(30)
      <3>3. PICK i \in Nat \ {0} : i = g + 1 /\ g < i /\ \A k \in DOMAIN bounds : k < i => k < g \/ k = g
        <4>1. PICK i : i = g + 1 OBVIOUS
        <4>2. i \in Nat \ {0} /\ g < i /\ \A k \in DOMAIN bounds : k < i => k < g \/ k = g BY <4>1, SMTT(30)
        <4> QED BY <4>1, <4>2
      <3>4. NextRange(r, cur, i) BY <2>15, <3>1, <3>3
      <3>5. /\ cursors' \in [Convs -> Nat] /\ \A x \in Convs : Filled(x, cursors[x])'
            /\ \E n : Advanced(r, cur, i, n)
        BY <1>2, <1>3, <2>9, <2>11, <2>12, <3>4, NextRangeFacts
      <3>6. PICK n : Advanced(r, cur, i, n) BY <3>5
      <3>7. ASSUME NEW k \in DOMAIN bounds, k < i PROVE cursors'[bounds[k].id] = cur[bounds[k].id]
        <4>1. PICK x \in Convs : x = bounds[k].id BY <1>3, <2>14, RoundItems, ItemType
        <4>2. \A j \in DOMAIN bounds : bounds[j].id = x => j < i BY <1>3, <2>14, <3>7, <4>1 DEF Distinct
        <4>3. cursors'[x] = cur[x] BY <2>14, <3>6, <4>2 DEF Advanced
        <4> QED BY <4>1, <4>3
      <3>8. ASSUME ~dirty, NEW k \in DOMAIN bounds, k < i PROVE Covered(bounds[k].id)'
        <4>1. cursors'[bounds[k].id] = cur[bounds[k].id] BY <3>7, <3>8
        <4>2. CASE k = g
          <5>1. cursors'[c] = b.max /\ bounds[k].id = c /\ bounds[k] = b BY <1>6, <1>7, <2>9, <2>14, <2>15, <3>2, <4>1, <4>2
          <5>2. \A s \in pushed[c] : s <= b.max BY <1>3, <2>14, <3>8, <5>1 DEF PushRound, PushBounds
          <5> QED BY <3>1, <5>1, <5>2 DEF Covered
        <4>3. CASE k # g
          <5>1. k < g BY <3>3, <3>8, <4>3
          <5>2. bounds[k].id \in Convs /\ bounds[k].id # c BY <2>16, <4>3
          <5>3. cur[bounds[k].id] = cursors[bounds[k].id] BY <2>9, <5>2
          <5>4. Covered(bounds[k].id) BY <2>17, <3>8, <5>1
          <5> QED BY <3>1, <4>1, <5>3, <5>4 DEF Covered
        <4> QED BY <4>2, <4>3
      <3>9. ~dirty => \A k \in DOMAIN r.bounds : k < i => Covered(r.bounds[k].id)' BY <2>14, <3>8
      <3>10. i \in Nat OBVIOUS
      <3> QED BY <1>2, <2>7, <2>8, <2>13, <3>1, <3>5, <3>6, <3>9, <3>10, AdvancedKeeps
    <2> QED BY <2>18, <2>19
  <1> QED BY <1>11, <1>12


-----------------------------------------------------------------------------
(* The inductive invariant and the theorems. *)

(* The tables at the start. *)
LEMMA InitDb ==
  ASSUME Init
  PROVE  /\ DbType(db) /\ clock = 0 /\ db.msgs = <<>> /\ \A c \in Convs : ConvMax(c) = 0 /\ db.convs[c].updated = 0
         /\ \A c \in Convs : HasRow(c) /\ Row(c).min = 1 /\ Row(c).max = 0 /\ Row(c).updated = 0 /\ IsMember(c)
  <1> DEFINE M == [k \in Convs \X {me} |-> [role |-> 1]]
             C == [c \in Convs |-> [max |-> 0, created |-> 0, updated |-> 0]]
             U == [k \in {me} \X Convs |-> NewRow(1, 0, 0)]
  <1>1. db = [users |-> <<>>, groups |-> <<>>, online |-> <<>>, msgs |-> <<>>, members |-> M, convs |-> C, ucs |-> U]
        /\ clock = 0
    BY DEF Init
  <1>2. C \in [Convs -> ConvRow] /\ \A c \in Convs : C[c].max = 0 /\ C[c].updated = 0 BY SMTT(30) DEF ConvRow
  <1>3. PICK row : row = NewRow(1, 0, 0) OBVIOUS
  <1>4. row \in UcRow /\ row.min = 1 /\ row.max = 0 /\ row.updated = 0 BY <1>3, SMTT(30) DEF NewRow, UcRow
  <1>5. /\ DOMAIN U = {me} \X Convs /\ U \in [DOMAIN U -> UcRow] /\ \A c \in Convs : U[<<me, c>>] = row
    BY <1>3, <1>4
  <1>6. DOMAIN M = Convs \X {me} OBVIOUS
  <1> HIDE DEF M, C, U
  <1>7. db.msgs = <<>> /\ db.members = M /\ db.convs = C /\ db.ucs = U /\ IsDb(db) BY <1>1, SMTT(30) DEF IsDb
  <1>8. MsgsType(<<>>)
    <2>1. DOMAIN <<>> = {} BY SMTT(30)
    <2> QED BY <2>1, FS_EmptySet DEF MsgsType
  <1>9. DbType(db) BY <1>2, <1>5, <1>7, <1>8 DEF DbType, ConvsType, UcsType
  <1>10. \A c \in Convs : ConvMax(c) = 0 /\ db.convs[c].updated = 0 BY <1>2, <1>7 DEF ConvMax
  <1>11. \A c \in Convs : HasRow(c) /\ Row(c) = row BY <1>5, <1>7 DEF HasRow, Row
  <1>12. \A c \in Convs : IsMember(c) BY <1>6, <1>7 DEF IsMember
  <1> QED BY <1>1, <1>4, <1>7, <1>9, <1>10, <1>11, <1>12

(* The invariant holds at the start. *)
LEMMA InitInv == ASSUME Init PROVE IInv
  <1> USE InitDb
  <1>1. /\ frames = <<>> /\ cursors = [c \in Convs |-> 0] /\ stored = cursors /\ messages = [c \in Convs |-> {}]
        /\ got = [c \in Convs |-> {}] /\ pushed = [c \in Convs |-> {}] /\ dirty = FALSE /\ ok = FALSE
        /\ round = NewRound
    BY DEF Init
  <1>2. 0 \in Nat /\ 1 <= 0 + 1 /\ 0 <= 0 /\ 0 < FarFuture /\ 1 .. 0 = {} /\ DOMAIN <<>> = {} /\ NowMs(0) = 0
        /\ (0 \div PerMs) * PerMs = 0
    BY WebSyncAssumption, SMTT(30) DEF NowMs
  <1>3. TypeInv
    <2>1. <<>> \in Seq({"push", "resync"} \X Convs \X Nat) BY SMTT(30)
    <2>2. /\ cursors \in [Convs -> Nat] /\ stored \in [Convs -> Nat] /\ messages \in [Convs -> SUBSET Nat]
          /\ got \in [Convs -> SUBSET Nat] /\ pushed \in [Convs -> SUBSET Nat]
      BY <1>1, <1>2
    <2>3. clock \in Nat /\ clock < FarFuture BY <1>2
    <2> QED BY <1>1, <2>1, <2>2, <2>3, NewRoundType DEF TypeInv
  <1>4. TableInv BY <1>2 DEF TableInv
  <1>5. TimeInv BY <1>2 DEF TimeInv, Stamp
  <1>6. \A c \in Convs : cursors[c] = 0 /\ stored[c] = 0 /\ messages[c] = {} /\ pushed[c] = {} BY <1>1
  <1>7. \A r \in round : r.phase = "list" /\ r.at = {} /\ r.bounds = <<>> /\ DOMAIN r.bounds = {}
    BY <1>1, <1>2, NewRoundType
  <1>8. GapInv
    <2>1. \A c \in Convs : Filled(c, 0) BY <1>2 DEF Filled
    <2>2. \A c \in Convs : GapConv(c) BY <1>6, <2>1 DEF GapConv
    <2>3. \A r \in round : GapRound(r) BY <1>7 DEF GapRound
    <2> QED BY <1>1, <1>2, <2>2, <2>3 DEF GapInv
  <1>9. PushInv
    <2>1. \A c \in Convs : PushConv(c) BY <1>6 DEF PushConv
    <2>2. \A r \in round : PushRound(r) BY <1>7 DEF PushRound, PushBounds
    <2>3. PushSurvivesRound BY <1>1 DEF PushSurvivesRound
    <2> QED BY <2>1, <2>2, <2>3 DEF PushInv
  <1>10. WalkInv
    <2>1. \A c \in Convs : Precedes(Place(c), DecodeCursor({}))
      <3>1. clock \in Nat /\ clock < FarFuture BY <1>2
      <3> QED BY <1>5, <3>1, FreshPage
    <2>2. \A r \in round : WalkRound(r) BY <1>7, <2>1 DEF WalkRound, Distinct
    <2>3. WalkComplete BY <1>7 DEF WalkComplete
    <2> QED BY <2>2, <2>3 DEF WalkInv
  <1> QED BY <1>3, <1>4, <1>5, <1>8, <1>9, <1>10 DEF IInv

(* Stuttering keeps the invariant. *)
LEMMA StutterKeeps == ASSUME IInv, UNCHANGED vars PROVE IInv'
  <1>1. UNCHANGED <<db, clock, frames, cursors, stored, messages, got, pushed, dirty, round, ok, missed, moved>>
    BY DEF vars, serverVars, clientVars, timerVars
  <1>2. RoundStays /\ dirty' \in BOOLEAN BY <1>1 DEF RoundStays, IInv, TypeInv
  <1> QED BY <1>1, <1>2, ViewStays, RoundKeeps

(* Every step keeps the invariant. *)
LEMMA NextKeeps == ASSUME IInv, Next PROVE IInv'
  <1>1. Groups \subseteq Convs /\ Active \subseteq Convs BY WebSyncAssumption
  <1>2. CASE Environment
    <2>1. CASE \E c \in Convs : Send(c) BY <2>1, SendKeeps
    <2>2. CASE \E c \in Groups : Leave(c) \/ Join(c) BY <1>1, <2>2, LeaveKeeps, JoinKeeps
    <2>3. CASE \E c \in Active : markRead(c) \/ transmit(c) BY <1>1, <2>3, MarkReadKeeps, TransmitKeeps
    <2>4. CASE Hide \/ offline \/ Disconnect BY <2>4, PausesKeep
    <2>5. CASE Reload BY <2>5, ReloadKeeps
    <2>6. CASE RequestFails BY <2>6, RequestFailsKeeps
    <2> QED BY <1>2, <2>1, <2>2, <2>3, <2>4, <2>5, <2>6 DEF Environment
  <1>3. CASE Rounds
    BY <1>3, ServerAnswers, ListConversationsKeeps, ListBoundsKeeps, ApplyBoundsKeeps, PullRangeKeeps, CommitPageKeeps, EndRoundKeeps DEF Rounds
  <1>4. CASE SyncTimerFires \/ ReconcileTimerFires \/ connect \/ resume BY <1>4, TimersKeep
  <1>5. CASE onmessage BY <1>5, OnMessageKeeps
  <1> QED BY <1>2, <1>3, <1>4, <1>5 DEF Next, EventLoop

(* The inductive invariant. *)
LEMMA Inductive == Spec => []IInv
  <1>1. Init => IInv BY InitInv
  <1>2. IInv /\ [Next]_vars => IInv' BY StutterKeeps, NextKeeps
  <1> QED BY <1>1, <1>2, PTL DEF Spec

(* CursorNoGap: for any conversations, page sizes and clock resolution, the  *)
(* local maximum never covers a visible message this device has not received, *)
(* however pushes, pulled pages, older bounds, rejoins and reloads interleave *)
(* (applyPush, Clamped, NextRange, CommitPage).                               *)
THEOREM CursorsHaveNoGap == Spec => []CursorNoGap
  <1>1. IInv => CursorNoGap
    <2> SUFFICES ASSUME IInv, NEW c \in Convs, NEW s \in Visible(c), s <= cursors[c] PROVE s \in got[c] BY DEF CursorNoGap
    <2>1. Filled(c, cursors[c]) /\ cursors[c] \in Nat BY DEF IInv, GapInv, GapConv, TypeInv
    <2>2. s \in 1 .. MaxSends /\ HasRow(c) /\ Row(c).min <= s BY DEF Visible, Seqs
    <2>3. s \in 1 .. cursors[c]
      <3>1. s \in Int /\ 1 <= s BY <2>2, SMTT(30)
      <3> QED BY <2>1, <3>1, SMTT(30)
    <2> QED BY <2>1, <2>2, <2>3 DEF Filled
  <1> QED BY <1>1, Inductive, PTL

(* PushSurvivesRound: after a round that succeeded no cursor is behind a push *)
(* that was applied, although a round moves cursors to bounds it read before  *)
(* the push (applyPush sets dirty, Finish repeats the round).                 *)
THEOREM PushesSurviveRounds == Spec => []PushSurvivesRound
  <1>1. IInv => PushSurvivesRound BY DEF IInv, PushInv
  <1> QED BY <1>1, Inductive, PTL

(* WalkComplete: a finished walk of the list or the baseline misses only      *)
(* conversations whose row moved while it ran, for any page size, with rows   *)
(* that share a millisecond (ListPage, EncodeCursor, DecodeCursor, NowMs).    *)
THEOREM WalksAreComplete == Spec => []WalkComplete
  <1>1. IInv => WalkComplete BY DEF IInv, WalkInv
  <1> QED BY <1>1, Inductive, PTL
=============================================================================
