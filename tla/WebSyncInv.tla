----------------------------- MODULE WebSyncInv -----------------------------
(*****************************************************************************)
(* The inductive invariant of WebSync: the types of the tables and of the    *)
(* device, what the rows of a table say of the messages below them, and what *)
(* a round, a walk and the pushes in flight owe the cursors.                 *)
(*****************************************************************************)
EXTENDS WebSync

Pairs == Nat \X Nat

\* Row types.
UcRow == [peer : Nat, min : Nat, max : Nat, read : Nat, opt : Nat, pinned : BOOLEAN,
          updated : Nat, created : Nat]
ConvRow == [max : Nat, created : Nat, updated : Nat]
Item == [id : Convs, min : Nat, max : Nat, read : Nat]
Phases == {"list", "bounds", "apply", "ask", "pull", "tail"}

IsDb(d) == d = [users |-> d.users, groups |-> d.groups, online |-> d.online, msgs |-> d.msgs,
                members |-> d.members, convs |-> d.convs, ucs |-> d.ucs]
MsgsType(t) == IsFiniteSet(DOMAIN t) /\ DOMAIN t \subseteq Convs \X Nat
ConvsType(t) == t \in [Convs -> ConvRow]
UcsType(t) == DOMAIN t \subseteq {me} \X Convs /\ t \in [DOMAIN t -> UcRow]

DbType(d) == IsDb(d) /\ MsgsType(d.msgs) /\ ConvsType(d.convs) /\ UcsType(d.ucs)

RoundType(r) ==
    /\ r = [phase |-> r.phase, at |-> r.at, list |-> r.list, bounds |-> r.bounds,
            range |-> r.range, local |-> r.local, answer |-> r.answer]
    /\ r.phase \in Phases
    /\ \A x \in r.at : x \in Nat \X Convs /\ r.at = {x}
    /\ r.bounds \in Seq(Item)
    /\ r.range \in Nat /\ r.local \in Nat
    /\ r.answer \in Seq(Nat)

TypeInv ==
    /\ DbType(db)
    /\ clock \in Nat /\ clock < FarFuture
    /\ frames \in Seq({"push", "resync"} \X Convs \X Nat)
    /\ cursors \in [Convs -> Nat] /\ stored \in [Convs -> Nat]
    /\ messages \in [Convs -> SUBSET Nat]
    /\ got \in [Convs -> SUBSET Nat] /\ pushed \in [Convs -> SUBSET Nat]
    /\ dirty \in BOOLEAN
    /\ \A r \in round : round = {r} /\ RoundType(r)

Top(c) == VisibleMax(Row(c), ConvMax(c))

\* What the tables say of each other.
TableInv ==
    /\ \A k \in DOMAIN db.msgs : 1 <= k[2] /\ k[2] <= ConvMax(k[1])
    /\ \A c \in Convs : HasRow(c) =>
          /\ Row(c).min <= ConvMax(c) + 1 /\ Row(c).max <= ConvMax(c)
          /\ IsMember(c) \/ Row(c).max > 0

BoundOk(b) ==
    /\ b.max <= ConvMax(b.id) /\ b.min <= ConvMax(b.id) + 1
    /\ HasRow(b.id) => b.min <= Row(b.id).min

\* A local maximum m of conversation c covers nothing visible that was not received.
Filled(c, m) == m <= ConvMax(c) /\ \A s \in 1..m : HasRow(c) /\ Row(c).min <= s => s \in got[c]

FrameOk(f) == f[3] <= ConvMax(f[2]) /\ (HasRow(f[2]) => f[3] <= Top(f[2]))

GapConv(c) == Filled(c, cursors[c]) /\ Filled(c, stored[c]) /\ messages[c] \subseteq 1 .. ConvMax(c)

GapRound(r) ==
    /\ \A k \in DOMAIN r.bounds : BoundOk(r.bounds[k])
    /\ r.phase \in {"ask", "pull"} => r.range \in DOMAIN r.bounds /\ Filled(r.bounds[r.range].id, r.local)
    /\ r.phase = "pull" => r.answer # <<>>

GapInv ==
    /\ \A c \in Convs : GapConv(c)
    /\ \A i \in DOMAIN frames : FrameOk(frames[i])
    /\ \A r \in round : GapRound(r)

Covered(c) == \A s \in pushed[c] : s <= cursors[c]

PushConv(c) == \A s \in pushed[c] : s <= ConvMax(c) /\ (HasRow(c) => s <= Top(c))

PushBounds(r) == \A k \in DOMAIN r.bounds : \A s \in pushed[r.bounds[k].id] : s <= r.bounds[k].max

PushRound(r) ==
    /\ r.phase \in {"ask", "pull", "tail"} => \A c \in Convs : Bound(r, c) = {} => c \in missed
    /\ ~dirty =>
          /\ PushBounds(r)
          /\ r.phase \in {"ask", "pull"} =>
                /\ cursors[r.bounds[r.range].id] = r.local
                /\ \A k \in 1 .. r.range - 1 : Covered(r.bounds[k].id)
          /\ r.phase = "tail" => \A k \in DOMAIN r.bounds : Covered(r.bounds[k].id)

PushInv ==
    /\ \A c \in Convs : PushConv(c)
    /\ \A r \in round : PushRound(r)
    /\ PushSurvivesRound

\* Whole milliseconds, not after the latest write.
Stamp(t, now) == t <= now /\ (t \div PerMs) * PerMs = t

TimeInv ==
    \A c \in Convs : /\ Stamp(db.convs[c].updated, NowMs(clock))
                     /\ HasRow(c) => Stamp(Row(c).updated, NowMs(clock))

Place(c) == <<IF HasRow(c) THEN Row(c).updated ELSE NowMs(clock), c>>

Distinct(b) == \A i, j \in DOMAIN b : b[i].id = b[j].id => i = j

WalkRound(r) ==
    /\ \A x \in r.at : x[1] * PerMs <= NowMs(clock)
    /\ Distinct(r.bounds)
    /\ r.phase = "list" => r.bounds = <<>>
    /\ r.phase = "bounds" => (r.bounds = <<>> <=> r.at = {})
    /\ r.phase = "bounds" => 
          \A k \in DOMAIN r.bounds : ~Precedes(Place(r.bounds[k].id), DecodeCursor(r.at))
    /\ \A c \in Convs : HasRow(c) /\ c \notin moved =>
          /\ r.phase = "list" => c \in DOMAIN r.list \/ Precedes(Place(c), DecodeCursor(r.at))
          /\ r.phase = "bounds" => Bound(r, c) # {} \/ Precedes(Place(c), DecodeCursor(r.at))

WalkInv == (\A r \in round : WalkRound(r)) /\ WalkComplete

\* What a step does to the tables.
TableStep ==
    /\ DbType(db') /\ TableInv' /\ TimeInv'
    /\ NowMs(clock) <= NowMs(clock')
    /\ \A x \in Convs :
        /\ ConvMax(x) <= ConvMax(x)'
        /\ HasRow(x)' => \/ HasRow(x) /\ Row(x).min = Row(x)'.min
                         \/ Row(x)'.min = ConvMax(x) + 1
        /\ HasRow(x)' => \A s \in Nat : s <= ConvMax(x) /\ (HasRow(x) => s <= Top(x)) => s <= Top(x)'
        /\ ~Precedes(Place(x)', Place(x))
        /\ round # {} /\ HasRow(x)' /\ x \notin moved' =>
              HasRow(x) /\ Row(x)'.updated = Row(x).updated /\ x \notin moved

IInv == TypeInv /\ TableInv /\ TimeInv /\ GapInv /\ PushInv /\ WalkInv

Frame == {"push", "resync"} \X Convs \X Nat

ListedRow(c) == [id |-> c, uc |-> Row(c), convMax |-> ConvMax(c)]

IsPage(p, cur) ==
    /\ p.rows \in Seq({ListedRow(c) : c \in Convs})
    /\ \A i \in DOMAIN p.rows :
          /\ p.rows[i].id \in Convs /\ HasRow(p.rows[i].id) /\ Precedes(Place(p.rows[i].id), cur)
          /\ p.rows[i].uc = Row(p.rows[i].id) /\ p.rows[i].convMax = ConvMax(p.rows[i].id)
    /\ \A i, j \in DOMAIN p.rows : p.rows[i].id = p.rows[j].id => i = j
    /\ \A x \in p.next : /\ x \in Nat \X Convs /\ p.next = {x} /\ x[1] * PerMs <= NowMs(clock)
                         /\ p.rows # <<>>
    /\ p.next = {} => \A c \in Convs : HasRow(c) /\ Precedes(Place(c), cur) => \E i \in DOMAIN p.rows : p.rows[i].id = c
    /\ p.next # {} =>
          /\ \A c \in Convs : HasRow(c) /\ Precedes(Place(c), cur) =>
                Precedes(Place(c), DecodeCursor(p.next)) \/ \E i \in DOMAIN p.rows : p.rows[i].id = c
          /\ \A i \in DOMAIN p.rows : ~Precedes(Place(p.rows[i].id), DecodeCursor(p.next))
          /\ \A c \in Convs : ~Precedes(Place(c), cur) => ~Precedes(Place(c), DecodeCursor(p.next))

\* What the read services answer, at the place a round has reached.
IsAnswer(a, c) ==
    a.err = Nil => /\ a.val.seqs \in Seq(Nat)
                   /\ \A i \in DOMAIN a.val.seqs : a.val.seqs[i] \in 1 .. ConvMax(c)

Answers ==
    /\ \A r \in round : \A limit, pm \in Nat :
          IsPage(ListPage(db, me, r.at, limit, pm), DecodeCursor(r.at))
    /\ \A c \in Convs : \A begin, end, limit, pm \in Nat :
          IsAnswer(Pull(db, me, c, begin, end, limit, pm), c)
=============================================================================
