----------------------------- MODULE ReadService -----------------------------
(***************************************************************************)
(* The read side of the conversation and message services, over the store: *)
(* the visible range, the page walk by (updated_at, conversation_id), the  *)
(* conversation list, the sync baseline (MaxSeqs), Pull and MarkRead.      *)
(* Times are counted in ticks, PerMs of them in a millisecond: the store   *)
(* keeps ticks, a page cursor carries milliseconds.                        *)
(***************************************************************************)
EXTENDS PgStore

CONSTANTS PerMs,     \* clock ticks per millisecond
          FarFuture  \* FirstPage: a time after every row's

\* Mutant: the clock's reading as it is.
NowMsExact(clock) == clock

\* store.NowMs: what every service stamps its rows with.
NowMs(clock) == clock - (clock % PerMs)

VisibleMax(uc, convMax) == IF uc.max > 0 /\ uc.max < convMax THEN uc.max ELSE convMax

VisibleRange(uc, convMax, begin, end) ==
    LET top == VisibleMax(uc, convMax)
    IN  <<Larger(begin, uc.min), IF end < top THEN end ELSE top>>

\* A page cursor: {} for the empty string, {<<milliseconds, id>>} otherwise.
EncodeCursor(row) == {<<row.uc.updated \div PerMs, row.id>>}

DecodeCursor(cursor) ==
    IF cursor = {} THEN <<FarFuture, 0>>
    ELSE LET c == CHOOSE x \in cursor : TRUE IN <<c[1] * PerMs, c[2]>>

\* A limit the caller leaves out, or sets above the page, is the page's.
PageLimit(limit, pageMax) ==
    LET most == Larger(pageMax, 1) IN IF limit <= 0 \/ limit > most THEN most ELSE limit

ListPage(db, user, cursor, limit, pageMax) ==
    LET n == PageLimit(limit, pageMax)
        found == ListUserConversations(db, user, DecodeCursor(cursor), n + 1)
        rows == CHOOSE r \in found.val : TRUE
    IN  IF Len(rows) <= n THEN [rows |-> rows, next |-> {}]
        ELSE [rows |-> Limit(rows, n), next |-> EncodeCursor(rows[n])]

\* message.go ---------------------------------------------------------------
MaxSeqItem(r) == [id |-> r.id, min |-> r.uc.min, max |-> VisibleMax(r.uc, r.convMax), read |-> r.uc.read]

MaxSeqs(db, user, cursor, limit, pageMax) ==
    LET page == ListPage(db, user, cursor, limit, pageMax)
    IN  [items |-> [i \in DOMAIN page.rows |-> MaxSeqItem(page.rows[i])], next |-> page.next]

\* The seqs of [begin, end] that the caller may see, a page of them.
Pull(db, user, c, begin, end, limit, pageMax) ==
    LET row == GetUserConversationRow(db, user, c)
    IN  IF begin < 1 \/ end < begin THEN Fails(db, "invalid_param")
        ELSE IF row.err # Nil THEN Fails(db, "no_permission")
        ELSE LET r == CHOOSE x \in row.val : TRUE
                 range == VisibleRange(r.uc, r.convMax, begin, end)
                 n == PageLimit(limit, pageMax)
                 rows == CHOOSE x \in ListMessages(db, c, range[1], range[2], n + 1).val : TRUE
             IN  IF range[1] > range[2] THEN Returns(db, [seqs |-> <<>>, more |-> FALSE])
                 ELSE Returns(db, [seqs |-> [i \in DOMAIN Limit(rows, n) |-> rows[i][1]],
                                   more |-> Len(rows) > n])

\* conversation.go ----------------------------------------------------------
itemFromRow(r) ==
    LET top == VisibleMax(r.uc, r.convMax)
    IN  [id |-> r.id, min |-> r.uc.min, max |-> top, read |-> r.uc.read,
         unread |-> Larger(top - r.uc.read, 0)]

\* The message at the visible maximum, if the visible range holds one.
lastMessageKey(item) == IF item.max < item.min THEN {} ELSE {<<item.id, item.max>>}

List(db, user, cursor, limit, pageMax) ==
    LET page == ListPage(db, user, cursor, limit, pageMax)
        item(i) == itemFromRow(page.rows[i])
        keys == UNION {lastMessageKey(item(i)) : i \in DOMAIN page.rows}
        msgs == {m[1] : m \in GetMessages(db, Ascending(keys)).val}
    IN  [items |-> [i \in DOMAIN page.rows |->
                      [item |-> item(i), last |-> {k[2] : k \in lastMessageKey(item(i)) \cap msgs}]],
         next |-> page.next]

MarkRead(db, user, c, readSeq) ==
    LET row == GetUserConversationRow(db, user, c)
        r == CHOOSE x \in row.val : TRUE
        target == VisibleRange(r.uc, r.convMax, 1, readSeq)[2]
    IN  IF readSeq < 1 THEN Fails(db, "invalid_param")
        ELSE IF row.err # Nil THEN Fails(db, "no_permission")
        ELSE IF target <= r.uc.read THEN Returns(db, r.uc.read)
        ELSE Returns(AdvanceReadSeq(db, user, c, target).db, target)
=============================================================================
