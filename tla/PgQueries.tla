------------------------------ MODULE PgQueries ------------------------------
(***************************************************************************)
(* internal/store/pgstore/gen: the SQL of pgstore, one operator per query. *)
(* A :one or :many query is the set or the sequence of its rows, an :exec, *)
(* :execrows or :copyfrom query is a statement of module Rows.             *)
(***************************************************************************)
EXTENDS Rows

\* users.sql.go -------------------------------------------------------------
createUser(users, id, row) == Insert(users, id, row)

getUser(users, id) == At(users, id)

getUserByUsername(users, username) ==
    {<<id, users[id]>> : id \in {i \in DOMAIN users : users[i].username = username}}

getUsers(users, ids) == {<<id, users[id]>> : id \in DOMAIN users \cap ids}

updateUserProfile(users, id, nickname, avatar, now) ==
    Matched(users, [i \in DOMAIN users \cap {id} |->
        [users[i] EXCEPT !.nickname = Coalesce(nickname, @), !.avatar = Coalesce(avatar, @),
                         !.updated = now]])

\* The columns an INSERT does not name take their default: no username, no password.
upsertUser(users, id, nickname, avatar, now) ==
    LET row == IF id \in DOMAIN users
               THEN [users[id] EXCEPT !.nickname = nickname, !.avatar = avatar, !.updated = now]
               ELSE [username |-> 0, nickname |-> nickname, avatar |-> avatar,
                     created |-> now, updated |-> now]
    IN  Done(WithRow(users, id, row), 1)

\* groups.sql.go ------------------------------------------------------------
createGroup(groups, id, row) == Insert(groups, id, row)

getGroup(groups, id) == At(groups, id)

addGroupMember(members, g, u, row) == Insert(members, <<g, u>>, row)

addGroupMembers(members, rows) == InsertAll(members, rows)

removeGroupMember(members, g, u) == Delete(members, {<<g, u>>})

getGroupMember(members, g, u) == At(members, <<g, u>>)

listGroupMembers(members, g) ==
    LET sorted == Ascending({<<members[k].joined, k[2]>> : k \in {m \in DOMAIN members : m[1] = g}})
    IN  [i \in DOMAIN sorted |-> <<sorted[i][2], members[<<g, sorted[i][2]>>]>>]

countGroupMembers(members, g) == Cardinality({k \in DOMAIN members : k[1] = g})

\* ORDER BY joined_at alone leaves ties open: the ids are given per joining time.
listUserGroupIds(members, u) ==
    {<<members[k].joined, k[1]>> : k \in {m \in DOMAIN members : m[2] = u}}

\* conversations.sql.go -----------------------------------------------------
insertConversationIfMissing(convs, c, now) ==
    IF c \in DOMAIN convs THEN Done(convs, 0)
    ELSE Insert(convs, c, [max |-> 0, created |-> now, updated |-> now])

lockConversation(convs, c) == At(convs, c)

getConversation(convs, c) == At(convs, c)

getUserConversation(ucs, o, c) == At(ucs, <<o, c>>)

getUserConversationRow(ucs, convs, o, c) ==
    {[uc |-> u, convMax |-> v.max] : u \in At(ucs, <<o, c>>), v \in At(convs, c)}

upsertUserConversation(ucs, o, c, row) ==
    LET k == <<o, c>>
    IN  Done(WithRow(ucs, k, IF k \in DOMAIN ucs
                             THEN [ucs[k] EXCEPT !.min = row.min, !.max = row.max, !.read = row.read,
                                                 !.updated = row.updated]
                             ELSE [row EXCEPT !.created = row.updated]), 1)

createUserConversations(ucs, rows) == InsertAll(ucs, rows)

setUserConversationMaxSeq(ucs, o, c, max) ==
    Matched(ucs, [k \in DOMAIN ucs \cap {<<o, c>>} |-> [ucs[k] EXCEPT !.max = max]])

deleteUserConversation(ucs, o, c) == Delete(ucs, {<<o, c>>})

setUserConversationOpt(ucs, o, c, opt, pinned) ==
    Matched(ucs, [k \in DOMAIN ucs \cap {<<o, c>>} |->
        [ucs[k] EXCEPT !.opt = Coalesce(opt, @), !.pinned = Coalesce(pinned, @)]])

visibleOwners(ucs, c, owners, seq) ==
    {o \in owners : \E u \in At(ucs, <<o, c>>) : u.min <= seq /\ (u.max = 0 \/ seq <= u.max)}

mutedOwners(ucs, c, owners) == {o \in owners : \E u \in At(ucs, <<o, c>>) : u.opt # 0}

\* messages.sql.go ----------------------------------------------------------
getMessageByClientId(msgs, c, sender, client) ==
    {msgs[k] : k \in {m \in DOMAIN msgs :
                        m[1] = c /\ msgs[m].sender = sender /\ msgs[m].client = client}}

\* ON CONFLICT DO NOTHING, whichever of the three unique keys conflicts.
insertMessage(msgs, c, seq, row) ==
    LET conflict == \E k \in DOMAIN msgs :
            \/ k = <<c, seq>>
            \/ msgs[k].server = row.server
            \/ k[1] = c /\ msgs[k].sender = row.sender /\ msgs[k].client = row.client
    IN  IF conflict THEN Done(msgs, 0) ELSE Insert(msgs, <<c, seq>>, row)

setConversationMaxSeq(convs, c, max, now) ==
    Matched(convs, [k \in DOMAIN convs \cap {c} |->
        [convs[k] EXCEPT !.max = max, !.updated = now]])

listMessages(msgs, c, begin, end, n) ==
    LET sorted == Ascending({m \in DOMAIN msgs : m[1] = c /\ m[2] >= begin /\ m[2] <= end})
    IN  Limit([i \in DOMAIN sorted |-> <<sorted[i][2], msgs[sorted[i]]>>], n)

getMessages(msgs, keys) == {<<k, msgs[k]>> : k \in DOMAIN msgs \cap Elements(keys)}

touchUserConversation(ucs, o, c, peer, read, now) ==
    LET k == <<o, c>>
    IN  Done(WithRow(ucs, k, IF k \in DOMAIN ucs
                             THEN [ucs[k] EXCEPT !.updated = Larger(@, now), !.read = Larger(@, read)]
                             ELSE [peer |-> peer, min |-> 1, max |-> 0, read |-> read, opt |-> 0,
                                   pinned |-> FALSE, updated |-> now, created |-> now]), 1)

touchConversationMembers(ucs, c, now) ==
    Matched(ucs, [k \in {m \in DOMAIN ucs : m[2] = c /\ ucs[m].max = 0} |->
        [ucs[k] EXCEPT !.updated = Larger(@, now)]])

advanceReadSeq(ucs, o, c, read) ==
    Matched(ucs, [k \in DOMAIN ucs \cap {<<o, c>>} |-> [ucs[k] EXCEPT !.read = Larger(@, read)]])

\* The INNER JOIN drops a row whose conversation is missing.
listUserConversations(ucs, convs, o, cursor, n) ==
    LET of == {k \in DOMAIN ucs : k[1] = o /\ k[2] \in DOMAIN convs}
        sorted == Descending({s \in {<<ucs[k].updated, k[2]>> : k \in of} : Precedes(s, cursor)})
    IN  Limit([i \in DOMAIN sorted |->
                 LET c == sorted[i][2]
                 IN  [id |-> c, uc |-> ucs[<<o, c>>], convMax |-> convs[c].max]], n)

\* online_conns.sql.go ------------------------------------------------------
upsertOnlineConn(online, conn, row) == Done(WithRow(online, conn, row), 1)

deleteOnlineConn(online, conn) == Delete(online, {conn})

deleteOnlineConnsByNode(online, node) ==
    Delete(online, {k \in DOMAIN online : online[k].node = node})

renewOnlineConns(online, node, conns, now) ==
    Matched(online, [k \in {m \in DOMAIN online : online[m].node = node /\ m \in conns} |->
        [online[k] EXCEPT !.beat = now]])

listOnlineConns(online, users, since) ==
    {<<k, online[k]>> : k \in {m \in DOMAIN online : online[m].user \in users /\ online[m].beat > since}}
=============================================================================
