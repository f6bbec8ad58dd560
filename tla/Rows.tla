-------------------------------- MODULE Rows --------------------------------
(***************************************************************************)
(* Tables and SQL statements, as the three stores use them.  A table is a  *)
(* function from primary keys to rows; a statement is a value              *)
(*   [tab |-> the table after it, n |-> rows it reports, err |-> its error]*)
(* and a call of the Store interface is a value                            *)
(*   [db |-> the tables after it, err |-> its error, val |-> what it       *)
(*    returns, as a set: empty when it returns nothing].                   *)
(* The database engines are outside the repository.  They are modelled by  *)
(* what the statements in internal/store rely on: unique keys, the number  *)
(* of rows a statement reports, and that a failing statement changes       *)
(* nothing.  Ids compare as the code's strings do, so they are numbers     *)
(* here; MySQL's trailing-space collation is left out.                     *)
(***************************************************************************)
EXTENDS Integers, FiniteSets, Sequences

Nil == "nil"

\* The row with key k, as the set of rows a SELECT by that key returns.
At(t, k) == IF k \in DOMAIN t THEN {t[k]} ELSE {}

\* COALESCE(v, old): a pointer argument is a set, empty when the pointer is nil,
\* and a nil one keeps the old value.
Coalesce(v, old) == IF v = {} THEN old ELSE CHOOSE x \in v : TRUE

Larger(a, b) == IF a >= b THEN a ELSE b

\* Table t with the rows of "new" in it, and with one row.
With(t, new) ==
    [k \in DOMAIN t \cup DOMAIN new |-> IF k \in DOMAIN new THEN new[k] ELSE t[k]]

WithRow(t, k, row) == With(t, [x \in {k} |-> row])

Duplicate(t) == [tab |-> t, n |-> 0, err |-> "unique_violation"]

Done(t, k) == [tab |-> t, n |-> k, err |-> Nil]

\* INSERT of one row, and of several rows in one statement: all or none.
Insert(t, k, row) == IF k \in DOMAIN t THEN Duplicate(t) ELSE Done(WithRow(t, k, row), 1)

InsertAll(t, new) ==
    IF DOMAIN new \cap DOMAIN t # {} THEN Duplicate(t) ELSE Done(With(t, new), Cardinality(DOMAIN new))

\* DELETE of the rows with the keys in K.
Delete(t, K) ==
    Done([k \in DOMAIN t \ K |-> t[k]], Cardinality(K \cap DOMAIN t))

\* UPDATE that gives the rows of "new" their new value: PostgreSQL reports the
\* rows it matched, MySQL only the rows whose value really changed.
Matched(t, new) == Done(With(t, new), Cardinality(DOMAIN new))

Changed(t, new) == Done(With(t, new), Cardinality({k \in DOMAIN new : new[k] # t[k]}))

\* Row comparison (a, b) < (c, d), and ORDER BY with it over a set of pairs.
Precedes(x, y) == x[1] < y[1] \/ (x[1] = y[1] /\ x[2] < y[2])

Rank(S, x) == Cardinality({y \in S : Precedes(y, x)})

Ascending(S) == [i \in 1..Cardinality(S) |-> CHOOSE x \in S : Rank(S, x) = i - 1]

Descending(S) == [i \in 1..Cardinality(S) |-> CHOOSE x \in S : Rank(S, x) = Cardinality(S) - i]

\* The values a list of arguments holds.
Elements(seq) == {seq[i] : i \in DOMAIN seq}

Limit(seq, n) == SubSeq(seq, 1, IF Len(seq) < n THEN Len(seq) ELSE n)

\* Result of a Store call.
Returns(db, val) == [db |-> db, err |-> Nil, val |-> val]

Fails(db, e) == [db |-> db, err |-> e, val |-> {}]
=============================================================================
