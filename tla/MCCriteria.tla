----------------------------- MODULE MCCriteria -----------------------------
(***************************************************************************)
(* Instance of Criteria for TLC: four rows with a tie in every column, an  *)
(* int of four bits, pages of two or three rows.  Letter 0 is a blank, 11  *)
(* the capital of 1.                                                       *)
(***************************************************************************)
EXTENDS Criteria

Letters == {0, 1, 2, 11}
LowerCase == [l \in Letters |-> IF l = 11 THEN 1 ELSE l]

Whole(n) == [Nil EXCEPT !.kind = "int", !.num = n]
Float(n) == [Nil EXCEPT !.kind = "float", !.num = n]
List(s) == [Nil EXCEPT !.kind = "list", !.items = s]
Strings(s) == [Nil EXCEPT !.kind = "strings", !.items = s]
Pattern(w, s) == [Text(s) EXCEPT !.wild = w]

A == Text(<<1>>)
BigA == Text(<<11>>)
AB == Text(<<1, 2>>)

Row(id, name, price, active) ==
  [id |-> Whole(id), name |-> name, price |-> Whole(price), active |-> Bool(active),
   created_at |-> Whole(10 - id)]

Rows == <<Row(1, AB, 2, 1), Row(2, BigA, 0, 0), Row(3, A, 2, 1),
          Row(4, Text(<<2, 0, 1>>), 1, 0)>>

Columns == [f \in {"name", "NAME", "price", "active", "created_at", "owner", "n;", ""} |->
              CASE f \in {"owner", "n;", ""} -> None [] f = "NAME" -> "name" [] OTHER -> f]
Names == {"name", "NAME", "price", "active", "created_at", "owner"}

Ids == {<<2, 2>>}
True == <<1>>
False == <<2>>

Call(f, op, v) == [field |-> f, op |-> op, value |-> v]

FilterChoices ==
  {Call("name", "!=", A), Call("name", "LIKE", AB), Call("NAME", "NOT LIKE", A),
   Call("name", "CONTAINS", Text(<<>>)), Call("name", "CONTAINS", Text(<<0, 1>>)),
   Call("name", "NOT CONTAINS", Pattern({"tail"}, <<1>>)), Call("name", "IN", Strings(<<A>>)),
   Call("name", "IN", List(<<>>)), Call("name", "NOT IN", List(<<A, AB>>)),
   Call("price", ">", Whole(1)), Call("price", ">=", Float(1)), Call("price", "<", Whole(2)),
   Call("price", "<=", A), Call("price", "IS NULL", Nil), Call("active", "IS NOT NULL", A),
   Call("created_at", "IS NOT NULL", Nil), Call("price", "ARRAY_CONTAINS", Whole(2)),
   Call("price", "=", Nil), Call("price", "BETWEEN", Whole(2)), Call("price", "BETWEEN", Nil),
   Call("owner", "=", A), Call("n;", "=", A)}

HelperChoices ==
  {[field |-> "name", value |-> v] :
     v \in {Text(<<>>), BigA, Pattern({"head"}, <<1>>), List(<<A, BigA>>), Text(<<2, 2>>)}}
  \cup {[field |-> "active", value |-> v] : v \in {Text(<<1>>), Text(<<2>>), Bool(1)}}

OrderChoices == {[field |-> "price", dir |-> "ASC"], [field |-> "name", dir |-> "up"],
                 [field |-> "", dir |-> "DESC"]}
PageChoices == {[page |-> 0, size |-> 9], [page |-> 2, size |-> 3]}

Query(p, s, by, dir, fs) == [page |-> p, size |-> s, sortBy |-> by, sortDir |-> dir, filters |-> fs]
URLs ==
  {Query(7, 0, "", "", [f \in {"name", "price"} |-> A]),
   Query(0, 1, "n;", "ASC", [f \in {"active"} |-> Text(<<>>)])}

WhiteLists == {{}, {"name", "price", "active"}}
=============================================================================
