------------------------------ MODULE Criteria ------------------------------
(***************************************************************************)
(* The criteria package: a listing is described with CriteriaBuilder (from *)
(* the query of a URL and by calls), sanitized, and then answered twice    *)
(* over: SQLCriteriaConverter turns it into conditions with numbered       *)
(* placeholders and parameters, ApplyInMemory filters, sorts and cuts a    *)
(* slice.  A client walks the pages of the answer.                         *)
(*                                                                         *)
(* A Go value is a record of its dynamic type and contents.  The text of a *)
(* string is a sequence of letters; the wildcards of a pattern are kept    *)
(* apart and stand at its ends only.                                       *)
(***************************************************************************)
EXTENDS Integers, Sequences, SequencesExt

CONSTANTS
  Items,           \* the rows, also the slice given to ApplyInMemory
  Resolve,         \* field name -> the column it names, None if there is none
  ValidNames,      \* the field names that match validFieldNameRegex
  Lower,           \* letter -> its lower case
  UUIDs,           \* the texts that uuid.Parse accepts
  TrueText, FalseText,  \* the texts "true" and "false"
  MaxInt,          \* the largest int
  DefaultPageSize, MaxPageSize,  \* 10 and 100 in the code
  FilterCalls,     \* bound: the arguments of WithFilter
  HelperCalls,     \* bound: the arguments of the Add...Filter helpers
  OrderCalls,      \* bound: the arguments of WithOrder and SetOrder
  PageCalls,       \* bound: the arguments of WithPagination
  Queries,         \* bound: the URL queries
  Whitelists,      \* bound: the allowedFields of services
  MaxFilters, MaxOrders,  \* bounds: filters and orders in one builder
  None

ASSUME PageSizeAssumption ==
  /\ DefaultPageSize \in Nat \ {0} /\ MaxPageSize \in Nat /\ MaxInt \in Nat
  /\ DefaultPageSize =< MaxPageSize /\ MaxPageSize =< MaxInt

ASSUME WhitelistAssumption ==
  /\ "created_at" \in ValidNames
  /\ \A fields \in Whitelists : fields \subseteq ValidNames

ASSUME CallAssumption ==
  /\ "created_at" \in DOMAIN Resolve
  /\ \A a \in OrderCalls : a.field \in DOMAIN Resolve
  /\ \A a \in PageCalls : a.page \in Int /\ a.size \in Int
  /\ \A q \in Queries : /\ q.page \in Int /\ q.size \in Int
                       /\ q.sortBy \in DOMAIN Resolve \cup {""}
                       /\ IsFiniteSet(DOMAIN q.filters)

VARIABLES
  stage,    \* "building", "built", "sanitized", "refused" or "paging"
  builder,  \* the CriteriaBuilder
  crit,     \* the Criteria it built, None before
  allowed,  \* the whitelist it was sanitized with, {} for none
  seen      \* the items of the pages read so far

vars == <<stage, builder, crit, allowed, seen>>

-----------------------------------------------------------------------------
(* Values.                                                                 *)

Nil == [kind |-> "nil", text |-> <<>>, wild |-> {}, num |-> 0, items |-> <<>>]
Text(s) == [Nil EXCEPT !.kind = "string", !.text = s]
Bool(n) == [Nil EXCEPT !.kind = "bool", !.num = n]
EmptyText == Text(<<>>)

IsText(v) == v.kind = "string"
IsNumber(v) == v.kind \in {"int", "float"}

\* A record with these fields, its items a sequence.
IsValue(v) ==
  /\ v = [kind |-> v.kind, text |-> v.text, wild |-> v.wild, num |-> v.num,
          items |-> v.items]
  /\ v.items \in Seq(ToSet(v.items))

ASSUME ValueAssumption ==
  /\ \A a \in FilterCalls \cup HelperCalls : IsValue(a.value)
  /\ \A q \in Queries : \A field \in DOMAIN q.filters : IsValue(q.filters[field])

\* The rows are distinct and leave room in an int for one more page.
ASSUME ItemAssumption ==
  /\ Items \in Seq(ToSet(Items)) /\ IsInjective(Items)
  /\ Len(Items) + MaxPageSize =< MaxInt

\* A column is a field of a struct: its values have one type.
ASSUME ColumnAssumption ==
  /\ Lower \in [DOMAIN Lower -> Int]
  /\ \A field \in DOMAIN Resolve : Resolve[field] # None =>
       LET values == {item[Resolve[field]] : item \in ToSet(Items)}
       IN \/ \A v \in values : IsNumber(v) /\ v.num \in Int
          \/ \A v \in values : IsText(v) /\ v.text \in Seq(DOMAIN Lower)
          \/ \A v \in values : ~IsNumber(v) /\ ~IsText(v)

IsZero(v) == v.num = 0 /\ v.text = <<>> /\ v.wild = {} /\ v.items = <<>>

\* "%" is put around a string that has none.
Wrapped(v) == IF IsText(v) /\ v.wild = {} THEN [v EXCEPT !.wild = {"head", "tail"}]
                                          ELSE v

NewFilter(field, op, value) == [field |-> field, op |-> op, value |-> value]

\* Mutant of NewOrder: the direction is taken as it is.
NewOrderAsIs(field, dir) == [field |-> field, dir |-> dir]

NewOrder(field, dir) ==
  [field |-> field, dir |-> IF dir \in {"ASC", "DESC"} THEN dir ELSE "DESC"]

\* The result of int arithmetic: it wraps around.
Wrap(n) == ((n + MaxInt + 1) % (2 * (MaxInt + 1))) - (MaxInt + 1)

NewPagination(page, pageSize) ==
  LET p == IF page < 1 THEN 1 ELSE page
      s == IF pageSize < 1 THEN DefaultPageSize
           ELSE IF pageSize > MaxPageSize THEN MaxPageSize
           ELSE pageSize
  IN [page |-> p, pageSize |-> s, limit |-> s, offset |-> Wrap((p - 1) * s)]

GetTotalPages(pagination, total) ==
  IF pagination.pageSize = 0 THEN 0
  ELSE (total + pagination.pageSize - 1) \div pagination.pageSize

-----------------------------------------------------------------------------
(* The builder.                                                            *)

NewCriteriaBuilder ==
  [filters |-> <<>>, orders |-> <<>>, page |-> 1, pageSize |-> DefaultPageSize,
   orderField |-> "created_at", orderDir |-> "DESC"]

Init ==
  /\ stage = "building"
  /\ builder = NewCriteriaBuilder
  /\ crit = None
  /\ allowed = {}
  /\ seen = <<>>

Building(b) ==
  /\ stage = "building"
  /\ Len(b.filters) =< MaxFilters /\ Len(b.orders) =< MaxOrders
  /\ builder' = b
  /\ UNCHANGED <<stage, crit, allowed, seen>>

WithFilter(field, op, value) ==
  Building([builder EXCEPT !.filters = Append(@, NewFilter(field, op, value))])

AddEqualFilter(field, value) ==
  value # EmptyText /\ WithFilter(field, "=", value)

\* The helpers that name an operator and take the value as it is.
AddOperatorFilter(field, op, value) ==
  /\ op \in {"!=", "ARRAY_CONTAINS", ">", ">=", "<", "<="}
  /\ WithFilter(field, op, value)

AddLikeFilter(field, value) ==
  IsText(value) /\ value # EmptyText /\ WithFilter(field, "LIKE", Wrapped(value))

AddInFilter(field, value) ==
  value.kind = "list" /\ value.items # <<>> /\ WithFilter(field, "IN", value)

AddUUIDFilter(field, value) ==
  value \in {Text(id) : id \in UUIDs} /\ WithFilter(field, "=", value)

AddBoolFilter(field, value) ==
  \/ value = Text(TrueText) /\ WithFilter(field, "=", Bool(1))
  \/ value = Text(FalseText) /\ WithFilter(field, "=", Bool(0))
  \/ value.kind = "bool" /\ WithFilter(field, "=", value)

WithOrder(field, dir) ==
  Building([builder EXCEPT !.orders = Append(@, NewOrder(field, dir))])

SetOrder(field, dir) ==
  field # "" /\ Building([builder EXCEPT !.orderField = field, !.orderDir = dir])

\* What WithPagination and FromURLValues accept.
PageOf(page) == IF page > 0 THEN page ELSE builder.page
PageSizeOf(size) ==
  IF size > 0 /\ size =< MaxPageSize THEN size ELSE builder.pageSize

WithPagination(page, size) ==
  Building([builder EXCEPT !.page = PageOf(page), !.pageSize = PageSizeOf(size)])

(***************************************************************************)
(* A URL query q: page and size are 0 where the text is absent or no       *)
(* number; q.filters holds the filter_<field> parameters, a Go map that is *)
(* read in any order.                                                      *)
(***************************************************************************)
FromURLValues(q) ==
  LET named == {f \in DOMAIN q.filters : q.filters[f] # EmptyText}
  IN \E order \in SetToSeqs(named) :
       Building([builder EXCEPT
         !.page = PageOf(q.page),
         !.pageSize = PageSizeOf(q.size),
         !.orderField = IF q.sortBy = "" THEN @ ELSE q.sortBy,
         !.orderDir = IF q.sortDir = "" THEN @
                      ELSE IF q.sortDir = "ASC" THEN "ASC" ELSE "DESC",
         !.filters = @ \o [i \in DOMAIN order |->
                            NewFilter(order[i], "=", q.filters[order[i]])]])

Orders(b) ==
  IF b.orders # <<>> THEN b.orders
  ELSE IF b.orderField # "" THEN <<NewOrder(b.orderField, b.orderDir)>>
  ELSE <<NewOrder("created_at", "DESC")>>

Build ==
  /\ stage = "building"
  /\ stage' = "built"
  /\ crit' = [filters |-> builder.filters, orders |-> Orders(builder),
              pagination |-> NewPagination(builder.page, builder.pageSize)]
  /\ builder' = NewCriteriaBuilder
  /\ UNCHANGED <<allowed, seen>>

-----------------------------------------------------------------------------
(* The validator.                                                          *)

\* The loop that appends what it keeps: the elements of s that are in S.
Keeping(s, S) ==
  LET kept[n \in 0 .. Len(s)] ==
        IF n = 0 THEN <<>>
        ELSE IF s[n] \in S THEN Append(kept[n - 1], s[n]) ELSE kept[n - 1]
  IN kept[Len(s)]

Comparisons == {">", ">=", "<", "<="}
Likes == {"LIKE", "NOT LIKE", "CONTAINS", "NOT CONTAINS"}

RequiresValue ==
  {"=", "!=", "IN", "NOT IN", "ARRAY_CONTAINS"} \cup Comparisons \cup Likes

Validate(c) ==
  /\ \A i \in DOMAIN c.filters : /\ c.filters[i].field \in ValidNames
                                 /\ c.filters[i].op \in RequiresValue =>
                                      c.filters[i].value # Nil
  /\ \A i \in DOMAIN c.orders : /\ c.orders[i].field \in ValidNames
                                /\ c.orders[i].dir \in {"ASC", "DESC"}
  /\ c.pagination.limit # 0 => c.pagination.limit > 0 /\ c.pagination.offset >= 0

SanitizedOrders(orders, fields) ==
  LET kept == Keeping(orders, {o \in ToSet(orders) : o.field # "" /\ o.field \in fields})
  IN IF kept = <<>> /\ orders # <<>> THEN <<NewOrder("created_at", "DESC")>>
                                     ELSE kept

Sanitize(c, fields) ==
  IF fields = {} THEN c
  ELSE [c EXCEPT !.filters = Keeping(@, {g \in ToSet(@) : g.field \in fields}),
                 !.orders = SanitizedOrders(@, fields)]

\* EntityCriteriaHelper: without validation, in spite of the name.
ValidateAndSanitizeCriteria(fields) ==
  /\ stage = "built"
  /\ stage' = "sanitized"
  /\ crit' = Sanitize(crit, fields)
  /\ allowed' = fields
  /\ UNCHANGED <<builder, seen>>

\* GinHelper.
ValidateAndSanitize(fields) ==
  \/ stage = "built" /\ Validate(crit) /\ ValidateAndSanitizeCriteria(fields)
  \/ /\ stage = "built" /\ ~Validate(crit)
     /\ stage' = "refused"
     /\ crit' = None
     /\ UNCHANGED <<builder, allowed, seen>>

-----------------------------------------------------------------------------
(* The SQL converter.                                                      *)

SQLOperator(op) ==
  CASE op \in {"=", "!=", "IN", "NOT IN", "IS NULL", "IS NOT NULL"}
             \cup Comparisons                   -> op
    [] op \in {"LIKE", "CONTAINS"}              -> "ILIKE"
    [] op \in {"NOT LIKE", "NOT CONTAINS"}      -> "NOT ILIKE"
    [] op = "ARRAY_CONTAINS"                    -> "@>"
    [] OTHER                                    -> "="

\* A condition with the numbers of its placeholders.
Condition(f, slots) == [field |-> f.field, op |-> SQLOperator(f.op), slots |-> slots]

\* Mutant of ExpandIn: every value of the list takes the first placeholder.
ExpandInOnce(clause, f) ==
  [conditions |-> Append(clause.conditions,
                         Condition(f, [i \in DOMAIN f.value.items |-> clause.next])),
   params |-> clause.params \o f.value.items,
   next |-> clause.next + Len(f.value.items)]

\* One placeholder and one parameter for each value of the list.
ExpandIn(clause, f) ==
  [conditions |-> Append(clause.conditions,
                         Condition(f, [i \in DOMAIN f.value.items |->
                                         clause.next + i - 1])),
   params |-> clause.params \o f.value.items,
   next |-> clause.next + Len(f.value.items)]

\* Mutant of ParameterOf: patterns go to the database as they are.
ParameterAsIs(f) == IF f.op \in {"IS NULL", "IS NOT NULL"} THEN Nil ELSE f.value

ParameterOf(f) ==
  CASE f.op \in Likes                      -> Wrapped(f.value)
    [] f.op \in {"IS NULL", "IS NOT NULL"} -> Nil
    [] OTHER                               -> f.value

SlotsOf(clause, f) ==
  IF f.op \in {"IS NULL", "IS NOT NULL"} THEN <<>> ELSE <<clause.next>>

ProcessFilterWithIndex(clause, f) ==
  [conditions |-> Append(clause.conditions, Condition(f, SlotsOf(clause, f))),
   params |-> IF ParameterOf(f) = Nil THEN clause.params
                                      ELSE Append(clause.params, ParameterOf(f)),
   next |-> IF ParameterOf(f) = Nil THEN clause.next ELSE clause.next + 1]

\* A list that is empty, or no []interface{}, leaves no condition behind.
Dropped(f) ==
  f.op \in {"IN", "NOT IN"} /\ (f.value.kind # "list" \/ f.value.items = <<>>)

Extend(clause, f) ==
  IF Dropped(f) THEN clause
  ELSE IF f.op \in {"IN", "NOT IN"} THEN ExpandIn(clause, f)
  ELSE ProcessFilterWithIndex(clause, f)

EmptyClause == [conditions |-> <<>>, params |-> <<>>, next |-> 1]

BuildWhereClause(filters) ==
  LET clause[n \in 0 .. Len(filters)] ==
        IF n = 0 THEN EmptyClause ELSE Extend(clause[n - 1], filters[n])
  IN clause[Len(filters)]

ToCountSQL(c) ==
  IF ~Validate(c) THEN [err |-> TRUE]
  ELSE [err |-> FALSE, where |-> BuildWhereClause(c.filters)]

ToSelectSQL(c) ==
  IF ~Validate(c) THEN [err |-> TRUE]
  ELSE [err |-> FALSE, where |-> BuildWhereClause(c.filters), orders |-> c.orders,
        limit |-> c.pagination.limit, offset |-> c.pagination.offset]

-----------------------------------------------------------------------------
(* The filter in memory.                                                   *)

ToLower(s) == [i \in DOMAIN s |-> Lower[s[i]]]

TrimBlanks(s) ==
  LET ink == {i \in DOMAIN s : s[i] # 0}
  IN IF ink = {} THEN <<>>
     ELSE SubSeq(s, CHOOSE i \in ink : \A j \in ink : i =< j,
                    CHOOSE i \in ink : \A j \in ink : j =< i)

HasSubSeq(s, t) == \E i \in 0 .. Len(s) - Len(t) : SubSeq(s, i + 1, i + Len(t)) = t

MatchLike(v, pattern) ==
  /\ IsText(v) /\ IsText(pattern)
  /\ HasSubSeq(ToLower(v.text), ToLower(TrimBlanks(pattern.text)))

MatchIn(v, value) == IF value.kind \in {"list", "strings"}
                     THEN \E i \in DOMAIN value.items : value.items[i] = v
                     ELSE v = value

CompareNumeric(op, v, w) ==
  /\ IsNumber(v) /\ IsNumber(w)
  /\ CASE op = ">" -> v.num > w.num [] op = ">=" -> v.num >= w.num
       [] op = "<" -> v.num < w.num [] op = "<=" -> v.num =< w.num

ApplyOperator(op, v, value) ==
  CASE op = "!="                              -> v # value
    [] op \in {"LIKE", "CONTAINS"}            -> MatchLike(v, value)
    [] op \in {"NOT LIKE", "NOT CONTAINS"}    -> ~MatchLike(v, value)
    [] op = "IS NULL"                         -> IsZero(v)
    [] op = "IS NOT NULL"                     -> ~IsZero(v)
    [] op = "IN"                              -> MatchIn(v, value)
    [] op = "NOT IN"                          -> ~MatchIn(v, value)
    [] op \in Comparisons                     -> CompareNumeric(op, v, value)
    [] OTHER                                  -> v = value

\* A filter on a field the item does not have is passed over.
MatchesFilter(item, filters) ==
  \A i \in DOMAIN filters :
    \/ Resolve[filters[i].field] = None
    \/ ApplyOperator(filters[i].op, item[Resolve[filters[i].field]], filters[i].value)

TextLess(s, t) ==
  \/ IsStrictPrefix(s, t)
  \/ \E i \in DOMAIN s \cap DOMAIN t : /\ s[i] < t[i]
                                       /\ \A j \in 1 .. i - 1 : s[j] = t[j]

\* compare(a, b) < 0; values that are neither numbers nor strings are equal.
ValueLess(v, w) ==
  \/ IsNumber(v) /\ IsNumber(w) /\ v.num < w.num
  \/ IsText(v) /\ IsText(w) /\ TextLess(ToLower(v.text), ToLower(w.text))

LessByOrders(a, b, orders) ==
  LET Before(o, x, y) == /\ Resolve[o.field] # None
                         /\ IF o.dir = "ASC"
                            THEN ValueLess(x[Resolve[o.field]], y[Resolve[o.field]])
                            ELSE ValueLess(y[Resolve[o.field]], x[Resolve[o.field]])
  IN \E i \in DOMAIN orders : /\ Before(orders[i], a, b)
                              /\ \A j \in 1 .. i - 1 : ~Before(orders[j], b, a)

\* sort.Slice is not stable, but a function of the slice and the order.
Sorted(s, orders) ==
  IF orders = <<>> THEN s
  ELSE CHOOSE t \in SetToSeqs(ToSet(s)) :
         \A i, j \in DOMAIN t : i < j => ~LessByOrders(t[j], t[i], orders)

\* Mutant of Window: the last item of the page is left out.
WindowShort(s, p) == SubSeq(s, p.offset + 1, p.offset + p.limit - 1)

\* filtered[offset:end]
Window(s, p) ==
  SubSeq(s, p.offset + 1,
         IF p.offset + p.limit > Len(s) THEN Len(s) ELSE p.offset + p.limit)

\* A negative offset is a slice out of range.
ApplyInMemory(s, c) ==
  LET filtered == Keeping(s, {item \in ToSet(s) : MatchesFilter(item, c.filters)})
      p == c.pagination
      Answer(panic, items) == [panic |-> panic, items |-> items,
                               total |-> Len(filtered)]
  IN IF s = <<>> THEN Answer(FALSE, <<>>)
     ELSE IF p.limit =< 0 THEN Answer(FALSE, Sorted(filtered, c.orders))
     ELSE IF p.offset >= Len(filtered) THEN Answer(FALSE, <<>>)
     ELSE IF p.offset < 0 THEN Answer(TRUE, <<>>)
     ELSE Answer(FALSE, Window(Sorted(filtered, c.orders), p))

-----------------------------------------------------------------------------
(* A client reads page after page, to one past the last.                   *)

ReadPage(page) ==
  LET c == [crit EXCEPT !.pagination = NewPagination(page, @.pageSize)]
  IN /\ stage' = "paging"
     /\ crit' = c
     /\ seen' = seen \o ApplyInMemory(Items, c).items
     /\ UNCHANGED <<builder, allowed>>

FirstPage == stage \in {"built", "sanitized"} /\ ReadPage(1)

TotalPages == GetTotalPages(crit.pagination, ApplyInMemory(Items, crit).total)

NextPage ==
  /\ stage = "paging"
  /\ crit.pagination.page =< TotalPages
  /\ ReadPage(crit.pagination.page + 1)

Finish ==
  /\ \/ stage = "refused"
     \/ stage = "paging" /\ crit.pagination.page > TotalPages
  /\ stage' = "building"
  /\ builder' = NewCriteriaBuilder
  /\ crit' = None
  /\ allowed' = {}
  /\ seen' = <<>>

Next ==
  \/ \E a \in FilterCalls : \/ WithFilter(a.field, a.op, a.value)
                              \/ AddOperatorFilter(a.field, a.op, a.value)
  \/ \E a \in HelperCalls :
       \/ AddEqualFilter(a.field, a.value) \/ AddLikeFilter(a.field, a.value)
       \/ AddInFilter(a.field, a.value) \/ AddUUIDFilter(a.field, a.value)
       \/ AddBoolFilter(a.field, a.value)
  \/ \E a \in OrderCalls : WithOrder(a.field, a.dir) \/ SetOrder(a.field, a.dir)
  \/ \E a \in PageCalls : WithPagination(a.page, a.size)
  \/ \E q \in Queries : FromURLValues(q)
  \/ Build
  \/ \E fields \in Whitelists :
       ValidateAndSanitizeCriteria(fields) \/ ValidateAndSanitize(fields)
  \/ FirstPage \/ NextPage \/ Finish

Spec == Init /\ [][Next]_vars

-----------------------------------------------------------------------------
(* Properties.                                                             *)

Ready == stage \in {"built", "sanitized"}

(***************************************************************************)
(* In the SQL of a criteria the placeholders are $1, $2, ... without gap   *)
(* or repetition, one for each parameter, and the parameters behind the    *)
(* placeholders of a condition are the values of its own filter, whatever  *)
(* mix of lists, patterns and null tests comes before it                   *)
(* (buildWhereClause).  Left out: an operator the package does not define  *)
(* with a nil value, which Validate lets through and which gets a          *)
(* placeholder without a parameter.                                        *)
(***************************************************************************)
Bound(f) ==
  IF f.op \in {"IN", "NOT IN"} THEN f.value.items
  ELSE IF ParameterOf(f) = Nil THEN <<>> ELSE <<ParameterOf(f)>>

UndefinedNil(f) ==
  f.op \notin RequiresValue \cup {"IS NULL", "IS NOT NULL"} /\ f.value = Nil

ParamsLineUp ==
  /\ Ready /\ ~ToSelectSQL(crit).err
  /\ \A f \in ToSet(crit.filters) : ~UndefinedNil(f)
  => LET where == ToSelectSQL(crit).where
        kept == Keeping(crit.filters, {g \in ToSet(crit.filters) : ~Dropped(g)})
        slots == [i \in DOMAIN where.conditions |-> where.conditions[i].slots]
    IN /\ FlattenSeq(slots) = [i \in 1 .. Len(where.params) |-> i]
       /\ Len(slots) = Len(kept)
       /\ \A i \in DOMAIN kept :
            [j \in DOMAIN slots[i] |-> where.params[slots[i][j]]] = Bound(kept[i])

(***************************************************************************)
(* Whatever a URL and the calls of a service put into the builder, once    *)
(* sanitized with a whitelist it is a query: only listed fields and the    *)
(* default order are in it, both converters accept it, and the slice in    *)
(* memory is cut within its bounds (Build, Sanitize, Validate).  Left out: *)
(* filters given a nil value and pages so large that the offset overflows. *)
(***************************************************************************)
NoOverflow(p) == (p.page - 1) * p.pageSize =< MaxInt

HasItsValue(f) == f.op \in RequiresValue => f.value # Nil

SanitizedConverts ==
  /\ stage = "sanitized" /\ allowed # {}
  /\ NoOverflow(crit.pagination)
  /\ \A f \in ToSet(crit.filters) : HasItsValue(f)
  => /\ \A f \in ToSet(crit.filters) : f.field \in allowed
     /\ \A o \in ToSet(crit.orders) : o.field \in allowed \cup {"created_at"}
     /\ crit.orders # <<>>
     /\ ~ToSelectSQL(crit).err /\ ~ToCountSQL(crit).err
     /\ ~ApplyInMemory(Items, crit).panic

(***************************************************************************)
(* A client that reads page after page gets every match once and in order: *)
(* full pages up to the last, nothing after it (NewPagination,             *)
(* ApplyInMemory, GetTotalPages).                                          *)
(***************************************************************************)
PagesPartition ==
  stage = "paging" =>
    LET p == crit.pagination
        matches == {item \in ToSet(Items) : MatchesFilter(item, crit.filters)}
    IN /\ \A i, j \in DOMAIN seen : i < j => /\ seen[i] # seen[j]
                                             /\ ~LessByOrders(seen[j], seen[i], crit.orders)
       /\ p.page < TotalPages => Len(seen) = p.page * p.pageSize
       /\ p.page >= TotalPages => ToSet(seen) = matches

(***************************************************************************)
(* The two converters mean the same: the conditions of the count query,    *)
(* evaluated with its parameters, select the rows that ApplyInMemory       *)
(* selects, for filters on which PostgreSQL and the Go code can agree:     *)
(* values of the type of the column, patterns open at both ends or at      *)
(* none, lists neither empty nor []string, null tests away from zero       *)
(* values.                                                                 *)
(***************************************************************************)
ILike(s, v) ==
  LET text == ToLower(s)  core == ToLower(v.text)
  IN CASE v.wild = {"head", "tail"} -> HasSubSeq(text, core)
       [] v.wild = {"head"}         -> IsSuffix(core, text)
       [] v.wild = {"tail"}         -> IsPrefix(core, text)
       [] OTHER                     -> text = core

Accepts(cond, params, row) ==
  LET v == row[Resolve[cond.field]]
      args == [i \in DOMAIN cond.slots |-> params[cond.slots[i]]]
  IN CASE cond.op = "="           -> v = args[1]
       [] cond.op = "!="          -> v # args[1]
       [] cond.op \in Comparisons -> CompareNumeric(cond.op, v, args[1])
       [] cond.op = "ILIKE"       -> ILike(v.text, args[1])
       [] cond.op = "NOT ILIKE"   -> ~ILike(v.text, args[1])
       [] cond.op = "IN"          -> v \in ToSet(args)
       [] cond.op = "NOT IN"      -> v \notin ToSet(args)
       [] cond.op = "IS NULL"     -> FALSE
       [] cond.op = "IS NOT NULL" -> TRUE

Comparable(f, v) ==
  CASE f.op \in Comparisons -> IsNumber(v) /\ IsNumber(f.value)
    [] f.op \in Likes -> /\ IsText(v) /\ IsText(f.value)
                         /\ f.value.wild \in {{}, {"head", "tail"}}
                         /\ f.value.text = TrimBlanks(f.value.text)
    [] f.op \in {"IN", "NOT IN"} ->
         ~Dropped(f) /\ \A w \in ToSet(f.value.items) : w.kind = v.kind
    [] f.op \in {"IS NULL", "IS NOT NULL"} -> ~IsZero(v)
    [] f.op = "ARRAY_CONTAINS" -> FALSE
    [] OTHER -> f.value.kind = v.kind /\ f.value # Nil

MemoryAgreesWithSQL ==
  /\ Ready /\ ~ToCountSQL(crit).err
  /\ \A f \in ToSet(crit.filters) : /\ Resolve[f.field] # None
                                    /\ \A row \in ToSet(Items) :
                                         Comparable(f, row[Resolve[f.field]])
  => LET where == ToCountSQL(crit).where
     IN \A row \in ToSet(Items) :
          MatchesFilter(row, crit.filters) <=>
            \A cond \in ToSet(where.conditions) : Accepts(cond, where.params, row)

=============================================================================
