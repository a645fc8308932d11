-------------------------- MODULE HttpServerProofs --------------------------
(* Proofs about the requests and the rows they reach, for any requests, any *)
(* width of int and any number of rows, bins and work sessions.             *)
EXTENDS HttpServer, WellFoundedInduction, TLAPS

LEMMA RequestType ==
    ASSUME NEW r \in Requests
    PROVE  /\ r.body \in Seq(Fields)
           /\ \A j, k \in DOMAIN r.body : r.body[j].name = r.body[k].name => j = k
BY HttpAssumption

(* Whatever long is sent, the cast makes an int of it.                      *)
LEMMA IntOfType ==
    ASSUME NEW long \in Int
    PROVE  IntOf(long) \in -IntLimit .. IntLimit - 1
<1> DEFINE N == 2 * IntLimit
           x == long + IntLimit
<1>1. IntLimit \in Nat /\ N \in Nat \ {0} /\ x \in Int
  BY HttpAssumption
<1> HIDE DEF N, x
<1>2. x % N \in 0 .. N - 1
  BY <1>1
<1> QED
  BY <1>1, <1>2, HttpAssumption DEF IntOf, N, x

LEMMA PositiveInt ==
    ASSUME NEW long \in Int, IntOf(long) > 0 \/ ~(IntOf(long) <= 0)
    PROVE  IntOf(long) \in 1 .. IntLimit - 1
BY IntOfType, HttpAssumption

(* A set of natural numbers has a least one.                                *)
LEMMA LeastNat ==
    ASSUME NEW S \in SUBSET Nat, S # {}
    PROVE  \E n \in S : \A m \in S : n <= m
<1> DEFINE R == OpToRel(<, Nat)
<1>1. IsWellFoundedOn(R, Nat)
  BY NatLessThanWellFounded
<1>2. \A x, y \in Nat : x < y => <<x, y>> \in R
  BY DEF OpToRel
<1> HIDE DEF R
<1>3. \E n \in S : \A m \in S : ~(<<m, n>> \in R)
  BY <1>1, WFMin
<1>4. PICK n \in S : \A m \in S : ~(<<m, n>> \in R)
  BY <1>3
<1>5. \A m \in S : ~(m < n)
  BY <1>2, <1>4
<1> QED
  BY <1>4, <1>5

-----------------------------------------------------------------------------
(* What the lookup finds in the body of a request.                          *)

LEMMA ValueAtType ==
    ASSUME NEW r \in Requests, NEW k \in DOMAIN r.body, NEW key
    PROVE  ValueAt(r.body, k, key).number \in Int
<1>1. r.body \in Seq(Fields)
  BY RequestType
<1>2. \A j \in 1 .. Len(r.body) : r.body[j] \in Fields
  BY <1>1
<1>3. k \in 1 .. Len(r.body) /\ Len(r.body) \in Nat
  BY <1>1
<1>4. k < Len(r.body) => k + 1 \in 1 .. Len(r.body)
  BY <1>3
<1> QED
  BY <1>2, <1>3, <1>4 DEF ValueAt, Fields

LEMMA FirstMentionType ==
    ASSUME NEW r \in Requests, NEW key,
           {k \in DOMAIN r.body : Mentions(r.body[k], key)} # {}
    PROVE  FirstMention(r.body, key) \in {k \in DOMAIN r.body : Mentions(r.body[k], key)}
<1> DEFINE hits == {k \in DOMAIN r.body : Mentions(r.body[k], key)}
<1>1. DOMAIN r.body = 1 .. Len(r.body) /\ Len(r.body) \in Nat
  BY RequestType
<1>2. hits \in SUBSET Nat
  BY <1>1
<1>3. \E n \in hits : \A m \in hits : n <= m
  BY <1>2, LeastNat
<1> QED
  BY <1>3 DEF FirstMention, Min

LEMMA NumberInType ==
    ASSUME NEW r \in Requests, NEW key
    PROVE  NumberIn(r.body, key) \in Int
<1> DEFINE value == ValueAt(r.body, FirstMention(r.body, key), key)
<1>1. CASE Found(r.body, key, "number") = {}
  BY <1>1 DEF NumberIn
<1>2. CASE Found(r.body, key, "number") # {}
  <2>1. {k \in DOMAIN r.body : Mentions(r.body[k], key)} # {}
        /\ Found(r.body, key, "number") = {value}
    BY <1>2 DEF Found
  <2>2. value.number \in Int
    BY <2>1, FirstMentionType, ValueAtType
  <2> QED
    BY <2>1, <2>2 DEF NumberIn
<1> QED
  BY <1>1, <1>2

FieldsOf(body, key, type) ==
    {body[k] : k \in {k \in DOMAIN body : body[k].name = key /\ body[k].type = type}}

(* Where no value is that key, the lookup finds the field of that name, *)
(* which is the only one, if its type is right, and else nothing.           *)
LEMMA FoundIsField ==
    ASSUME NEW r \in Requests, NEW key, NoStringIs(r.body, key), NEW type
    PROVE  Found(r.body, key, type) = FieldsOf(r.body, key, type)
<1> DEFINE hits == {k \in DOMAIN r.body : Mentions(r.body[k], key)}
<1>1. hits = {k \in DOMAIN r.body : r.body[k].name = key}
  BY DEF NoStringIs, Mentions
<1>2. CASE hits = {}
  BY <1>1, <1>2 DEF Found, FieldsOf
<1>3. CASE hits # {}
  <2>1. FirstMention(r.body, key) \in hits
    BY <1>3, FirstMentionType
  <2>2. PICK k \in DOMAIN r.body : k = FirstMention(r.body, key) /\ r.body[k].name = key
    BY <2>1, <1>1
  <2>3. ValueAt(r.body, k, key) = r.body[k]
    BY <2>2 DEF ValueAt
  <2>4. \A j \in DOMAIN r.body : r.body[j].name = key => j = k
    BY <2>2, RequestType
  <2>5. Found(r.body, key, type) =
            IF r.body[k].type = type THEN {r.body[k]} ELSE {}
    BY <1>3, <2>2, <2>3 DEF Found
  <2> QED
    BY <2>2, <2>4, <2>5 DEF FieldsOf
<1> QED
  BY <1>2, <1>3

LEMMA TextsSent ==
    ASSUME NEW r \in Requests, NEW key, NoStringIs(r.body, key), NEW type
    PROVE  {Texts(r.body, key, type)} =
               IF FieldsOf(r.body, key, type) = {} THEN {<<>>}
               ELSE {field.texts : field \in FieldsOf(r.body, key, type)}
<1> DEFINE fields == FieldsOf(r.body, key, type)
<1> SUFFICES {Texts(r.body, key, type)} =
                 IF fields = {} THEN {<<>>} ELSE {field.texts : field \in fields}
  OBVIOUS
<1>1. Found(r.body, key, type) = fields
  BY FoundIsField
<1>2. \A f, g \in fields : f = g
  BY RequestType DEF FieldsOf
<1> HIDE DEF fields
<1>3. CASE fields = {}
  BY <1>1, <1>3 DEF Texts
<1>4. CASE fields # {}
  <2>1. PICK f : fields = {f}
    BY <1>2, <1>4
  <2>2. Found(r.body, key, type) = {f} /\ (CHOOSE v \in {f} : TRUE) = f
    BY <1>1, <2>1
  <2>3. Texts(r.body, key, type) = f.texts
    BY <2>2 DEF Texts
  <2> QED
    BY <2>1, <2>3
<1> QED
  BY <1>3, <1>4

LEMMA NumberSent ==
    ASSUME NEW r \in Requests, NEW key, NoStringIs(r.body, key)
    PROVE  {NumberIn(r.body, key)} =
               IF FieldsOf(r.body, key, "number") = {} THEN {0}
               ELSE {field.number : field \in FieldsOf(r.body, key, "number")}
<1> DEFINE fields == FieldsOf(r.body, key, "number")
<1> SUFFICES {NumberIn(r.body, key)} =
                 IF fields = {} THEN {0} ELSE {field.number : field \in fields}
  OBVIOUS
<1>1. Found(r.body, key, "number") = fields
  BY FoundIsField
<1>2. \A f, g \in fields : f = g
  BY RequestType DEF FieldsOf
<1> HIDE DEF fields
<1>3. CASE fields = {}
  BY <1>1, <1>3 DEF NumberIn
<1>4. CASE fields # {}
  <2>1. PICK f : fields = {f}
    BY <1>2, <1>4
  <2>2. NumberIn(r.body, key) = f.number
    BY <1>1, <2>1 DEF NumberIn
  <2> QED
    BY <2>1, <2>2
<1> QED
  BY <1>3, <1>4

(* The three kinds of lookup give what was sent.                            *)
LEMMA LookupsSent ==
    ASSUME NEW r \in Requests, NEW key, NoStringIs(r.body, key)
    PROVE  /\ key \in NumberKeys => SentAs(r.body, key, NumberIn(r.body, key))
           /\ key \in ListKeys => SentAs(r.body, key, ListIn(r.body, key))
           /\ key \notin NumberKeys \cup ListKeys => SentAs(r.body, key, StringIn(r.body, key))
<1> DEFINE fields(type) == FieldsOf(r.body, key, type)
<1>1. key \in ListKeys => key \notin NumberKeys
  BY DEF ListKeys, NumberKeys
<1>2. \A value : SentAs(r.body, key, value) <=>
          IF key \in NumberKeys
          THEN {value} = IF fields("number") = {} THEN {0}
                         ELSE {field.number : field \in fields("number")}
          ELSE IF key \in ListKeys
               THEN {value} = IF fields("list") = {} THEN {<<>>}
                              ELSE {field.texts : field \in fields("list")}
               ELSE {value} = IF fields("string") = {} THEN {<<>>}
                              ELSE {field.texts : field \in fields("string")}
  BY DEF SentAs, FieldsOf
<1>3. {NumberIn(r.body, key)} = IF fields("number") = {} THEN {0}
                                ELSE {field.number : field \in fields("number")}
  BY NumberSent
<1>4. {ListIn(r.body, key)} = IF fields("list") = {} THEN {<<>>}
                              ELSE {field.texts : field \in fields("list")}
  BY TextsSent DEF ListIn
<1>5. {StringIn(r.body, key)} = IF fields("string") = {} THEN {<<>>}
                                ELSE {field.texts : field \in fields("string")}
  BY TextsSent DEF StringIn
<1> HIDE DEF fields
<1> QED
  BY <1>1, <1>2, <1>3, <1>4, <1>5

-----------------------------------------------------------------------------
(* What a call is made with, and what is answered.                          *)

ArgsSent(r, args) ==
    \A key \in DOMAIN args :
        NoStringIs(r.body, key) =>
            SentAs(r.body, key, args[key]) \/ SentTooLarge(r.body, key, args[key])

LEMMA NoArgsSent == \A r : ArgsSent(r, NoArgs)
BY DEF ArgsSent, NoArgs

(* A positive int is its own cast.                                          *)
LEMMA IntOfInt ==
    ASSUME NEW long \in 1 .. IntLimit - 1
    PROVE  IntOf(long) = long
<1> DEFINE N == 2 * IntLimit
           x == long + IntLimit
<1>1. IntLimit \in Nat /\ N \in Nat \ {0} /\ x \in 0 .. N - 1
  BY HttpAssumption
<1> HIDE DEF N, x
<1>2. x % N = x
  BY <1>1
<1> QED
  BY <1>1, <1>2, HttpAssumption DEF IntOf, N, x

(* A positive quantity reaches the engine as it is, or it is too large.     *)
LEMMA QuantitySent ==
    ASSUME NEW r \in Requests, NoStringIs(r.body, "quantity"),
           NumberIn(r.body, "quantity") > 0
    PROVE  LET value == IntOf(NumberIn(r.body, "quantity"))
           IN SentAs(r.body, "quantity", value) \/ SentTooLarge(r.body, "quantity", value)
<1> DEFINE n == NumberIn(r.body, "quantity")
           fields == FieldsOf(r.body, "quantity", "number")
<1>1. n \in Int /\ n > 0 /\ IntLimit \in Nat
  BY NumberInType, HttpAssumption
<1>2. "quantity" \in NumberKeys
  BY DEF NumberKeys
<1>3. SentAs(r.body, "quantity", n)
  BY <1>2, LookupsSent
<1>4. {n} = IF fields = {} THEN {0} ELSE {field.number : field \in fields}
  BY NumberSent
<1> HIDE DEF n
<1>5. CASE n < IntLimit
  <2>1. IntOf(n) = n
    BY <1>1, <1>5, IntOfInt
  <2> QED
    BY <2>1, <1>3 DEF n
<1>6. CASE n >= IntLimit
  <2>1. PICK field \in fields : field.number = n
    BY <1>1, <1>4
  <2>2. PICK k \in DOMAIN r.body : r.body[k].name = "quantity" /\ r.body[k].number = n
    BY <2>1 DEF FieldsOf
  <2>3. SentTooLarge(r.body, "quantity", IntOf(n))
    BY <2>2, <1>6 DEF SentTooLarge
  <2> QED
    BY <2>3 DEF n
<1> QED
  BY <1>1, <1>5, <1>6

LEMMA OperationArgsSent ==
    ASSUME NEW r \in Requests, NumberIn(r.body, "quantity") > 0
    PROVE  ArgsSent(r, Call(OperationArgs(r.body)))
           /\ ArgsSent(r, Call([quantity |-> NumberIn(r.body, "quantity")]))
<1>1. {"item_id", "bin_id"} \subseteq NumberKeys /\ "op_type" \notin NumberKeys \cup ListKeys
  BY DEF NumberKeys, ListKeys
<1>2. Call(OperationArgs(r.body)) =
          [op_type |-> StringIn(r.body, "op_type"), item_id |-> NumberIn(r.body, "item_id"),
           bin_id |-> NumberIn(r.body, "bin_id"),
           quantity |-> IntOf(NumberIn(r.body, "quantity"))]
  BY DEF Call, OperationArgs
<1>3. Call([quantity |-> NumberIn(r.body, "quantity")])
          = [quantity |-> IntOf(NumberIn(r.body, "quantity"))]
  BY DEF Call
<1>4. NoStringIs(r.body, "quantity") =>
          \/ SentAs(r.body, "quantity", IntOf(NumberIn(r.body, "quantity")))
          \/ SentTooLarge(r.body, "quantity", IntOf(NumberIn(r.body, "quantity")))
  BY QuantitySent
<1> QED
  BY <1>1, <1>2, <1>3, <1>4, LookupsSent DEF ArgsSent

LEMMA BinArgsSent ==
    ASSUME NEW r \in Requests
    PROVE  ArgsSent(r, BinArgs(r.body))
<1>1. "mono_item_id" \in NumberKeys
      /\ {"label", "kind", "barcode_suffix"} \cap (NumberKeys \cup ListKeys) = {}
  BY DEF NumberKeys, ListKeys
<1> QED
  BY <1>1, LookupsSent DEF ArgsSent, BinArgs

LEMMA CatalogArgsSent ==
    ASSUME NEW r \in Requests, r.call \in {"post_item", "post_tag", "post_category"}
    PROVE  ArgsSent(r, CatalogArgs(r))
<1>1. /\ {"category_id", "scope_category_id"} \subseteq NumberKeys
      /\ {"tag_names", "path"} \subseteq ListKeys
      /\ {"name", "barcode"} \cap (NumberKeys \cup ListKeys) = {}
  BY DEF NumberKeys, ListKeys
<1>2. CASE r.call = "post_item"
  <2>1. CatalogArgs(r) =
            [name |-> StringIn(r.body, "name"), barcode |-> StringIn(r.body, "barcode"),
             category_id |-> NumberIn(r.body, "category_id"),
             tag_names |-> ListIn(r.body, "tag_names")]
    BY <1>2 DEF CatalogArgs
  <2>2. \A key \in {"name", "barcode"} :
            NoStringIs(r.body, key) => SentAs(r.body, key, StringIn(r.body, key))
    BY <1>1, LookupsSent
  <2>3. /\ NoStringIs(r.body, "category_id") =>
               SentAs(r.body, "category_id", NumberIn(r.body, "category_id"))
        /\ NoStringIs(r.body, "tag_names") =>
               SentAs(r.body, "tag_names", ListIn(r.body, "tag_names"))
    BY <1>1, LookupsSent
  <2>4. /\ DOMAIN CatalogArgs(r) = {"name", "barcode", "category_id", "tag_names"}
        /\ CatalogArgs(r).name = StringIn(r.body, "name")
        /\ CatalogArgs(r).barcode = StringIn(r.body, "barcode")
        /\ CatalogArgs(r).category_id = NumberIn(r.body, "category_id")
        /\ CatalogArgs(r).tag_names = ListIn(r.body, "tag_names")
    BY <2>1
  <2>5. \A key \in DOMAIN CatalogArgs(r) :
            NoStringIs(r.body, key) => SentAs(r.body, key, CatalogArgs(r)[key])
    BY <2>2, <2>3, <2>4
  <2> QED
    BY <2>5, Zenon DEF ArgsSent
<1>3. CASE r.call = "post_tag"
  <2>1. CatalogArgs(r) =
            [name |-> StringIn(r.body, "name"),
             scope_category_id |-> NumberIn(r.body, "scope_category_id")]
    BY <1>3 DEF CatalogArgs
  <2>2. /\ NoStringIs(r.body, "name") => SentAs(r.body, "name", StringIn(r.body, "name"))
        /\ NoStringIs(r.body, "scope_category_id") =>
               SentAs(r.body, "scope_category_id", NumberIn(r.body, "scope_category_id"))
    BY <1>1, LookupsSent
  <2>3. \A key \in DOMAIN CatalogArgs(r) :
            NoStringIs(r.body, key) => SentAs(r.body, key, CatalogArgs(r)[key])
    BY <2>1, <2>2
  <2> QED
    BY <2>3, Zenon DEF ArgsSent
<1>4. CASE r.call = "post_category"
  <2>1. CatalogArgs(r) = [path |-> ListIn(r.body, "path")]
    BY <1>4 DEF CatalogArgs
  <2>2. NoStringIs(r.body, "path") => SentAs(r.body, "path", ListIn(r.body, "path"))
    BY <1>1, LookupsSent
  <2> QED
    BY <2>1, <2>2 DEF ArgsSent
<1> QED
  BY <1>2, <1>3, <1>4

LEMMA AnswerSent ==
    ASSUME NEW r \in Requests, NEW status, NEW args, ArgsSent(r, args),
           Answered(status, r, args)
    PROVE  FieldsAsSent'
BY DEF FieldsAsSent, ArgsSent, Answered

LEMMA StepSent == FieldsAsSent /\ [Next]_vars => FieldsAsSent'
<1> SUFFICES ASSUME FieldsAsSent, [Next]_vars
             PROVE  FieldsAsSent'
  OBVIOUS
<1> USE DEF Refused
<1>1. ASSUME NEW r \in Requests,
             \/ Open(r) \/ Restore(r) \/ Commit(r) \/ Rollback(r) \/ DeleteOperation(r)
      PROVE  FieldsAsSent'
  BY <1>1, NoArgsSent, AnswerSent DEF Open, Restore, Commit, Rollback, DeleteOperation
<1>2. ASSUME NEW r \in Requests, PostOperation(r)
      PROVE  FieldsAsSent'
  <2>1. OperationComplete(OperationArgs(r.body)) => NumberIn(r.body, "quantity") > 0
    BY DEF OperationComplete, OperationArgs
  <2> QED
    BY <1>2, <2>1, NoArgsSent, OperationArgsSent, AnswerSent DEF PostOperation
<1>3. ASSUME NEW r \in Requests, PutOperation(r)
      PROVE  FieldsAsSent'
  <2>1. NumberIn(r.body, "quantity") \in Int
    BY NumberInType
  <2> QED
    BY <1>3, <2>1, NoArgsSent, OperationArgsSent, AnswerSent DEF PutOperation
<1>4. ASSUME NEW r \in Requests, PostBin(r)
      PROVE  FieldsAsSent'
  BY <1>4, NoArgsSent, BinArgsSent, AnswerSent DEF PostBin
<1>5. ASSUME NEW r \in Requests, PostCatalog(r)
      PROVE  FieldsAsSent'
  BY <1>5, NoArgsSent, CatalogArgsSent, AnswerSent DEF PostCatalog
<1>6. CASE Freeze
  BY <1>6 DEF Freeze, FieldsAsSent, NoAnswer, NoArgs
<1>7. CASE UNCHANGED vars
  BY <1>7 DEF vars, FieldsAsSent
<1> QED
  BY <1>1, <1>2, <1>3, <1>4, <1>5, <1>6, <1>7 DEF Next

(* The engine is called with what the request says, field by field, but for *)
(* a quantity too large for an int.                                         *)
THEOREM FieldsCorrect == Spec => []FieldsAsSent
<1>1. Init => FieldsAsSent
  BY DEF Init, FieldsAsSent, NoAnswer, NoArgs
<1> QED
  BY <1>1, StepSent, PTL DEF Spec

-----------------------------------------------------------------------------
(* The rows.  That a rollback takes no bin away under a row that stays      *)
(* rests on BinsBefore: a bin is not created after a row that uses it.      *)

CurrentIsLast == work_session_id \in {0, sessions_opened}

BinsBefore == \A id \in DOMAIN rows : bins[rows[id].bin] <= rows[id].ws

RowsInv == TypeOK /\ CurrentIsLast /\ BinsBefore

(* TypeOK by the variables it is about.                                     *)
SessionOK ==
    /\ sessions_opened \in Nat
    /\ work_session_id \in 0 .. sessions_opened
    /\ work_session_status \in {NoStatus, "open", "frozen"}
    /\ work_session_id = 0 <=> work_session_status = NoStatus

BinsOK == \A id \in DOMAIN bins : bins[id] \in 0 .. sessions_opened

RowsOK ==
    \A id \in DOMAIN rows :
        rows[id] \in [ws : 1 .. sessions_opened, op : {"add", "remove"},
                      bin : DOMAIN bins, qty : 1 .. IntLimit - 1]

LEMMA TypeParts == TypeOK <=> SessionOK /\ BinsOK /\ RowsOK
BY Zenon DEF TypeOK, SessionOK, BinsOK, RowsOK

LEMMA TypePartsNext == TypeOK' <=> SessionOK' /\ BinsOK' /\ RowsOK'
BY Zenon DEF TypeOK, SessionOK, BinsOK, RowsOK

LEMMA NoStatusDiffers == NoStatus # "open" /\ NoStatus # "frozen"
BY Zenon DEF NoStatus

(* More sessions than before, and the same rows.                            *)
LEMMA OpenedGrows ==
    ASSUME TypeOK, UNCHANGED <<rows, bins>>, sessions_opened' \in Nat,
           sessions_opened <= sessions_opened'
    PROVE  BinsOK' /\ RowsOK'
<1>0. sessions_opened \in Nat /\ BinsOK /\ RowsOK
  BY TypeParts DEF SessionOK
<1>1. 0 .. sessions_opened \subseteq 0 .. sessions_opened'
      /\ 1 .. sessions_opened \subseteq 1 .. sessions_opened'
  BY <1>0
<1>2. BinsOK'
  BY <1>0, <1>1 DEF BinsOK
<1>3. RowsOK'
  BY <1>0, <1>1 DEF RowsOK
<1> QED
  BY <1>2, <1>3

LEMMA NextIsNew ==
    ASSUME NEW table, NEW id \in Int, IsNextId(id, table)
    PROVE  id \notin DOMAIN table
BY DEF IsNextId

LEMMA RefusedKeeps ==
    ASSUME RowsInv, UNCHANGED engine
    PROVE  RowsInv'
BY DEF RowsInv, TypeOK, CurrentIsLast, BinsBefore, engine

LEMMA SessionKeeps ==
    ASSUME RowsInv, NEW r \in Requests, Open(r) \/ Restore(r) \/ Commit(r)
    PROVE  RowsInv'
<1>1. CASE UNCHANGED engine
  BY <1>1, RefusedKeeps
<1>2. CASE /\ UNCHANGED <<rows, bins>>
           /\ work_session_id' \in {0, sessions_opened'}
           /\ sessions_opened' \in {sessions_opened, sessions_opened + 1}
           /\ work_session_status' \in {NoStatus, "open"}
           /\ work_session_id' = 0 <=> work_session_status' = NoStatus
  <2>1. sessions_opened \in Nat /\ sessions_opened' \in Nat
        /\ sessions_opened <= sessions_opened'
    BY <1>2, TypeParts DEF RowsInv, SessionOK
  <2>2. TypeOK'
    <3>1. SessionOK'
      BY <1>2, <2>1 DEF SessionOK
    <3> QED
      BY <1>2, <2>1, <3>1, OpenedGrows, TypePartsNext DEF RowsInv
  <2> QED
    BY <1>2, <2>2 DEF RowsInv, CurrentIsLast, BinsBefore
<1>3. SessionOK /\ CurrentIsLast
  BY TypeParts DEF RowsInv
<1>4. sessions_opened + 1 # 0
  BY <1>3 DEF SessionOK
<1> QED
  BY <1>1, <1>2, <1>3, <1>4, NoStatusDiffers DEF Open, Restore, Commit, Refused, Closed, SessionOK,
                                CurrentIsLast

LEMMA FreezeKeeps ==
    ASSUME RowsInv, Freeze
    PROVE  RowsInv'
<1>1. UNCHANGED <<rows, bins, sessions_opened, work_session_id>>
      /\ work_session_id # 0 /\ work_session_status' = "frozen"
  BY DEF Freeze, IsOpen
<1>2. SessionOK /\ BinsOK /\ RowsOK
  BY TypeParts DEF RowsInv
<1>3. SessionOK'
  BY <1>1, <1>2, NoStatusDiffers DEF SessionOK
<1>4. BinsOK' /\ RowsOK'
  BY <1>1, <1>2 DEF BinsOK, RowsOK
<1> QED
  BY <1>1, <1>3, <1>4, TypePartsNext DEF RowsInv, CurrentIsLast, BinsBefore

LEMMA RollbackKeeps ==
    ASSUME RowsInv, NEW r \in Requests, Rollback(r)
    PROVE  RowsInv'
<1>1. CASE UNCHANGED engine
  BY <1>1, RefusedKeeps
<1>2. CASE ~UNCHANGED engine
  <2>1. /\ work_session_id # 0 /\ work_session_id = sessions_opened
        /\ rows' = Restrict(rows, {id \in DOMAIN rows : rows[id].ws # work_session_id})
        /\ bins' = Restrict(bins, {id \in DOMAIN bins : bins[id] # work_session_id})
        /\ Closed
    BY <1>2 DEF Rollback, Refused, RowsInv, CurrentIsLast
  <2>2. \A id \in DOMAIN rows' :
            /\ id \in DOMAIN rows /\ rows'[id] = rows[id] /\ rows[id].ws # work_session_id
            /\ rows[id].bin \in DOMAIN bins' /\ bins'[rows[id].bin] = bins[rows[id].bin]
    <3> SUFFICES ASSUME NEW id \in DOMAIN rows'
                 PROVE  /\ id \in DOMAIN rows /\ rows'[id] = rows[id]
                        /\ rows[id].ws # work_session_id
                        /\ rows[id].bin \in DOMAIN bins'
                        /\ bins'[rows[id].bin] = bins[rows[id].bin]
      OBVIOUS
    <3>1. /\ id \in DOMAIN rows /\ rows'[id] = rows[id] /\ rows[id].ws # work_session_id
      BY <2>1 DEF Restrict
    <3>2. /\ rows[id].ws \in 1 .. sessions_opened /\ rows[id].bin \in DOMAIN bins
          /\ bins[rows[id].bin] \in 0 .. sessions_opened /\ sessions_opened \in Nat
      BY <3>1 DEF RowsInv, TypeOK
    <3>3. bins[rows[id].bin] # work_session_id
      BY <2>1, <3>1, <3>2 DEF RowsInv, BinsBefore
    <3> QED
      BY <2>1, <3>1, <3>2, <3>3 DEF Restrict
  <2>3. \A id \in DOMAIN bins' : id \in DOMAIN bins /\ bins'[id] = bins[id]
    BY <2>1 DEF Restrict
  <2>4. TypeOK'
    <3>0. SessionOK /\ BinsOK /\ RowsOK
      BY TypeParts DEF RowsInv
    <3>1. SessionOK'
      BY <3>0, <2>1 DEF SessionOK, Closed
    <3>2. BinsOK'
      BY <3>0, <2>1, <2>3 DEF BinsOK, Closed
    <3>3. RowsOK'
      BY <3>0, <2>1, <2>2 DEF RowsOK, Closed
    <3> QED
      BY <3>1, <3>2, <3>3, TypePartsNext
  <2> QED
    BY <2>1, <2>2, <2>4 DEF RowsInv, BinsBefore, CurrentIsLast, Closed
<1> QED
  BY <1>1, <1>2

(* The calls that edit one table and leave the session alone.               *)
LEMMA EditKeeps ==
    ASSUME RowsInv, UNCHANGED <<work_session_id, work_session_status, sessions_opened>>,
           BinsOK', RowsOK', BinsBefore'
    PROVE  RowsInv'
<1>1. SessionOK'
  BY TypeParts DEF RowsInv, SessionOK
<1> QED
  BY <1>1, TypePartsNext DEF RowsInv, CurrentIsLast

LEMMA InsertKeeps ==
    ASSUME RowsInv, IsOpen, NEW r \in Requests, OperationComplete(OperationArgs(r.body)),
           NEW id \in 1 .. MaxRow, IsNextId(id, rows),
           rows' = InsertedRow(id, Call(OperationArgs(r.body))),
           UNCHANGED <<work_session_id, work_session_status, sessions_opened, bins>>
    PROVE  RowsInv'
<1> DEFINE args == Call(OperationArgs(r.body))
           row  == [ws |-> work_session_id, op |-> args.op_type[1],
                    bin |-> args.bin_id, qty |-> args.quantity]
<1>0. SessionOK /\ BinsOK /\ RowsOK /\ CurrentIsLast /\ BinsBefore
  BY TypeParts DEF RowsInv
<1>1. CASE rows' = rows
  BY <1>0, <1>1, EditKeeps DEF BinsOK, RowsOK, BinsBefore
<1>2. CASE rows' # rows
  <2>1. /\ args.bin_id \in DOMAIN bins /\ args.quantity > 0
        /\ rows' = Inserted(rows, id, row)
    BY <1>2 DEF InsertedRow
  <2>2. args.quantity = IntOf(NumberIn(r.body, "quantity"))
        /\ args.op_type = OperationArgs(r.body).op_type
    BY DEF Call, OperationArgs
  <2>3. args.quantity \in 1 .. IntLimit - 1
    BY <2>1, <2>2, NumberInType, PositiveInt
  <2>4. args.op_type[1] \in {"add", "remove"}
    BY <2>2 DEF OperationComplete
  <2>5. work_session_id \in 1 .. sessions_opened /\ work_session_id = sessions_opened
    BY <1>0 DEF IsOpen, SessionOK, CurrentIsLast
  <2>6. row \in [ws : 1 .. sessions_opened, op : {"add", "remove"},
                 bin : DOMAIN bins, qty : 1 .. IntLimit - 1]
    BY <2>1, <2>3, <2>4, <2>5
  <2>7. bins[row.bin] <= row.ws
    BY <2>1, <2>5, <1>0 DEF BinsOK, SessionOK
  <2> HIDE DEF row, args
  <2>8. \A x \in DOMAIN rows' : \/ x = id /\ rows'[x] = row
                                \/ x \in DOMAIN rows /\ rows'[x] = rows[x]
    BY <2>1 DEF Inserted
  <2>9. RowsOK'
    BY <2>6, <2>8, <1>0 DEF RowsOK
  <2>10. BinsBefore'
    BY <2>7, <2>8, <1>0 DEF BinsBefore
  <2> QED
    BY <2>9, <2>10, <1>0, EditKeeps DEF BinsOK
<1> QED
  BY <1>1, <1>2

LEMMA PostOperationKeeps ==
    ASSUME RowsInv, NEW r \in Requests, PostOperation(r)
    PROVE  RowsInv'
BY InsertKeeps, RefusedKeeps DEF PostOperation, Refused

LEMMA DeleteOperationKeeps ==
    ASSUME RowsInv, NEW r \in Requests, DeleteOperation(r)
    PROVE  RowsInv'
<1>0. SessionOK /\ BinsOK /\ RowsOK /\ CurrentIsLast /\ BinsBefore
  BY TypeParts DEF RowsInv
<1>1. CASE UNCHANGED engine
  BY <1>1, RefusedKeeps
<1>2. CASE ~UNCHANGED engine
  <2>1. /\ rows' = Restrict(rows, DOMAIN rows \ {r.id})
        /\ UNCHANGED <<work_session_id, work_session_status, sessions_opened, bins>>
    BY <1>2 DEF DeleteOperation, Refused
  <2>2. \A x \in DOMAIN rows' : x \in DOMAIN rows /\ rows'[x] = rows[x]
    BY <2>1 DEF Restrict
  <2>3. RowsOK' /\ BinsBefore' /\ BinsOK'
    BY <1>0, <2>1, <2>2 DEF RowsOK, BinsBefore, BinsOK
  <2> QED
    BY <2>1, <2>3, EditKeeps
<1> QED
  BY <1>1, <1>2

LEMMA PutOperationKeeps ==
    ASSUME RowsInv, NEW r \in Requests, PutOperation(r)
    PROVE  RowsInv'
<1> DEFINE quantity == NumberIn(r.body, "quantity")
<1>0. SessionOK /\ BinsOK /\ RowsOK /\ CurrentIsLast /\ BinsBefore
  BY TypeParts DEF RowsInv
<1>1. CASE UNCHANGED engine
  BY <1>1, RefusedKeeps
<1>2. CASE ~UNCHANGED engine
  <2>1. /\ ~(IntOf(quantity) <= 0)
        /\ rows' = [rows EXCEPT ![r.id].qty = IntOf(quantity)]
        /\ UNCHANGED <<work_session_id, work_session_status, sessions_opened, bins>>
    BY <1>2 DEF PutOperation, Refused, Call
  <2>2. IntOf(quantity) \in 1 .. IntLimit - 1
    BY <2>1, NumberInType, PositiveInt
  <2> HIDE DEF quantity
  <2>3. \A x \in DOMAIN rows' : x \in DOMAIN rows /\ rows'[x] =
            IF x = r.id THEN [rows[x] EXCEPT !.qty = IntOf(quantity)] ELSE rows[x]
    BY <2>1
  <2>4. RowsOK' /\ BinsBefore' /\ BinsOK'
    BY <1>0, <2>1, <2>2, <2>3 DEF RowsOK, BinsBefore, BinsOK
  <2> QED
    BY <2>1, <2>4, EditKeeps
<1> QED
  BY <1>1, <1>2

LEMMA PostBinKeeps ==
    ASSUME RowsInv, NEW r \in Requests, PostBin(r)
    PROVE  RowsInv'
<1>0. SessionOK /\ BinsOK /\ RowsOK /\ CurrentIsLast /\ BinsBefore
  BY TypeParts DEF RowsInv
<1>1. CASE UNCHANGED engine
  BY <1>1, RefusedKeeps
<1>2. CASE ~UNCHANGED engine
  <2>1. UNCHANGED <<work_session_id, work_session_status, sessions_opened, rows>>
    BY <1>2 DEF PostBin, Refused
  <2>2. PICK id \in 1 .. MaxBin :
            IsNextId(id, bins) /\ bins' = Inserted(bins, id, work_session_id)
    BY <1>2 DEF PostBin, Refused
  <2>3. id \notin DOMAIN bins
    BY <2>2, NextIsNew
  <2>4. /\ DOMAIN bins' = DOMAIN bins \cup {id} /\ bins'[id] = work_session_id
        /\ \A x \in DOMAIN bins : bins'[x] = bins[x]
    BY <2>2, <2>3 DEF Inserted
  <2>5. BinsOK'
    BY <1>0, <2>1, <2>4 DEF BinsOK, SessionOK
  <2>6. RowsOK' /\ BinsBefore'
    BY <1>0, <2>1, <2>4 DEF RowsOK, BinsBefore
  <2> QED
    BY <2>1, <2>5, <2>6, EditKeeps
<1> QED
  BY <1>1, <1>2

LEMMA PostCatalogKeeps ==
    ASSUME RowsInv, NEW r \in Requests, PostCatalog(r)
    PROVE  RowsInv'
BY RefusedKeeps DEF PostCatalog, Refused

LEMMA InitRows == Init => RowsInv
<1> SUFFICES ASSUME Init
             PROVE  RowsInv
  OBVIOUS
<1>1. SessionOK /\ CurrentIsLast
  BY DEF Init, SessionOK, CurrentIsLast
<1>2. BinsOK /\ RowsOK /\ BinsBefore
  BY DEF Init, BinsOK, RowsOK, BinsBefore
<1> QED
  BY <1>1, <1>2, TypeParts DEF RowsInv

LEMMA RowsInvariant == Spec => []RowsInv
<1>1. RowsInv /\ [Next]_vars => RowsInv'
  <2>1. UNCHANGED vars => UNCHANGED engine
    BY DEF vars
  <2> QED
    BY <2>1, SessionKeeps, RollbackKeeps, PostOperationKeeps, DeleteOperationKeeps,
       PutOperationKeeps, PostBinKeeps, PostCatalogKeeps, FreezeKeeps, RefusedKeeps DEF Next
<1> QED
  BY <1>1, InitRows, PTL DEF Spec

(* Every row has a positive int for its quantity and a bin that exists,     *)
(* whatever is sent, cast, refused and rolled back.                         *)
THEOREM TypeCorrect == Spec => []TypeOK
BY RowsInvariant, PTL DEF RowsInv

-----------------------------------------------------------------------------
(* A step keeps the rows of all sessions but the one in memory.             *)
LEMMA OthersKept ==
    ASSUME [Next]_vars, NEW id \in DOMAIN rows, rows[id].ws # work_session_id
    PROVE  id \in DOMAIN rows' /\ rows'[id] = rows[id]
<1> DEFINE Kept == id \in DOMAIN rows' /\ rows'[id] = rows[id]
<1>1. ASSUME UNCHANGED rows
      PROVE  Kept
  BY <1>1
<1>2. ASSUME NEW r \in Requests, Rollback(r)
      PROVE  Kept
  BY <1>2 DEF Rollback, Refused, Restrict, engine
<1>3. ASSUME NEW r \in Requests, PostOperation(r)
      PROVE  Kept
  <2>1. CASE UNCHANGED rows
    BY <2>1
  <2>2. CASE ~UNCHANGED rows
    <3>1. PICK new \in 1 .. MaxRow :
              IsNextId(new, rows) /\ rows' = InsertedRow(new, Call(OperationArgs(r.body)))
      BY <1>3, <2>2 DEF PostOperation, Refused, engine
    <3>2. new # id
      BY <3>1, NextIsNew
    <3> QED
      BY <3>1, <3>2 DEF InsertedRow, Inserted
  <2> QED
    BY <2>1, <2>2
<1>4. ASSUME NEW r \in Requests, DeleteOperation(r)
      PROVE  Kept
  BY <1>4 DEF DeleteOperation, Refused, Addressed, Restrict, engine
<1>5. ASSUME NEW r \in Requests, PutOperation(r)
      PROVE  Kept
  BY <1>5 DEF PutOperation, Refused, Addressed, engine
<1>6. ASSUME NEW r \in Requests,
             Open(r) \/ Restore(r) \/ Commit(r) \/ PostBin(r) \/ PostCatalog(r)
      PROVE  UNCHANGED rows
  BY <1>6 DEF Open, Restore, Commit, PostBin, PostCatalog, Refused, engine
<1>7. CASE Freeze \/ UNCHANGED vars
  BY <1>7 DEF Freeze, vars, engine
<1> QED
  BY <1>1, <1>2, <1>3, <1>4, <1>5, <1>6, <1>7 DEF Next

(* No request reaches the rows of a work session that is over, though ids   *)
(* of rows are given out again.                                             *)
THEOREM FinishedCorrect == Spec => FinishedUntouched
<1>1. [Next]_vars => [\A id \in DOMAIN rows : rows[id].ws # work_session_id =>
                         id \in DOMAIN rows' /\ rows'[id] = rows[id]]_vars
  BY OthersKept
<1> QED
  BY <1>1, PTL DEF Spec, FinishedUntouched
=============================================================================
