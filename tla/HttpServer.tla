----------------------------- MODULE HttpServer -----------------------------
(***************************************************************************)
(* What the HTTP handler (backend/src/http/http_server.c) makes of a       *)
(* request: the fields it finds in the body, the call of the engine it     *)
(* makes of them, and the answer it derives from the result; with the rows *)
(* of buffered_operations under the ids the clients address them by.       *)
(*                                                                         *)
(* One polling thread handles one request at a time.  A request may have   *)
(* been composed long ago, from a page that shows rows that are gone, or   *)
(* be sent again: any request of Requests may come at any time.            *)
(*                                                                         *)
(* A body is a flat JSON object, a sequence of fields with a string, a     *)
(* number or a list of strings each.  The catalog's tables are in Catalog, *)
(* the settings in Settings, the rest of the engine in GrammarEngine; a    *)
(* removal is refused here for lack of stock or not, as it comes.          *)
(*                                                                         *)
(* A definition introduced as "Mistake:" is not part of the model.         *)
(***************************************************************************)
EXTENDS Integers, Sequences, FiniteSetsExt, Functions

CONSTANTS
    Requests,         \* [call, id, body] that clients send
    IntLimit,         \* INT_MAX + 1
    MaxRow, MaxBin, MaxSession   \* bounds: ids given out

Fields == [name : STRING, type : {"string", "number", "list"}, texts : Seq(STRING),
           number : Int]

(* A client makes a body of an object, which has no name twice, and of      *)
(* numbers that are whole.                                                  *)
ASSUME HttpAssumption ==
    /\ \A r \in Requests :
          /\ r.call \in STRING
          /\ r.body \in Seq(Fields)
          /\ \A j, k \in DOMAIN r.body : r.body[j].name = r.body[k].name => j = k
    /\ IntLimit \in Nat \ {0}
    /\ MaxRow \in Nat /\ MaxBin \in Nat /\ MaxSession \in Nat

VARIABLES
    work_session_id, work_session_status,
    sessions_opened,      \* the last id of work_sessions
    rows,                 \* buffered_operations: id -> [ws, op, bin, qty]
    bins,                 \* id -> created_in_work_session_id, 0 for none
    answer                \* the last answer: [status, request, args], the args those
                          \* of the call of the engine that was answered with 200

engine == <<work_session_id, work_session_status, sessions_opened, rows, bins>>
vars   == <<engine, answer>>

NoStatus == ""        \* the status without a work session
NoArgs   == [field \in {} |-> 0]
NoAnswer == [status |-> 0, request |-> [call |-> "none", id |-> 0, body |-> <<>>],
             args |-> NoArgs]

Init ==
    /\ work_session_id = 0
    /\ work_session_status = NoStatus
    /\ sessions_opened = 0
    /\ rows = [id \in {} |-> 0]
    /\ bins = [id \in {1} |-> 0]
    /\ answer = NoAnswer

-----------------------------------------------------------------------------
(* json_get_string, json_get_int and json_get_string_array: the key in its *)
(* quotes is looked for anywhere in the body, and what follows the next    *)
(* colon is the value.  Where the key turns up as a string among the       *)
(* values, that is the value of the field after it.                        *)

Mentions(field, key) == field.name = key \/ key \in Range(field.texts)

ValueAt(body, k, key) ==
    IF body[k].name = key THEN body[k]
    ELSE IF k < Len(body) THEN body[k + 1]
    ELSE [name |-> "", type |-> "none", texts |-> <<>>, number |-> 0]

FirstMention(body, key) == Min({k \in DOMAIN body : Mentions(body[k], key)})

(* Mistake: what follows the colon is not looked at, a string goes for a list. *)
FoundOfAnyType(body, key, type) ==
    {ValueAt(body, k, key) : k \in {k \in DOMAIN body :
        Mentions(body[k], key) /\ k = FirstMention(body, key)}}

Found(body, key, type) ==
    LET hits  == {k \in DOMAIN body : Mentions(body[k], key)}
        value == ValueAt(body, FirstMention(body, key), key)
    IN IF hits # {} /\ value.type = type THEN {value} ELSE {}

(* NULL is the empty sequence; a string is a sequence of one.              *)
Texts(body, key, type) ==
    IF Found(body, key, type) = {} THEN <<>>
    ELSE (CHOOSE v \in Found(body, key, type) : TRUE).texts

StringIn(body, key) == Texts(body, key, "string")
ListIn(body, key)   == Texts(body, key, "list")

NumberIn(body, key) ==
    IF Found(body, key, "number") = {} THEN 0
    ELSE (CHOOSE v \in Found(body, key, "number") : TRUE).number

IntOf(long) == ((long + IntLimit) % (2 * IntLimit)) - IntLimit

-----------------------------------------------------------------------------
(* The answers.                                                            *)

Answered(status, r, args) ==
    answer' = [status |-> status, request |-> r, args |-> args]

Refused(status, r) == Answered(status, r, NoArgs) /\ UNCHANGED engine

IsOpen == work_session_id # 0 /\ work_session_status = "open"

(* A row gets the id after the largest of its table, that of a deleted row *)
(* perhaps.                                                                *)
IsNextId(id, table) ==
    /\ \A other \in DOMAIN table : other < id
    /\ id = 1 \/ id - 1 \in DOMAIN table

Inserted(table, id, row) ==
    [x \in DOMAIN table \cup {id} |-> IF x = id THEN row ELSE table[x]]

Open(r) ==
    /\ r.call = "open"
    /\ IF work_session_id # 0 THEN Refused(409, r)
       ELSE /\ sessions_opened < MaxSession
            /\ sessions_opened' = sessions_opened + 1
            /\ work_session_id' = sessions_opened + 1
            /\ work_session_status' = "open"
            /\ Answered(200, r, NoArgs)
            /\ UNCHANGED <<rows, bins>>

Restore(r) ==
    /\ r.call = "restore"
    /\ IF work_session_status # "frozen" THEN Refused(409, r)
       ELSE /\ work_session_status' = "open"
            /\ Answered(200, r, NoArgs)
            /\ UNCHANGED <<work_session_id, sessions_opened, rows, bins>>

Closed == work_session_id' = 0 /\ work_session_status' = NoStatus /\ UNCHANGED sessions_opened

(* The rows stay, as the history the audit log was made from.              *)
Commit(r) ==
    /\ r.call = "commit"
    /\ IF work_session_id = 0 THEN Refused(409, r)
       ELSE Closed /\ Answered(200, r, NoArgs) /\ UNCHANGED <<rows, bins>>

Rollback(r) ==
    /\ r.call = "rollback"
    /\ IF work_session_id = 0 THEN Refused(409, r)
       ELSE /\ rows' = Restrict(rows, {id \in DOMAIN rows : rows[id].ws # work_session_id})
            /\ bins' = Restrict(bins, {id \in DOMAIN bins : bins[id] # work_session_id})
            /\ Closed
            /\ Answered(200, r, NoArgs)

-----------------------------------------------------------------------------
(* POST /api/session/operations.                                           *)

OperationArgs(body) ==
    [op_type |-> StringIn(body, "op_type"), item_id |-> NumberIn(body, "item_id"),
     bin_id |-> NumberIn(body, "bin_id"), quantity |-> NumberIn(body, "quantity")]

OperationComplete(args) ==
    /\ args.op_type \in {<<"add">>, <<"remove">>}
    /\ args.item_id > 0 /\ args.bin_id > 0 /\ args.quantity > 0

(* The call that is made of them: the quantity is cast after the check.    *)
Call(args) == [args EXCEPT !.quantity = IntOf(args.quantity)]

(* Mistake: the table takes any quantity. *)
InsertedUnchecked(id, args) ==
    IF args.bin_id \in DOMAIN bins
    THEN Inserted(rows, id, [ws |-> work_session_id, op |-> args.op_type[1],
                             bin |-> args.bin_id, qty |-> args.quantity])
    ELSE rows

(* The INSERT: nothing, without a word, when the bin does not exist or     *)
(* CHECK (quantity > 0) refuses it.                                        *)
InsertedRow(id, args) ==
    IF args.bin_id \in DOMAIN bins /\ args.quantity > 0
    THEN Inserted(rows, id, [ws |-> work_session_id, op |-> args.op_type[1],
                             bin |-> args.bin_id, qty |-> args.quantity])
    ELSE rows

PostOperation(r) ==
    LET args == OperationArgs(r.body) IN
    /\ r.call = "post_operation"
    /\ \/ ~OperationComplete(args) /\ Refused(400, r)
       \/ OperationComplete(args) /\ ~IsOpen /\ Refused(409, r)
       \/ OperationComplete(args) /\ IsOpen /\ args.op_type = <<"remove">>
             /\ Refused(409, r)
       \/ /\ OperationComplete(args) /\ IsOpen
          /\ \E id \in 1 .. MaxRow :
                IsNextId(id, rows) /\ rows' = InsertedRow(id, Call(args))
          /\ Answered(200, r, Call(args))
          /\ UNCHANGED <<work_session_id, work_session_status, sessions_opened, bins>>

(* Mistake: AND work_session_id = ? is forgotten. *)
AddressedInAny(id) == id \in DOMAIN rows

(* WHERE id = ? AND work_session_id = ?, of an open or a frozen session.   *)
Addressed(id) ==
    /\ work_session_id # 0
    /\ id \in DOMAIN rows /\ rows[id].ws = work_session_id

DeleteOperation(r) ==
    /\ r.call = "delete_operation"
    /\ IF ~Addressed(r.id) THEN Refused(404, r)
       ELSE /\ rows' = Restrict(rows, DOMAIN rows \ {r.id})
            /\ Answered(200, r, NoArgs)
            /\ UNCHANGED <<work_session_id, work_session_status, sessions_opened, bins>>

(* The engine checks again what the handler has checked before the cast.   *)
PutOperation(r) ==
    LET args == [quantity |-> NumberIn(r.body, "quantity")] IN
    /\ r.call = "put_operation"
    /\ IF args.quantity <= 0 THEN Refused(400, r)
       ELSE IF Call(args).quantity <= 0 \/ ~Addressed(r.id) THEN Refused(404, r)
       ELSE /\ rows' = [rows EXCEPT ![r.id].qty = Call(args).quantity]
            /\ Answered(200, r, Call(args))
            /\ UNCHANGED <<work_session_id, work_session_status, sessions_opened, bins>>

-----------------------------------------------------------------------------
(* POST /api/session/bins.                                                 *)

BinArgs(body) ==
    [label |-> StringIn(body, "label"), kind |-> StringIn(body, "kind"),
     barcode_suffix |-> StringIn(body, "barcode_suffix"),
     mono_item_id |-> NumberIn(body, "mono_item_id")]

BinComplete(args) ==
    /\ args.label # <<>> /\ args.barcode_suffix # <<>>
    /\ args.kind \in {<<"mono">>, <<"poly">>}
    /\ args.kind = <<"mono">> => args.mono_item_id > 0

(* 409 as well for a barcode in use or a mono item that does not exist.    *)
PostBin(r) ==
    LET args == BinArgs(r.body) IN
    /\ r.call = "post_bin"
    /\ \/ ~BinComplete(args) /\ Refused(400, r)
       \/ BinComplete(args) /\ Refused(409, r)
       \/ /\ BinComplete(args) /\ IsOpen
          /\ \E id \in 1 .. MaxBin :
                IsNextId(id, bins) /\ bins' = Inserted(bins, id, work_session_id)
          /\ Answered(200, r, args)
          /\ UNCHANGED <<work_session_id, work_session_status, sessions_opened, rows>>

(* POST /api/session/items, tags and categories.                           *)
CatalogArgs(r) ==
    CASE r.call = "post_item" ->
            [name |-> StringIn(r.body, "name"), barcode |-> StringIn(r.body, "barcode"),
             category_id |-> NumberIn(r.body, "category_id"),
             tag_names |-> ListIn(r.body, "tag_names")]
      [] r.call = "post_tag" ->
            [name |-> StringIn(r.body, "name"),
             scope_category_id |-> NumberIn(r.body, "scope_category_id")]
      [] r.call = "post_category" -> [path |-> ListIn(r.body, "path")]

CatalogComplete(args) ==
    \A field \in {"name", "path"} \cap DOMAIN args : args[field] # <<>>

PostCatalog(r) ==
    /\ r.call \in {"post_item", "post_tag", "post_category"}
    /\ \/ ~CatalogComplete(CatalogArgs(r)) /\ Refused(400, r)
       \/ CatalogComplete(CatalogArgs(r)) /\ Refused(409, r)
       \/ /\ CatalogComplete(CatalogArgs(r)) /\ IsOpen
          /\ Answered(200, r, CatalogArgs(r))
          /\ UNCHANGED engine

(* By the ticker.                                                          *)
Freeze ==
    /\ IsOpen
    /\ work_session_status' = "frozen"
    /\ answer' = NoAnswer
    /\ UNCHANGED <<work_session_id, sessions_opened, rows, bins>>

Next ==
    \/ \E r \in Requests : Open(r)
    \/ \E r \in Requests : Restore(r)
    \/ \E r \in Requests : Commit(r)
    \/ \E r \in Requests : Rollback(r)
    \/ \E r \in Requests : PostOperation(r)
    \/ \E r \in Requests : DeleteOperation(r)
    \/ \E r \in Requests : PutOperation(r)
    \/ \E r \in Requests : PostBin(r)
    \/ \E r \in Requests : PostCatalog(r)
    \/ Freeze

Spec == Init /\ [][Next]_vars

-----------------------------------------------------------------------------
(* Properties.                                                             *)

(* Types; and every row has a positive int for its quantity, whatever long *)
(* was sent, and a bin that exists, whatever has been rolled back since.   *)
TypeOK ==
    /\ work_session_id \in 0 .. sessions_opened
    /\ work_session_status \in {NoStatus, "open", "frozen"}
    /\ work_session_id = 0 <=> work_session_status = NoStatus
    /\ sessions_opened \in Nat
    /\ \A id \in DOMAIN bins : bins[id] \in 0 .. sessions_opened
    /\ \A id \in DOMAIN rows :
          rows[id] \in [ws : 1 .. sessions_opened, op : {"add", "remove"},
                        bin : DOMAIN bins, qty : 1 .. IntLimit - 1]

(* No request reaches the rows of a work session that is over, though its  *)
(* page may still show their ids and ids are given out again.              *)
FinishedUntouched ==
    [][\A id \in DOMAIN rows : rows[id].ws # work_session_id =>
          id \in DOMAIN rows' /\ rows'[id] = rows[id]]_vars

NumberKeys == {"item_id", "bin_id", "quantity", "mono_item_id", "category_id",
               "scope_category_id"}
ListKeys   == {"tag_names", "path"}

(* The lookup of a key is made for bodies in which no string equals it.    *)
NoStringIs(body, key) == \A k \in DOMAIN body : key \notin Range(body[k].texts)

(* The value of the field of that name and type; NULL or 0 without one.    *)
SentAs(body, key, value) ==
    LET fields(type) == {body[k] : k \in {k \in DOMAIN body :
                                            body[k].name = key /\ body[k].type = type}}
    IN IF key \in NumberKeys
       THEN {value} = IF fields("number") = {} THEN {0}
                      ELSE {field.number : field \in fields("number")}
       ELSE LET sent == fields(IF key \in ListKeys THEN "list" ELSE "string")
            IN {value} = IF sent = {} THEN {<<>>} ELSE {field.texts : field \in sent}

(* A quantity too large for an int, and what the cast makes of it.         *)
SentTooLarge(body, key, value) ==
    /\ key = "quantity"
    /\ \E k \in DOMAIN body : /\ body[k].name = key /\ body[k].number >= IntLimit
                              /\ value = IntOf(body[k].number)

(* The engine is called with what the request says, field by field, in any *)
(* order of the fields and with any of the optional ones left out; a field *)
(* whose key some string of the body equals may be misread, but no other.  *)
(* The one change a value may suffer on the way is that of a quantity that *)
(* does not fit an int: it arrives wrapped.                                *)
FieldsAsSent ==
    \A key \in DOMAIN answer.args :
        NoStringIs(answer.request.body, key) =>
            \/ SentAs(answer.request.body, key, answer.args[key])
            \/ SentTooLarge(answer.request.body, key, answer.args[key])

(* engine.h says that manual_operation returns the number of rows added,   *)
(* and 0 if the operation is rejected, which is what the handler derives   *)
(* its answer from.  A row the table refuses is counted all the same, and  *)
(* answered with 200.                                                      *)
AcceptedIsBuffered ==
    answer.status = 200 /\ answer.request.call = "post_operation" =>
        \E id \in DOMAIN rows : /\ rows[id].bin = answer.args.bin_id
                                /\ rows[id].qty = answer.args.quantity
                                /\ rows[id].ws = work_session_id
=============================================================================
