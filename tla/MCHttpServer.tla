---------------------------- MODULE MCHttpServer ----------------------------
(* The requests of a small client.                                          *)
EXTENDS HttpServer

Text(name, text)   == [name |-> name, type |-> "string", texts |-> <<text>>, number |-> 0]
Number(name, n)    == [name |-> name, type |-> "number", texts |-> <<>>, number |-> n]
List(name, texts)  == [name |-> name, type |-> "list", texts |-> texts, number |-> 0]

Request(call, id, body) == [call |-> call, id |-> id, body |-> body]

Operation(op, bin, quantity) ==
    Request("post_operation", 0, <<Text("op_type", op), Number("item_id", 1),
                                   Number("bin_id", bin), Number("quantity", quantity)>>)

Put(id, quantity) == Request("put_operation", id, <<Number("quantity", quantity)>>)

(* A label that is the name of a field, one that is not, a mono bin, and a  *)
(* body with its fields in another order and one missing.                   *)
BinRequests ==
    {Request("post_bin", 0, body) : body \in {
        <<Text("label", "kind"), Text("barcode_suffix", "poly"), Text("kind", "mono")>>,
        <<Text("label", "shelf"), Text("kind", "poly"), Text("barcode_suffix", "7")>>,
        <<Number("mono_item_id", 1), Text("barcode_suffix", "8"), Text("label", "box"),
          Text("kind", "mono")>>,
        <<Text("kind", "poly"), Text("label", "shelf")>>}}

CatalogRequests ==
    {Request("post_item", 0, <<List("tag_names", <<"t", "u">>), Text("name", "bolt")>>),
     Request("post_item", 0, <<Text("name", "barcode"), Number("category_id", 1)>>),
     Request("post_tag", 0, <<Text("name", "t"), Number("scope_category_id", 2)>>),
     Request("post_category", 0, <<List("path", <<"a", "path">>)>>),
     Request("post_category", 0, <<Text("path", "a")>>)}

(* With 4 for INT_MAX + 1, 5 wraps to -3 and 9 to 1.                        *)
AllRequests ==
    {Request(call, 0, <<>>) : call \in {"open", "restore", "commit", "rollback"}}
    \cup {Operation("add", bin, 1) : bin \in {1, 2}}
    \cup {Operation("add", 1, quantity) : quantity \in {0, 5, 9}}
    \cup {Operation("remove", 1, 9)}
    \cup {Request("delete_operation", id, <<>>) : id \in {1, 2}}
    \cup {Put(id, quantity) : id \in {1, 2}, quantity \in {2, 5, 9}}
    \cup BinRequests \cup CatalogRequests
=============================================================================
