------------------------------ MODULE Catalog ------------------------------
(***************************************************************************)
(* Products and promo codes: POST, PUT and DELETE /products and POST       *)
(* /promo-codes (usecases/product.go, usecases/promo.go).  None of them    *)
(* opens a transaction: each statement commits by itself.  A PUT is a read *)
(* and then a write of the whole row, with anything in between.            *)
(***************************************************************************)
EXTENDS MarketDB

CONSTANTS
    Editors,    \* PUT /products/{id} requests being served at once
    Bodies,     \* what such a request may carry, None for a field left out
    NewRows     \* price, stock and status a seller may create a product with

VARIABLE edits  \* each PUT between its read and its write

NoEdit == [product |-> None, body |-> None, row |-> NoProduct]

ASSUME CatalogAssumption ==
    /\ Bodies \subseteq [price : (Nat \ {0}) \cup {None}, stock : (0 .. MaxInt) \cup {None},
                         status : (ProductStatus \ {"NONE"}) \cup {None}]
    /\ NewRows \subseteq [price : Nat \ {0}, stock : 0 .. MaxInt,
                          status : ProductStatus \ {"NONE"}]

others == <<issued, uses, orders, ops, now, pc, tx, rows>>

Exists(p) == products[p].status # "NONE"
Seller(u) == Role[u] \in {"SELLER", "ADMIN"}

\* The check of Update and Delete: only a SELLER is held to its own products.
MayEdit(u, p) == Role[u] = "SELLER" => products[p].seller = u

CreateProduct(u, p, row) ==
    /\ Seller(u)
    /\ ~Exists(p)
    /\ products' = [products EXCEPT ![p] = [status |-> row.status, price |-> row.price,
                                            stock |-> row.stock, seller |-> u]]
    /\ UNCHANGED <<others, edits>>

\* The handler copies the fields given into an empty domain.Product, so a stock
\* left out is 0; Update then overlays them on the row it has read.
DecodedStock(body) == IF body.stock = None THEN 0 ELSE body.stock

Overlay(row, body) ==
    [row EXCEPT !.price  = IF body.price = None THEN @ ELSE body.price,
                !.stock  = DecodedStock(body),
                !.status = IF body.status = None THEN @ ELSE body.status]

BeginEdit(e, u, p, body) ==
    /\ edits[e] = NoEdit
    /\ Exists(p) /\ MayEdit(u, p)
    /\ edits' = [edits EXCEPT ![e] = [product |-> p, body |-> body,
                                      row |-> Overlay(products[p], body)]]
    /\ UNCHANGED <<others, products>>

\* A write outside a transaction waits for a row some transaction has locked.
Unlocked(p) == \A w \in Workers : ProductRow(p) \notin rows[w]

WriteProduct(e) ==
    /\ edits[e] # NoEdit
    /\ Unlocked(edits[e].product)
    /\ products' = [products EXCEPT ![edits[e].product] = edits[e].row]
    /\ edits' = [edits EXCEPT ![e] = NoEdit]
    /\ UNCHANGED others

EditFails(e) == /\ edits[e] # NoEdit
                /\ edits' = [edits EXCEPT ![e] = NoEdit]
                /\ UNCHANGED <<others, products>>

\* Delete reads the row only for its owner, which never changes: one step.
DeleteProduct(u, p) ==
    /\ Exists(p) /\ MayEdit(u, p)
    /\ Unlocked(p)
    /\ products' = [products EXCEPT ![p].status = "ARCHIVED"]
    /\ UNCHANGED <<others, edits>>

CreatePromoCode(u, c) ==
    /\ Seller(u)
    /\ c \notin issued
    /\ issued' = issued \cup {c}
    /\ UNCHANGED <<products, uses, orders, ops, now, pc, tx, rows, edits>>

CatalogRequest ==
    \/ \E u \in Users, p \in Products :
         \/ \E row \in NewRows : CreateProduct(u, p, row)
         \/ \E e \in Editors, body \in Bodies : BeginEdit(e, u, p, body)
         \/ DeleteProduct(u, p)
    \/ \E u \in Users, c \in Promos : CreatePromoCode(u, c)

CatalogStep == \E e \in Editors : WriteProduct(e) \/ EditFails(e)
=============================================================================
