---------------------------- MODULE ProductPages ----------------------------
(***************************************************************************)
(* GET /products: a count and then one page, in two queries without a      *)
(* transaction (repository/product.go, List), and a client that walks from *)
(* page to page until one is not full, while sellers create and edit.      *)
(***************************************************************************)
EXTENDS Marketplace

CONSTANTS
    Walkers,    \* clients that walk through the list
    Filters,    \* what they ask for: a status and a seller, None for any
    Size        \* products on a page

ASSUME PagesAssumption ==
    /\ Filters \subseteq [status : ProductStatus \cup {None}, seller : Users \cup {None}]
    /\ Size \in Nat \ {0}

VARIABLES
    born,   \* products.created_at
    walks   \* how far each walk has come

pvars == <<vars, born, walks>>

\* `start` is what the list held when the walk began, `left` and `joined` tell
\* whether it has lost or gained a product since, `cut` whether a page was.
NoWalk == [filter |-> None, at |-> "idle", page |-> 0, total |-> 0, seen |-> {},
           start |-> {}, left |-> FALSE, joined |-> FALSE, cut |-> FALSE]

\* The WHERE clause, for a table of products.
Listed(table, f) ==
    {p \in Products : /\ table[p].status # "NONE"
                      /\ f.status # None => table[p].status = f.status
                      /\ f.seller # None => table[p].seller = f.seller}

\* A count without the WHERE clause.
FaultyCounted(f) == {p \in Products : Exists(p)}

Counted(f) == Listed(products, f)

\* No ORDER BY: the rows in any order.
FaultyInOrder(s) == TRUE

\* ORDER BY created_at DESC: products of one microsecond come in any order.
InOrder(s) == \A i, j \in DOMAIN s : i < j => born[s[i]] >= born[s[j]]

\* Pages counted from one.
FaultyOffset(page) == IF page = 0 THEN 0 ELSE (page - 1) * Size

Offset(page) == page * Size

Walk(c, walk) == /\ walks' = [walks EXCEPT ![c] = walk]
                 /\ UNCHANGED <<vars, born>>

BeginWalk(c, f) ==
    /\ walks[c].at \in {"idle", "end"}
    /\ Walk(c, [NoWalk EXCEPT !.filter = f, !.at = "count", !.start = Listed(products, f)])

CountProducts(c) ==
    /\ walks[c].at = "count"
    /\ Walk(c, [walks[c] EXCEPT !.at = "rows",
                                !.total = Cardinality(Counted(walks[c].filter))])

\* The loop does not look at rows.Err(): a lost connection cuts the page short.
ReadPage(c) ==
    LET w == walks[c]
        list == Listed(products, w.filter)
    IN  /\ w.at = "rows"
        /\ \E s \in Orderings(list) : \E n \in 0 .. Size :
             LET first == Offset(w.page)
                 page == {i \in DOMAIN s : first < i /\ i <= first + Size}
                 got == {i \in page : i <= first + n}
             IN  /\ InOrder(s)
                 /\ Walk(c, [w EXCEPT !.at = IF Cardinality(got) < Size THEN "end" ELSE "count",
                                      !.page = @ + 1,
                                      !.seen = @ \cup {s[i] : i \in got},
                                      !.cut = @ \/ got # page])

\* A query fails and the client begins again, or gives up.
WalkFails(c) == walks[c].at \in {"count", "rows"} /\ Walk(c, NoWalk)

\* What a step of the marketplace means for the walks and for created_at.
Watch == walks' = [c \in Walkers |->
                     LET w == walks[c]
                         before == Listed(products, w.filter)
                         after == Listed(products', w.filter)
                     IN  IF w.at \in {"count", "rows"}
                           THEN [w EXCEPT !.left = @ \/ ~(before \subseteq after),
                                          !.joined = @ \/ ~(after \subseteq before)]
                           ELSE w]

Stamp == born' = [p \in Products |-> IF Exists(p) THEN born[p] ELSE now]

\* The products that exist have been created one after another.
PagesInit == /\ Init
             /\ \E s \in Orderings({p \in Products : Exists(p)}) :
                  born = [p \in Products |->
                            IF Exists(p) THEN -(CHOOSE i \in DOMAIN s : s[i] = p) ELSE 0]
             /\ walks = [c \in Walkers |-> NoWalk]

PagesNext == \/ Next /\ Watch /\ Stamp
             \/ \E c \in Walkers : \/ \E f \in Filters : BeginWalk(c, f)
                                   \/ CountProducts(c) \/ ReadPage(c) \/ WalkFails(c)

PagesSpec == PagesInit /\ [][PagesNext]_pvars

-----------------------------------------------------------------------------
(* Properties.                                                             *)

\* Two products of one created_at have no order, and may change places between
\* two pages.
Alone(p) == \A q \in Products \ {p} : Exists(q) => born[q] # born[p]

\* A finished walk has seen every product that was listed all the time, though
\* products are created and the pages shift under the client: new ones come
\* first and push the others to later pages only.  A product that leaves the
\* list (by an edit, by archiving) or a page that breaks off can hide others.
WalkComplete ==
    \A c \in Walkers :
      LET w == walks[c] IN
      w.at = "end" /\ ~w.left /\ ~w.cut => \A p \in w.start : Alone(p) => p \in w.seen

\* With nothing joining or leaving, the total of the last page is the number of
\* products the walk has seen.
TotalAgrees ==
    \A c \in Walkers :
      LET w == walks[c] IN
      /\ w.at = "end" /\ ~w.left /\ ~w.joined /\ ~w.cut
      /\ \A p \in w.start : Alone(p)
      => w.total = Cardinality(w.seen)
=============================================================================
