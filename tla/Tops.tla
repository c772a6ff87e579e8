-------------------------------- MODULE Tops --------------------------------
(***************************************************************************)
(* src/src/book2book.c -1, -N and -C: after every line of the input the    *)
(* top levels of both sides are compared with those printed last, and      *)
(* printed again, as a block of c-lines, only if they differ.              *)
(*                                                                         *)
(* The book is the map of BookSpec, read by the functions of Readers.      *)
(* seen is what a reader has who takes the last block for the whole truth. *)
(***************************************************************************)
EXTENDS BookSpec, Readers

CONSTANTS
    Trades,     \* quantities of trade quotes
    N,          \* -N: number of levels, if more than one
    cqty        \* -C: quantity or value to consolidate to

ASSUME TopsAssumption ==
    /\ Prices \subseteq Nat \ {0} /\ Qtys \subseteq Nat /\ Trades \subseteq Nat
    /\ N \in Nat /\ N > 1 /\ cqty \in Nat \ {0}

VARIABLES
    prq,        \* the printer chosen, "top", "quantity" or "value" consolidating,
    ntop,       \* and the number of levels it is for
    xb,         \* xb[s]: bids, bszs (asks, aszs) kept from the last block
    seen        \* seen[s]: the levels of side s in the last block

tvars == <<specVars, prq, ntop, xb, seen>>

-----------------------------------------------------------------------------
(* Options: flags -1, -2, -3, a number of levels (0: no -N), and a         *)
(* consolidation.                                                          *)

Options == [flags : SUBSET (1 .. 3), ntop : {0, 1, N}, cons : {"", "quantity", "value"}]

\* which of the functions prq* prints
Printer(o) ==
    IF o.cons # "" THEN o.cons
    ELSE IF o.ntop > 0 THEN "top"
    ELSE IF 2 \in o.flags \/ o.flags = {} THEN "2"
    ELSE IF 3 \in o.flags THEN "3" ELSE "top"

\* prq1, prqc and prqv rather than prqn, prqcn and prqvn
Single == ntop = 1

-----------------------------------------------------------------------------
(* What is printed of side s of the book f.                                *)

Ladder(s, f) ==
    LET l == BestFirst({p \in Prices : f[s][p].q > 0}, s = "BID")
    IN  [i \in DOMAIN l |-> [p |-> l[i], q |-> f[s][l[i]].q]]

Top(s, f) ==
    CASE prq = "top"      -> book_tops(Ladder(s, f), ntop)
      [] prq = "quantity" -> book_ctops(Ladder(s, f), cqty, ntop)
      [] prq = "value"    -> book_vtops(Ladder(s, f), cqty, ntop)

-----------------------------------------------------------------------------

PricesOf(b) == [i \in DOMAIN b |-> b[i].p]

\* quantities do not count
Same_Prices(b) == \A s \in Sides : PricesOf(b[s]) = PricesOf(xb[s])

\* nothing has changed: of consolidated levels only the prices are looked at
Same(b) ==
    \A s \in Sides :
       IF prq = "top" THEN b[s] = xb[s] ELSE PricesOf(b[s]) = PricesOf(xb[s])

\* A block is a line for each level of the longer side, but the printers for
\* one level print a line even if there is none.
Printed(b) == Single \/ \E s \in Sides : b[s] # <<>>

\* what is kept of a consolidated level does not include its quantity
Compare ==
    LET b == [s \in Sides |-> Top(s, lvl')]
    IN  IF Same(b) THEN UNCHANGED <<xb, seen>>
        ELSE /\ xb' = b
             /\ seen' = IF Printed(b) THEN b ELSE seen

Init1 ==
    /\ SpecInit
    /\ \E o \in Options :
          /\ prq = Printer(o) /\ prq \notin {"2", "3"}
          /\ ntop = IF o.ntop > 1 THEN o.ntop ELSE 1
    /\ xb = [s \in Sides |-> <<>>]
    /\ seen = [s \in Sides |-> <<>>]

\* one line of the input: book_add, then prq
Next1 ==
    /\ \/ \E s \in Sides, p \in Prices, q \in Qtys, t \in Times :
             SetLevel(s, p, q, t) \/ ReplaceSide(s, p, q, t)
       \/ \E s \in Sides : EmptySide(s)
       \/ EmptyBook
       \/ Refuse
       \/ \E p \in Prices, d \in Trades : Trade(p, d)
    /\ Compare
    /\ UNCHANGED <<prq, ntop, quo>>

Spec1 == Init1 /\ [][Next1]_tvars

-----------------------------------------------------------------------------

Shown == [s \in Sides |-> Top(s, lvl)]

\* book2book.yuck:14-15: "A 1-book at any time represents the top inner quote",
\* and -N and -C several or consolidated ones: though lines are only printed
\* when the comparison with what was kept says so, their reader always has the
\* current prices, of both sides and all levels, and without value
\* consolidation the quantities too.  A book that has become empty on both
\* sides is not reported by the printers for several levels.
TopsFollow ==
    Printed(Shown) =>
       \A s \in Sides :
          /\ PricesOf(seen[s]) = PricesOf(Shown[s])
          /\ prq # "value" => seen[s] = Shown[s]

=============================================================================
