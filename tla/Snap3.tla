------------------------------- MODULE Snap3 --------------------------------
(***************************************************************************)
(* booksnap -3, src/src/booksnap.c: a snapshot is printed as the changes   *)
(* since a photo-copy of each book taken at the last snapshot.  One side   *)
(* of several books; a step is a round of the printing loop.               *)
(*                                                                         *)
(* The photo of a book is an array that is never cut back: past the bn     *)
(* levels of the last photo it holds levels of older ones, and past those  *)
(* whatever realloc found there.                                           *)
(***************************************************************************)
EXTENDS Readers, SequencesExt

CONSTANTS
    Books,
    Prices,
    QuotePrices, \* QuotePrices[k]: prices quoted for book k
    MaxQty,      \* MaxQty[k]: bound on their quantities
    Chunk,       \* the photo array's length is a multiple of this: 8
    Spares       \* what memory never written to may read as

ASSUME Snap3Assumption ==
    /\ Prices \subseteq Nat \ {0} /\ IsFiniteSet(Prices) /\ IsFiniteSet(Books)
    /\ QuotePrices \in [Books -> SUBSET Prices]
    /\ MaxQty \in [Books -> Nat \ {0}] /\ Chunk \in Nat \ {0}
    /\ Spares \subseteq Nat

VARIABLES
    desc,       \* TRUE: bids
    spare,      \* one of Spares
    cont,       \* the books there are
    lv,         \* lv[k][p]: quantity on offer
    photo,      \* photo[k]: arr, the b and B of snap3_aux[k], and bn
    zbk, ibk,   \* the length of snap3_aux, and the index of the book in hand
    pc,         \* "feed": between snapshots; "snap": at a book; "print"
    it, bi,     \* position of the iterator, and in the photo
    sum,        \* sum[p]: the changes printed for p at this snapshot
    held,       \* held[k]: the book k at its last snapshot
    lost        \* the books whose photos are gone

memory  == <<photo, zbk>>
loop    == <<it, bi, sum>>
history == <<held, lost>>
vars3   == <<desc, spare, cont, lv, memory, ibk, pc, loop, history>>

Ahead(a, b) == Precedes(desc, a, b)

Here == cont[ibk + 1]

\* what the iterator returns
Cur == BestFirst({p \in Prices : lv[Here][p] > 0}, desc)

arr == photo[Here].arr
bn  == photo[Here].bn

Nothing == [p \in Prices |-> 0]

NoPhoto == [arr |-> [j \in 0 .. Cardinality(Prices) |-> [p |-> spare, q |-> spare]], bn |-> 0]

-----------------------------------------------------------------------------

\* a quote between snapshots; the first one makes the book
Feed(k, p, q) ==
    /\ pc = "feed"
    /\ lv' = [lv EXCEPT ![k][p] = q]
    /\ cont' = IF k \in Range(cont) THEN cont ELSE Append(cont, k)
    /\ UNCHANGED <<desc, spare, memory, ibk, pc, loop, history>>

Begin ==
    /\ pc = "feed"
    /\ cont # <<>>
    /\ pc' = "snap" /\ ibk' = 0
    /\ UNCHANGED <<desc, spare, cont, lv, memory, loop, history>>

\* only when the index is past the end already
Outgrown_Late == ibk > zbk

Outgrown == ibk >= zbk

\* while ((zbk *= 2U) < ibk);
Doubled ==
    Min({z \in 2 * zbk .. 2 * (zbk + ibk) : z >= ibk /\ \E j \in 1 .. ibk + 1 : z = zbk * 2 ^ j})

\* The array of photos is resized, and then replaced by an empty one
snap3 ==
    /\ pc = "snap"
    /\ IF Outgrown
       THEN /\ zbk' = Doubled
            /\ photo' = [k \in Books |-> NoPhoto]
            /\ lost' = Books
       ELSE UNCHANGED <<memory, lost>>
    /\ pc' = "print" /\ it' = 1 /\ bi' = 0 /\ sum' = Nothing
    /\ UNCHANGED <<desc, spare, cont, lv, ibk, held>>

\* the total where the change is due
Change_Total(i) ==
    LET pp == arr[bi]
    IN  IF bi >= bn \/ Ahead(i, pp.p) \/ i = pp.p THEN [p |-> i, d |-> lv[Here][i]]
        ELSE [p |-> pp.p, d |-> -pp.q]

\* the line printed when the iterator is at price i: a new level, a changed
\* one, or one that is gone
Change(i) ==
    LET pp == arr[bi]
    IN  IF bi >= bn \/ Ahead(i, pp.p) THEN [p |-> i, d |-> lv[Here][i]]
        ELSE IF i = pp.p THEN [p |-> i, d |-> lv[Here][i] - pp.q]
        ELSE [p |-> pp.p, d |-> -pp.q]

\* a level printed, and "see where to go next", which looks at the entry behind
\* the photo too.  The line is labelled B2 or A2 (booksnap.c:435-436), as if its
\* quantity were a total; the label is left out, d is the increment it carries.
Line ==
    /\ pc = "print"
    /\ it <= Len(Cur)
    /\ LET i == Cur[it]
           c == Change(i)
           onward == bi < bn /\ ~Ahead(i, arr[bi].p)
           again == onward /\ Ahead(arr[bi + 1].p, i)
       IN  /\ sum' = [sum EXCEPT ![c.p] = @ + c.d]
           /\ bi' = IF onward THEN bi + 1 ELSE bi
           /\ it' = IF again THEN it ELSE it + 1
    /\ UNCHANGED <<desc, spare, cont, lv, memory, ibk, pc, history>>

\* make a photo-copy of that book, and on to the next
snap3_book ==
    /\ pc = "print"
    /\ it > Len(Cur)
    /\ photo' = [photo EXCEPT ![Here] =
          [arr |-> [j \in DOMAIN arr |->
                      IF j < Len(Cur) THEN [p |-> Cur[j + 1], q |-> lv[Here][Cur[j + 1]]] ELSE arr[j]],
           bn |-> Len(Cur)]]
    /\ held' = [held EXCEPT ![Here] = lv[Here]]
    /\ lost' = lost \ {Here}
    /\ ibk' = ibk + 1
    /\ pc' = IF ibk + 1 < Len(cont) THEN "snap" ELSE "feed"
    /\ it' = 1 /\ bi' = 0 /\ sum' = Nothing
    /\ UNCHANGED <<desc, spare, cont, lv, zbk>>

\* books given with --instr are there from the beginning
Init3 ==
    /\ desc \in BOOLEAN /\ spare \in Spares
    /\ cont \in {<<>>, SetToSeq(Books)}
    /\ lv = [k \in Books |-> Nothing]
    /\ photo = [k \in Books |-> NoPhoto]
    /\ zbk = (Len(cont) \div Chunk + 1) * Chunk
    /\ ibk = 0 /\ pc = "feed" /\ it = 1 /\ bi = 0 /\ sum = Nothing
    /\ held = [k \in Books |-> Nothing]
    /\ lost = {}

Next3 ==
    \/ \E k \in Books : \E p \in QuotePrices[k], q \in 0 .. MaxQty[k] : Feed(k, p, q)
    \/ Begin \/ snap3 \/ Line \/ snap3_book

Spec3 == Init3 /\ [][Next3]_vars3

-----------------------------------------------------------------------------

\* The photo of the book in hand is within the array of photos, although that
\* array grows by doubling and only when the book's turn comes.
PhotoInBounds == pc = "print" => ibk < zbk

Printed == pc = "print" /\ it > Len(Cur)

\* what the photo has of the last snapshot
Before(p) == IF Here \in lost THEN 0 ELSE held[Here][p]

\* the entry behind the photo, that of an older photo or of no photo at all, is
\* taken for a level
Misled(p) == bn > 0 /\ p = arr[bn - 1].p /\ Ahead(arr[bn].p, p)

\* booksnap.yuck:18-19: "A 3-book disaggregates the 2-book and indicates
\* increments (or decrements if QUANTITY is negative) to a price level":
\* whatever was quoted, made or deleted in between, the lines printed for a
\* price amount to the change since the last snapshot, down to the first level
\* that is gone, unless the entry behind the photo says otherwise.  Once the
\* array of photos has grown all photos are lost (booksnap.c:425) and changes
\* count from an empty book: then the lines amount to the totals (Before).
ChangesAddUp ==
    Printed =>
       LET gone == {g \in Prices : Before(g) > 0 /\ lv[Here][g] = 0}
       IN  \A p \in Prices :
              (\A g \in gone : Ahead(p, g)) /\ ~Misled(p) => sum[p] = lv[Here][p] - Before(p)

\* The same for all levels: booksnap.yuck:18-19 again.
ThreeBook == Printed => \A p \in Prices : sum[p] = lv[Here][p] - held[Here][p]

=============================================================================
