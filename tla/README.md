# TLA+ models of books

`src/` is *books*, a C library for limit order books (`src/src/books.c` on top
of the B+tree `src/src/btree.c`) with two filters built on it: `book2book`
converts a stream of quotes between book flavours, `booksnap` prints snapshots
of all books in a stream at regular times.  This directory holds models of
them, the TLC runs that check the models, and TLAPS proofs about the book in
one leaf and about both filters.

`PROJECT.json` is the index: components, runs, the source lines behind every
definition (`map`), the mistakes each property is known to catch (`mutants`),
findings, hazards and theorems.

## The system

The programs are sequential: one process reads lines from stdin and writes
lines to stdout.  What is hard is not concurrency between threads but state
that is shared between *operations*: a dead price level keeps its slot and its
bit until some later insertion or iteration comes past it, an iterator is open
while the tree is written to, a pointer into a leaf is held while the leaf is
split, the metronome of `booksnap` carries state from one quote to the next.
All of it depends on long sequences of legal calls, which is what a model
checker enumerates.

| part | source | state | operations |
|---|---|---|---|
| leaf | `btree.c` `leaf_*`, `btree_iter_next` | sorted `key[]`, `val[]`, count `n`, 64-bit `used` | put, get, remove, clear, iterate |
| tree | `btree.c` | nodes, `next` chain, `splitp` | root split, node split with take-over of a free sibling, put, top, remove, clear |
| book | `books.c` | one tree per side | `book_add` (flavours CLR, DEL, LVL_1, LVL_2, LVL_3), `book_clr`, `book_exp`, readers |
| depth readers | `books.c` `book_ctop(s)`, `book_vtop(s)`, `book_pdo` | locals of a loop | consolidation by quantity or value, paydown to a limit |
| book2book | `book2book.c` | table of books; unwinding in `main` | printers `prq1` .. `prqvn` |
| booksnap | `booksnap.c` | table of books, metronome, `snap3_aux` photos | `_next_intv`, `_next_stmp`, `badd`, snappers `snap1` .. `snapvn` |
| quote reader | `xquo.c` | none | `read_xquo`, `strtotv`, `tvtostr` |
| decimals | `dfp754_d64.c`, `dfp754_d32.c` | none | read, print, quantise, scale, in two encodings |
| hash, memrchr | `hash.c`, `memrchr.c` | none | helpers |

Calls go one way: filter -> `read_xquo` -> `book_add`/`book_exp`/readers ->
tree.  There are no callbacks.  The tree hands out two kinds of references that
outlive a call: the value pointer of `btree_put` (used at once by `book_add`)
and the iterator (used across calls of `book_add` by `book2book`).

What makes each part correct:

* leaf and tree: strict order, every price in one place, a put changes no other
  level, search and chain agree on where the leaves are;
* book: what books.h promises, a map from price to quantity and time on each
  side; the iterator shows every level;
* book2book: whoever reads the output has the book the program has;
* booksnap: a snapshot stamped *m* shows the quotes up to *m*, without those
  invalidated; stamps advance along the grid; a gap left out is a gap in which
  nothing changed; catching up comes to an end; changes printed add up;
* readers and decimals: a consolidated price is the average paid, a number is
  read as the nearest one there is and printed as what it is, and a line that
  one program printed is read by the next as the quote it was printed for.

## Modules

```
Leaf ── Books ── BooksProps ── MCBooks
 │        │          ├── BooksProofs ─────────┐
 │        │          └── Convert ── MCConvert │
 │        └ (refines)       └────── ConvertProofs
 │            BookSpec
 └── BTree ── BTreeProps ── MCBTree
Decimal ── Decimal64 ── Readers ── Depth ── MCDepth
   │           │           ├────── Tops  ── MCTops     (and BookSpec)
   │           │           ├────── Snap  ── MCSnap
   │           │           ├────── Snap3 ── MCSnap3
   │           │           └────── ReadersProofs ── DepthProofs, TopsProofs, SnapProofs, Snap3Proofs
   └─ Decimal32 └── XQuo ── Wire ── MCWire             (and Decimal32)
                             └───── WireProofs
```

**Leaf** is the pure part of `btree.c`: a record `[desc, n, used, key, val]`
and the operators `leaf_get`, `leaf_add`, `btree_clr`, and the iterator.
`used` is the set of positions of 1-bits.  Three points of the code matter and
are kept as they are:

* Insertion takes the *first* dead slot, to the left or right of the position
  found, and moves everything between by one (`Moved`, `Landing`).
* The bitmap is moved by clearing the mask and *toggling* the shifted mask
  (`MovedUsed` is a symmetric difference).  If the dead slot's bit was still
  set the toggle switches a bit off that should be on.
* `btree_iter_next` takes `__builtin_ctzll` of what is left of the bitmap,
  which is undefined for 0.  `Walks` is the set of level sets a complete walk
  may return: the live levels with a bit, and any subset (`Stray`) of the live
  levels past the last bit.  Properties that claim something good quantify
  over all walks, those that report something bad over some walk, so neither
  depends on what the compiler makes of it.

**Books** has one action per flavour of `book_add` (the negative top level, the
level-0 quote and the unknown side are `AddInv`), plus `book_exp` and `Read`,
which stands for every reader: *m* calls of the iterator, whose only effect is
to switch off bits of dead levels.  It covers books while a side fits in one
leaf: a put is enabled only while the leaf is not `Full`.  `quo` is the quote
`book_add` was given and `ret` what it returned.

**BookSpec** is the abstract specification: a map, no slots.  `BooksProps`
defines the refinement mapping (`Contents`: look every price up with
`leaf_get`; quantities `<= 0` are no level).  `quo` and `ret` are variables of
both, so a step of the book can only be matched by the abstract step for the
same quote and the same answer.

**BTree** is the tree beyond one leaf: `heap` maps node numbers to nodes,
`root_split`, `node_split` (with `SpareKid`, `Shifted`, `Unlinked` for the
take-over of a sibling whose levels are all dead), `twig_add`, the chain of
leaves, `btree_top`, `btree_rem`, clear and full iteration.  `Put` is
`btree_put` *and* the write through the pointer it returned, which is what
`book_add` does; the pointer is a node and a slot, valid or not.  `Bind` only
makes TLC evaluate an argument once.

**Convert** is `book2book -2` and `-3` (variable `mode`): each action is a
round of the main loop, book update and lines printed, for quotes of all
levels, with and without a price, refused ones, clears and trades.  `mirror` is
what a reader makes of those lines.  A level-1 quote and a clear are unwound
level by level with the iterator open (`Unwound`); for one without a price the
loop calls the iterator once, which still switches off bits of dead levels.

**Readers** says without loops what `book_tops`, `book_ctops` and `book_vtops`
return, rounding included.  **Depth** has the loops of `book_ctops`,
`book_vtops` and `book_pdo`, a round per step, on exact fractions, and compares
them with Readers and with definitions of its own.  Only the division that gives
a price is rounded as the code does it, to the digits a number has and then to
the quantum; the excess that `book_vtop(s)` divide first (`books.c:325`, `357`)
stays a fraction.

**Tops** is `book2book -1`, `-N` and `-C`: the choice of the printer from the
options, the top levels the six printers look at (plain, consolidated by
quantity, by value; one level or several), the comparison with what was kept
from the last block, and the block printed if they differ.  The book is
`BookSpec`; `xb` is what the program keeps and `seen` what its reader has.

**Snap** is the main loop of `booksnap`: `Read` is a line read, `Snapshot` a
round of the do-while that catches up, `Finish` the end of the input.  The
command line is a variable `cmd`, chosen at the start, and `opt` what `main`
makes of it (`Options`: units, the offset brought into the interval, the
snapper), so one run covers several command lines.  A book is reduced to which
prices are live and until when; each snapper (`snap1` .. `snapvn`) is what it
shows of the live prices.  `quoted` and `since` are history, read by properties
only.

**Snap3** is `snap3`: the merge of the current book with a photo of the last
snapshot, one line per step, for either side of several books, with the array
of photos that grows when a book's turn comes (`Outgrown`, `Doubled`), the
photo that is never cut back and the memory behind it that was never written
(`spare`).  The lines are labelled `B2` and `A2` (`booksnap.c:435-436`), as those
of a 2-book with totals are; the label is not modelled, the quantity is the
increment.  `held` and `lost` are history.

**Decimal** is the decimal library, parameterised by its widths and
instantiated as **Decimal64** and **Decimal32**.  A numeral is a record of its
sign and digits; a number is the record of the fields of its bits, in the
binary (`bid`) or the packed (`dpd`) encoding; a BCD mantissa is the number it
stands for.  Reading takes a number of digits and rounds by the next
(`strtobcd`, `round_bcd`, with a mask of 32 bits, `MD` digits, in either file);
declets are packed and unpacked bit by bit; rounding to an exponent goes digit by
digit (`Shortened`).  The two files differ in what `Wide` selects: how the packed
exponent is masked, and the digit lost when rounding.  Decimal32 puts the
functions of `dfp754_d32.c` together from those.  `unpackd` is how the printers
take a number apart; `decompd64` and `decompd32`, which no program calls, are
left out.

**XQuo** is `xquo.c`.  A line is the sequence of its fields, and `read_xquo`
takes them from the right as the code does; action letters are ASCII codes
since what happens to an unknown one depends on its bits.

**Wire** composes them: a machine that reads, computes, prints, quantises and
scales numbers with either library and encoding, and reads lines, prints them
as `prq2` or `snap2` would, and reads what was printed.  Its properties measure
numbers by `Denoted`, what the fields of the bits stand for by IEEE 754, not by
the decoders of the code.

## Runs

All are listed with their properties in `PROJECT.json`; `tlc -config X.cfg M`
in this directory repeats one.

| run | what it shows |
|---|---|
| `feed` | A book fed with quotes of levels 1-3 and clears, read in between, refines `BookSpec` (`FeedIsMap`). |
| `books` | Under all operations, with both sides quoted, the leaf keeps its type and order; insertions hide nothing on a side without stale bits (`SettledKeepsVisible`); trades and expiries remove exactly what `BookSpec` says, quotes at the time of expiry included (`RemovesExactly`). |
| `tree` | Puts, removals, clears and walks on trees of up to three levels: shape, order, chain of leaves, `btree_top` finds the best level, a put keeps all others. |
| `convert` | Quotes of all levels, clears and trades converted to a 2-book or a 3-book: a reader who has the book still has it after the next total, new level, clear or (with `-2`) trade (`OutputFollows`), and has the right best prices after the next top (`TopFollows`). |
| `tops` | The reader of the blocks of `-1`, `-N`, `-C` has the current top levels although a block is only printed when the comparison with the last one says so (`TopsFollow`). |
| `snap` | Twelve command lines (intervals with units, offsets of either sign, invalidation, filters, a stamps file with a catch-all, eight snappers, errors): a snapshot shows what the options ask for of the quotes up to its stamp, stamps advance along the grid as given, gaps left out are quiet, expiries are shown, catching up ends. |
| `snap3` | With books that appear between snapshots and levels that come, change and go: the photo of the book in hand is always inside the array (`PhotoInBounds`), and the changes printed add up down to the first level that is gone (`ChangesAddUp`). |
| `depth` | Consolidated levels and paydown equal their loop-free definitions (`ConsolidatedExactly`, `FilledWithinLimit`); the prices returned are less than 5/9 of a unit off and within the prices used (`PriceRounded`). |
| `wire` | Numbers are printed as what their bits denote (`PrintedExactly`) and numerals read as the nearest number, but for those the mask of `round_bcd64` spoils, which never are (`ReadNearest`); `quantized` and `scalbn` do what their headers say (`QuantisedAndScaled`); a line printed is read back as its quote (`LinesReadBack`).  Both libraries, both encodings. |

The other runs end in a violation.  Each is a place where the code does not do
what its documentation says; the finding in `PROJECT.json` quotes both.

| run | what TLC finds |
|---|---|
| `top_hidden` | Price 1 is live, price 2 dead with its bit still set, and 3 is quoted.  The dead slot is to the left of where 3 goes (`btree.c:305-311`): the mask is the dead slot's bit, and shifted right it toggles off the bit of the live level in front of it, which has not moved.  The iterator no longer sees the best level. |
| `put_lost` | A put that splits its leaf may write through a pointer into the half that was just copied away. |
| `snap3_tail` | Levels of the photo behind the last current one are never reported gone. |

### Where the passing properties stop

The models reproduce more deviations than those with a run.  They are why some
properties have a condition:

* A trade for more than a level holds leaves a negative quantity behind, and
  the next level-3 quote is added to that (`books.c:164`).  `FeedIsMap` is
  about feeds without trades.
* A level-1 quote clears its side before it reads it, so it never returns an
  old level, though `books.h:212-216` promises the previous state.  `BookSpec`
  has what the code does (`ReplaceSide`).
* `books.h:223` says that `book_exp` expunges quotes "older than T"; the code
  expunges those exactly at T too (`books.c:200`), and test `booksnap_10` expects
  so.  `RemovesExactly` and `BookSpec` have what the code does; the header's
  reading is the mutant `Expunged_Older`.
* In a tree of three levels a leaf taken over across parents drops out of the
  chain, and `btree_clr` does not reach it.  `ChainInOrder` and `TopOfTree`
  are claimed of trees of two levels; the others hold for three.
* A level-1 quote clears its side; `book2book` takes back only the levels better
  than it, so the reader keeps those behind.  `TopFollows` is about best prices.
* A trade removes levels with the iterator and leaves those it does not see,
  while the reader takes the trade off all of them.  `OutputFollows` asks for
  sides that are visible before a trade.
* `prq2` prints a level-3 change as if it were a total, and `prq3` takes the old
  total off it; a quote `book_add` refuses is printed nevertheless; a level-1
  quote without a price empties the side and prints nothing that says so; a
  trade is printed by `prq3` with quantity 0; over a level that is overdrawn
  `prq3` prints too large a change.  Convert models all of these, and
  `OutputFollows` leaves these steps out.
* A split does not copy the bitmaps (`btree.c:130`): the new leaves' are empty,
  and after a put behind them no walk returns the levels in front.  `tree` is
  about what is stored, not about what is seen.
* With `--invalidate`, a quote that expired early in a gap stays in the picture
  past its time.  `GapsAreQuiet` is about runs without.
* `snap3` compares the photo one entry past its end; whatever is there, for asks
  a 0 too, may have a level printed twice.  `ChangesAddUp` excludes the level
  this happens to (`Misled`), and levels behind one that is gone.  When the array
  of photos grows all photos are lost, and changes count from nothing.
* An hour is `60*60*1000` ns in `sufstrtotv`.  With `--stamps` the offset is
  kept but nothing uses it.
* `round_bcd64` rounds with a mask of 32 bits on a mantissa of 64
  (`dfp754_d64.c:377`): of a numeral with more than 15 digits that is rounded up,
  digits more than eight in front of the one changed are lost, so that
  `1.2345678901234567` is read as 0.00000089012346.  `Masked` says for which
  numerals, and `ReadNearest` that these are off by more than a unit and all
  others by no more than half of one.  In `wire` these are numerals like 45.05,
  whose first digit is lost.
* Numerals with more digits than are kept: negative ones are rounded the wrong
  way, all nines become 0 (a carry is cut off), and with the point right behind
  the last digit kept there is no rounding.  `ReadNearest` says so.  A negative
  one whose digits kept are all 0 is never done (`Endless`): it is not read.
* The packed 64-bit encoding loses a 16th digit when it rounds.
  `QuantisedAndScaled` leaves numbers with that digit out.
* The packed encodings misread exponents: the least one of a positive number
  without leading digit is taken for 0 (`dfp754_d64.h:131`), and the 64-bit one
  mixes the bits up for a leading 8 or 9 (`dfp754_d64.h:138`).  `Misread` lists
  these numbers and `PrintedExactly` leaves out no others.
* A letter for the side that is not known gets its lower four bits as side, though
  a comment (`xquo.c:180-182`) says it goes to `SIDE_UNK`; no property is about
  this, as what is read so is also printed so.  An
  empty instrument is lost with its tab.  `LinesReadBack` is about lines with an
  instrument.
* A book that becomes empty on both sides prints nothing with `-N 2`; with
  value consolidation the quantity of a level may be out of date.
  `TopsFollow` excludes both.

### Bounds

* `NKeys` is 64 in the code and 4 or 5 here.  The code's arithmetic on
  positions does not depend on it (the proofs hold for every `NKeys`); four
  slots make the fourth key split the root and two more split a leaf, and with
  seven keys and eight nodes the root is split twice, so that inner nodes split
  and are walked.  `BTree` needs `NKeys` even, as 64 is.
* Three or four prices reach every relation of dead slot, new key and live
  level: dead slot left, right, adjacent, none.  `feed` has four prices on one
  side; `books` three bids and one ask, so that trades and expiries hit both
  sides.  Each configuration picks sides to keep the state space small; the
  code for both is the same but for the order, and both orders are run.
* Quantities 0 to 2 (`MaxQty`) tell dead, live, reduced and overshot levels
  apart; it is a guard on level-3 quotes only.  `MaxReads` 2 stops a walk at the
  first level, behind it, or at the end.  In `tree` one quantity is enough: dead
  levels come from `Rem`.
* `MaxSeen` 3 caps what the reader's copy of a level may grow to in Convert,
  where `Qtys` go up to 2.
* `Times` of two values: older and younger.  In Snap a `Horizon` of 7 holds
  several intervals, a gap longer than `inva`, and quotes on and off the grid;
  two prices and two instruments, so that top and consolidated levels differ
  from the whole book.  Units are scaled down: `MSECS` 2 and `SIXTY` 3 give
  seven different suffixes, a second of 8 ns and a minute beyond the horizon.
* Snap3: three prices in one book and one in another, which may be there from
  the start or appear later; `Chunk` 1 instead of 8 makes the second book
  outgrow the array.  `Spares` are 0, which is what fresh pages read as, and a
  number above all prices: compared with a price, everything else is like one
  of the two.
* Tops: three prices, two levels, consolidation to 2, so that a consolidated
  level ends within a price level, at its end, or is not filled.
* Depth: up to three levels, four prices, so that one consolidated level spans
  several book levels and several consolidated levels one book level.

* Decimals: 15 digits read and 16 kept become 3 and 4, 53 bits become 13.  The
  code relies on 2^53 < 10^16 < 2^53 + 2^51, and so does `WellScaled`; the 8 digits
  of a mask of 32 bits become 2, fewer than the 3 read, and 5 in the 32-bit
  library, where they are more than are read; numerals
  of up to five digits from {0, 4, 5, 9} are shorter, as long and longer than
  what is kept, with the point in every place.  All of 0, 3 to 6, 8 and 9 occur
  in declets.  `G` is 2 instead of 3 digits in a group of a time stamp.
  Exponents stay near 0, as TLC's integers have 32 bits: no exponent there is
  `Misread`, which only the theorem covers.

Views leave out what no later step reads.  `BookView` and `TopsView` drop `quo`
and `ret`, `ConvView` the same; TLC still evaluates action properties on every
step, seen before or not.  `WriteView` drops what lies past `n` in a node, the
last put, and `used`, which only the iterator reads and only writes: under it
`tree` has properties of keys, values and links only.

### Fairness and deadlock

The one fairness condition is weak fairness of `Snapshot` in Snap: it is the
body of a loop in a sequential program, which runs on its own.  Nothing is
assumed of the input.  Deadlock is allowed in Snap and Depth, whose programs
end; everywhere else TLC checks that some operation is always possible.

## Proofs

| theorem | module | says |
|---|---|---|
| `TypeCorrect` | BooksProofs | `Spec => []TypeOK` |
| `StaysSorted` | BooksProofs | `Spec => []Sorted` |
| `FeedRefines` | BooksProofs | a feed whose totals are not negative implements `BookSpec` |
| `SettledStaysVisible` | BooksProofs | `Spec => SettledKeepsVisible` |
| `VisibleRemovesExactly` | BooksProofs | `Spec => RemovesExactly` if trades are not negative |
| `OutputAlwaysFollows` | ConvertProofs | `ConvSpec => OutputFollows` if trades are not negative |
| `TopAlwaysFollows` | ConvertProofs | `ConvSpec => TopFollows` if totals are not negative |
| `TopsAlwaysFollow` | TopsProofs | `Spec1 => []TopsFollow` |
| `DepthConsolidates` | DepthProofs | `DepthSpec => []ConsolidatedExactly` |
| `DepthRounds` | DepthProofs | `DepthSpec => []PriceRounded` |
| `DepthFills` | DepthProofs | `DepthSpec => []FilledWithinLimit` |
| `NumbersPrintExactly` | WireProofs | `WireSpec => []PrintedExactly` |
| `NumeralsReadNearest` | WireProofs | `WireSpec => []ReadNearest` |
| `LinesAlwaysReadBack` | WireProofs | `WireSpec => LinesReadBack` |
| `NumbersQuantiseAndScale` | WireProofs | `WireSpec => QuantisedAndScaled` for exponents that are read right |
| `SnapshotsAreTruthful` | SnapProofs | `SnapSpec => SnapTruthful` |
| `StampsAlwaysAdvance` | SnapProofs | `SnapSpec => StampsAdvance` |
| `GapsAreAlwaysQuiet` | SnapProofs | `SnapSpec => GapsAreQuiet` |
| `ExpiryIsShown` | SnapProofs | `SnapSpec => ExpiryShown` |
| `PhotosStayInBounds` | Snap3Proofs | `Spec3 => []PhotoInBounds` |
| `ChangesAlwaysAddUp` | Snap3Proofs | `Spec3 => []ChangesAddUp` |

A run shows each of these properties on a small instance, its theorem for every
value of the constants.  `tlapm M.tla` checks the proofs of module M.

### Assumptions

* Book and `book2book`: every leaf size `NKeys >= 2`, every set of prices,
  quantities and times.  `NKeysAssumption`, `NaNAssumption` (NaN is not a
  number), `FeedAssumption` (types of the feed, times positive and below NATV),
  `ReturnAssumption` (return markers are not levels).  Three theorems name one
  more: a *total* must not be negative for the map (a level-2 quote of -1
  leaves a residue that a level-3 quote then starts from), nor a top for
  `TopFollows`, whose tops have a quantity; a *trade* must not be negative for
  `RemovesExactly` and `OutputFollows` (it would add to a dead level).
* Tops: any positive prices, number of levels, quantity or value to
  consolidate to (`TopsAssumption`).
* Depth: any side of any number of levels, with positive prices, quantities and
  times below NATV, any quantity, value and number of levels asked for
  (`DepthAssumption`).  A price has at most four digits, which is all a number
  of `Decimal64` holds.
* Wire: numerals of any length with any digits, mantissas of up to four digits,
  any exponents; lines are sequences of any fields of which the last three are
  an action, a price and a quantity, and a unit of time has up to three digits,
  of which the code has all (`WireAssumption`).  `NumbersQuantiseAndScale` needs
  one thing more (`Scalable`): exponents from -99 to 153, so that a field neither
  wraps around nor is 0.  The widths of the encodings are the scaled
  ones of the models, which are definitions: the proofs are for every number of
  these formats, not for every format.
* Snap: any command lines of the form `main` reads, of all snappers but `snap3`,
  any `Horizon` below NATV, any finite set of prices, any input.  The input and a
  stamps file are in order of time (the guard of `Read`, `LinesAssumption`): the
  program presumes so without checking, as it only ever looks forward.
* Snap3: any finite set of books and of positive prices, any `Chunk`, any
  content of the memory behind the photos.

### Inductive invariants

**BooksProofs**: `TypeOK /\ Sorted`.  Neither part is inductive
alone where it matters: that `leaf_add` puts a key where it belongs needs the
slots below `n` to be ordered, *dead ones included*, and that `n` stays below
`NKeys` and padding stays NaN needs that the search stops at `n`.  The lemmas
go along `leaf_add`: what the linear search returns (`Slot`), what the first
dead slot is, where every slot of the new leaf comes from (`Moved`, in the
three cases hole to the right, to the left, none), and from those order and
type of the result.  All other operations keep keys and count.

For the refinement it is extended by "no quantity is negative",
which is exactly what trades break.  The key lemma: after
`leaf_add` and the write, every other price looks up what it looked up before,
because the only level that gives up its slot is a dead one.

For `SettledStaysVisible` the bitmap is followed through
`MovedUsed` case by case: with no bit on a dead level the toggle never meets a
set bit, so it is a shift.  For `VisibleRemovesExactly` a walk over a side
that is visible is shown to return all live levels, so that the walk of a trade,
which stops one level behind the price, has passed every level that is better;
the levels it zeroes are then compared with `BookSpec` price by price.

**ConvertProofs** uses the invariant of BooksProofs for a book changed by other
actions, and that the reader's quantities are whole and not negative
(`ConvKeeps`).  Three lemmas carry the rest.  Levels taken back while the
iterator is open leave the leaf in order and every other level alone
(`UnwoundKeeps`, `UnwoundContents`); the lines printed for them do the same to
the reader's copy (`UnwoundMirrored`), whichever levels the iterator returned;
and where the iterator sees all, the loop has gone past exactly the levels ahead
of the new top when it stops (`AheadReached`, which needs the order).

**TopsProofs** (`TopsInv`): what is kept agrees with the book as far as `Compare`
looks, and it is what the reader has.  The comparison ignores quantities once
levels are consolidated; they are right nevertheless because the *i*-th
consolidated level always has *i* times the quantity asked for (`Multiples`),
so lists with the same prices are the same.

**DepthProofs** (`DepthInv`): `Asked` types the arguments.  `Consolidating` says
what the loop of `book_ctops` and `book_vtops` has behind it after any number of
rounds: value and quantity are totals over the levels walked, every level found
so far is the one for its multiple of `Q` at the first book level that reaches
it (`FirstReaching`, `EntryAt`), and the walk is never further than the next
result needs.  `Filling` is the same for `book_pdo`, where the last level may be
taken in part.  Totals are then tied to the sums of the properties
(`SumFunctionOnSet`).  For `PriceRounded` the average of prices between two
bounds lies between them (`WorthBetween`, `AverageBetween`), and rounding digit
by digit is less than 5/9 off and stays within whole bounds (`QuantizeRounds`).

**WireProofs** (`WireInv`): a number in hand is one of the library (`Number`);
after reading it is what the numeral makes, after printing the text is that of
the number.  `Known` ties the two views of a number together: what its bits
denote (`Denoted`), and what the printer takes it apart into (`Gives`), which is
the same unless the exponent is misread.  `Reads` says what `strtod` makes of a
numeral, `RoundingUp` and `MaskedIs` what the mask leaves of the mantissa and
when that is less than all of it, and `FarOff` that the number is then off by
more than a unit.  The work is in the lemmas: what digits read one after
the other stand for (`Horner`), that of two strings of digits in a row
(`ValueConcat`, `ValueBound`), that three digits survive the declet they are
packed in, that a mantissa survives either encoding (`StoredMant`,
`PackedMant`), and that reading stops with the digits taken and a rest that
decides the rounding.  The libraries differ in the digits they read; both are
instances of one reading with *k* digits (`DigitsOf`, `ExpoOf`).

For `LinesReadBack` there is `LineInv`: a quote in hand was read from one of
the lines, and a line printed says what the quote is (`Says`).  That it is read
back rests on two lemmas.  `ReadAgain`: all that is behind the first digits of a
number printed, from the first one that is not 0, is zeros (`RestIsZero`), so
reading it again drops nothing; this holds of numbers that were read, and would
not of one with a digit more.  `TimeAgain`: a time printed has all its groups of
digits.

For `QuantisedAndScaled` there is `ComputeInv`: what was computed is a mantissa
and an exponent in the encoding of the build (`Encoded`), which is what its bits
denote and what it is taken apart into (`EncodedKnown`).  Rounding digit by digit stays within 5/9 of a unit
however many digits are cut off (`ShortenedNear`), zeros are added only where
there is place for them (`PadIs`), and the result can be encoded again
(`QuantizeEncodes`).

What a loop or a recursive function makes of a sequence is induction over data,
for which the induction theorems cannot be used.  DepthProofs and WireProofs take the least
index at which the claim would fail instead (`LeastOf`), and show that it cannot.

**SnapProofs** (`SnapInv`), while the program has not ended:
* `BooksKeep`: no quote in a book is later than the metronome, and a level's
  expiry is that of its last quote unless a snapshot has cleaned it up because
  that time was over (`Entered`).  The second part is what makes `book_exp`
  harmless: cleaning up twice, or early, cannot be told from cleaning up once.
* `Beats`: the metronome is strictly ahead of the last stamp, and behind the
  quote in hand while snapshots are shot.
* `OnGrid`: the metronome is a multiple of the interval plus the offset, or the
  stamp of the file it stands at.  It is what `_next_intv` computes from a time
  that was rounded before, so it has to be known of the time before.
* `Quiet`: all beats before the metronome are before the quote in hand and
  before the first quote since the last snapshot.
* `Shows`: the metronome is never past the time by which everything shown must
  be invalid; needed with it is where a jump ahead may have started
  (`JumpedOver`).

**Snap3Proofs** (`Snap3Inv`): the photo of a book is the list of its levels at
its last snapshot, or empty if the photos were lost (`PhotoInv`); the merge has
passed the current levels up to `it` and those of the photo up to `bi`, and for
every price ahead of the first level that is gone, and not misled, both or
neither have been passed and the sum printed is the change (`LoopInv`); the
array has doubled before a photo is looked at (`InTime`).

**ReadersProofs** has the lemmas about ordered lists of prices they share: that
`BestFirst` of a finite set exists and lists each price once in order.

### Only model-checked

* Liveness: `SnapsEnd`.
* The tree: its operators are recursive, which the prover cannot use.
* That some properties need their conditions: the three violations, and the
  deviations listed above, are counterexamples TLC finds or the models show.

## Not modelled

* Several nodes under a book at once (`Books` on `BTree`), in particular
  `book2book`'s open iterator across a root split.
* NaN prices at levels 2 and 3, which `leaf_get` compares with nothing.
* The table of instruments of `book2book` (that of `booksnap` is in Snap), and
  hashing: instruments are just distinct, although two may share a hash.
* A catch-all as the only instrument, whose index is uninitialised.
* Infinities; wrap-around of times, and times below the offset.
* `hash.c` (a pure function), `memrchr.c` (a replacement for a library
  function), option parsing and its generator in `build-aux/`, memory
  management (`free_*`).

## Plan

1. **Book on the tree**: `Books` with `BTree` under each side, and the open
   iterator across splits.
