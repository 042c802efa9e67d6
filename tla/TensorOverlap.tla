--------------------------- MODULE TensorOverlap ---------------------------
(***************************************************************************)
(* The tensor descriptors of include/algorithm/tensor.h and the overlap    *)
(* test tm_check_overlap of tensormap_core.h, as functions of descriptors. *)
(*                                                                         *)
(* A descriptor names a buffer and a strided window of its elements.       *)
(* "Elements" is what it really names, the test only looks at the fields;  *)
(* the properties at the end compare the two.  The code's path for two     *)
(* dimensions computes the same result as its general loop, so one         *)
(* definition stands for both.                                             *)
(***************************************************************************)
EXTENDS Integers, Sequences, SequencesExt

Product(s) == FoldLeft(LAMBDA a, b : a * b, 1, s)

RowMajor(shapes) == [i \in DOMAIN shapes |-> Product(SubSeq(shapes, i + 1, Len(shapes)))]

\* The linear distance from the first to the last element of a window.
Reach(shapes, strides) ==
    FoldLeft(LAMBDA a, i : a + (shapes[i] - 1) * strides[i], 0, [i \in DOMAIN shapes |-> i])

\* A whole buffer: row-major strides, so contiguous by construction.
tensor_from_base_layout(addr, shapes, dtype) ==
    [ addr |-> addr, version |-> 0, dtype |-> dtype, storage |-> Product(shapes), start |-> 0,
      shapes |-> shapes, strides |-> RowMajor(shapes), contig |-> TRUE,
      extent |-> Reach(shapes, RowMajor(shapes)) + 1 ]

\* An n0 by n1 window of t.  The extent is the reach, one less than the span
\* tensor_from_base_layout caches; it only counts when the window is not contiguous.
view_at(t, off0, off1, n0, n1) ==
    [t EXCEPT !.start = @ + off0 * t.strides[1] + off1 * t.strides[2],
              !.shapes = <<n0, n1>>,
              !.contig = t.strides[2] = 1 /\ t.strides[1] = n1,
              !.extent = Reach(<<n0, n1>>, t.strides)]

ExtentOf(t) == IF t.contig THEN Product(t.shapes) ELSE t.extent

\* The entry of a tensor: the layout of a canonical tensor is derived again.
tm_copy_tensor_to_entry(t) ==
    IF t.contig /\ t.start = 0
      THEN [t EXCEPT !.extent = Product(t.shapes), !.strides = RowMajor(t.shapes)]
      ELSE t

----------------------------------------------------------------------------
\* [lo, lo + n) and [mo, mo + k) share a point; the first includes the second.
Meets(lo, n, mo, k) == lo + n > mo /\ mo + k > lo
HeldBy(lo, n, mo, k) == mo <= lo /\ lo + n <= mo + k
Holds(lo, n, mo, k) == lo <= mo /\ mo + k <= lo + n

\* Offset of a window's corner in each dimension of the grid with these strides.
Corner(t, strides) ==
    [i \in DOMAIN strides |->
        (IF i = 1 THEN t.start ELSE t.start % strides[i - 1]) \div strides[i]]

\* Both windows can be read as boxes of one row-major grid: same element type and
\* strides, a storage of whole rows, and neither box sticks out of the grid.
SameGrid(in, e) ==
    LET st   == e.strides
        dims == DOMAIN e.shapes
        grid == [i \in dims |-> IF i = 1 THEN in.storage \div st[1] ELSE st[i - 1] \div st[i]]
    IN /\ in.dtype = e.dtype /\ in.strides = st /\ Len(in.shapes) = Len(e.shapes)
       /\ st[Len(st)] = 1
       /\ \A i \in dims \ {1} : st[i - 1] % st[i] = 0
       /\ in.storage % st[1] = 0
       /\ \A t \in {in, e} : \A i \in dims : Corner(t, st)[i] + t.shapes[i] <= grid[i]

\* What the consumer tensor "in" may share with the producer entry e of the same
\* buffer.  OTHER is the cautious answer: perhaps shared, not known to be covered.
tm_check_overlap(in, e) ==
    LET a == Corner(in, e.strides)
        b == Corner(e, e.strides)
        dims == DOMAIN e.shapes
    IN IF in.version > e.version THEN "OTHER"
       ELSE IF ~ Meets(in.start, ExtentOf(in), e.start, ExtentOf(e)) THEN "NONE"
       ELSE IF ~ SameGrid(in, e) THEN "OTHER"
       ELSE IF \E i \in dims : ~ Meets(a[i], in.shapes[i], b[i], e.shapes[i]) THEN "NONE"
       ELSE IF \A i \in dims : Holds(a[i], in.shapes[i], b[i], e.shapes[i]) THEN "COVERED"
       ELSE "OTHER"

----------------------------------------------------------------------------
\* The elements of the buffer a descriptor names.
Points(shapes) == [DOMAIN shapes -> 0 .. FoldLeft(LAMBDA a, b : IF a > b THEN a ELSE b, 1, shapes) - 1]
Elements(t) ==
    { t.start + FoldLeft(LAMBDA a, i : a + x[i] * t.strides[i], 0, [i \in DOMAIN t.shapes |-> i])
        : x \in { p \in Points(t.shapes) : \A i \in DOMAIN t.shapes : p[i] < t.shapes[i] } }

SharesElement(a, b) == a.addr = b.addr /\ Elements(a) \cap Elements(b) # {}
=============================================================================
