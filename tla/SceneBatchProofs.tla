--------------------------- MODULE SceneBatchProofs ---------------------------
(***************************************************************************)
(* Proofs about scene packets of every size. Whatever canonical views they *)
(* are made of, the packets the host assembles pass every later limit,     *)
(* their reader follows their writer and their images have tiles of their  *)
(* own; the limits are the code's numbers, so that these proofs are mostly *)
(* bounds on products of sizes. And whatever its cameras are and see, the  *)
(* host's loop builds every batch from canonical views and loses none but  *)
(* an overdue legacy one.                                                  *)
(***************************************************************************)
EXTENDS SceneBatch, FiniteSetTheorems, WellFoundedInduction, TLAPS

(***************************************************************************)
(* Arithmetic                                                              *)
(***************************************************************************)
\* What compression may add to the largest packets still fits the transport.
LEMMA DeflatedFits ==
    ASSUME NEW n \in Nat
    PROVE  /\ n <= 930460 => Deflated(n) <= 1048576
           /\ n <= 3182584 => Deflated(n) <= 4194304
BY SMT DEF Deflated

(***************************************************************************)
(* Choosing points                                                         *)
(***************************************************************************)
\* A quotient is the only whole number of shares that leaves less than a share.
LEMMA Quotient ==
    ASSUME NEW n \in Nat, NEW d \in Nat \ {0}, NEW q \in Int, d * q <= n, n < d * q + d
    PROVE  n \div d = q
<1> DEFINE p == n \div d
<1>1. p \in Int /\ d * p <= n /\ n < d * p + d
  BY SMT
<1> HIDE DEF p
<1>2. ~(p < q)
  <2>1. SUFFICES ASSUME p + 1 <= q PROVE FALSE
    BY <1>1
  <2>2. d * (p + 1) <= d * q /\ d * (p + 1) = d * p + d
    BY <1>1, <2>1, SMT
  <2>3. QED
    BY <1>1, <2>2, SMT
<1>3. ~(q < p)
  <2>1. SUFFICES ASSUME q + 1 <= p PROVE FALSE
    BY <1>1
  <2>2. d * (q + 1) <= d * p /\ d * (q + 1) = d * q + d
    BY <1>1, <2>1, SMT
  <2>3. QED
    BY <1>1, <2>2, SMT
<1>4. QED
  BY <1>1, <1>2, <1>3 DEF p

\* The choice is the code's: the quotient of the whole product.
LEMMA SelectedIs ==
    ASSUME NEW n \in Nat, NEW points \in Nat \ {0}, NEW k \in Nat
    PROVE  Selected(k, n, points) = (k * n) \div points
<1> DEFINE q == n \div points
           r == n % points
           e == (k * r) \div points
<1>1. q \in Nat /\ r \in Nat /\ n = points * q + r
  BY SMT
<1> HIDE DEF q, r
<1>2. k * r \in Nat /\ k * q \in Nat /\ k * n \in Nat
  BY <1>1, SMT
<1>3. e \in Int /\ points * e <= k * r /\ k * r < points * e + points
  BY <1>2, SMT
<1> HIDE DEF e
<1>4. k * n = points * (k * q) + k * r
  <2>1. k * (points * q + r) = k * (points * q) + k * r
    BY <1>1, SMT
  <2>2. k * (points * q) = points * (k * q)
    BY <1>1, SMT
  <2>3. QED
    BY <1>1, <2>1, <2>2
<1>5. points * (k * q + e) = points * (k * q) + points * e /\ k * q + e \in Int
  BY <1>2, <1>3, SMT
<1>6. points * (k * q) \in Nat /\ points * e \in Int
  BY <1>2, <1>3, SMT
<1>7. points * (k * q + e) <= k * n /\ k * n < points * (k * q + e) + points
  BY <1>2, <1>3, <1>4, <1>5, <1>6
<1>8. (k * n) \div points = k * q + e
  BY <1>2, <1>5, <1>7, Quotient
<1>9. QED
  BY <1>8 DEF Selected, q, r, e

\* The arithmetic of PointsSpread for every number of voxels and points: two
\* successive points are at least one voxel and at most one point's share apart.
LEMMA SelectedIsSpread ==
    ASSUME NEW n \in Nat, NEW points \in Nat \ {0}, points < n,
           NEW k \in Nat
    PROVE  Selected(k + 1, n, points) - Selected(k, n, points)
             \in 1 .. n \div points + 1
<1> DEFINE a == Selected(k, n, points)
           b == Selected(k + 1, n, points)
           share == n \div points
<1>1. k * n \in Nat /\ (k + 1) * n = k * n + n
  BY SMT
<1>2. a \in Int /\ points * a <= k * n /\ k * n < points * a + points
  <2>1. a = (k * n) \div points
    BY SelectedIs
  <2>2. QED
    BY <1>1, <2>1, SMT
<1>3. b \in Int /\ points * b <= k * n + n /\ k * n + n < points * b + points
  <2>1. b = (k * n + n) \div points
    BY <1>1, SelectedIs
  <2>2. QED
    BY <1>1, <2>1, SMT
<1>4. share \in Int /\ points * share <= n /\ n < points * share + points
  BY SMT
<1> HIDE DEF a, b, share
<1>5. b > a
  <2>1. SUFFICES ASSUME b <= a PROVE FALSE
    BY <1>2, <1>3
  <2>2. points * b <= points * a
    BY <2>1, <1>2, <1>3, SMT
  <2>3. QED
    BY <2>2, <1>1, <1>2, <1>3, SMT
<1>6. b <= a + share + 1
  <2>1. SUFFICES ASSUME b >= a + share + 2 PROVE FALSE
    BY <1>2, <1>3, <1>4
  <2>2. points * b >= points * (a + share + 2)
    BY <2>1, <1>2, <1>3, <1>4, SMT
  <2>3. points * (a + share + 2) = points * a + points * share + 2 * points
    BY <1>2, <1>4, SMT
  <2>4. QED
    BY <2>2, <2>3, <1>1, <1>2, <1>3, <1>4, SMT
<1>7. QED
  BY <1>2, <1>3, <1>4, <1>5, <1>6 DEF a, b, share

(***************************************************************************)
(* The inductive invariant of the assembly                                 *)
(***************************************************************************)
Stages == {"idle", "prepare", "built", "pack", "read", "compress"}
Unprepared == form.version > 1 /\ ~form.prepared

\* The most a view takes of an unprepared packet, and the most a packet takes.
ViewMax(version) == IF version = 3 THEN 154549 ELSE 83104
PacketMax(version) ==
    IF version = 1 THEN 800128 ELSE IF version = 2 THEN 930460 ELSE 3182584

PartsInv ==
    /\ IsForm(form)
    /\ views \in Seq(Views) /\ Len(views) <= MaxViews(form.version)
    /\ \A i \in 1 .. Len(views) : Canonical(form.version, views[i])
    /\ stage \in Stages /\ done \in 0 .. Len(views)

MeshRecords == [vertices : Nat, indices : Nat, width : Nat,
                x : Nat, y : Nat, row : Nat, column : Nat, rows : Nat]

\* What n placed views can come to at most.
Bounded(m, version, n) ==
    /\ m \in MeshRecords /\ m.column <= 5 /\ (m.column = 0 => m.rows = 0)
    /\ 5 * m.rows + m.column = n
    /\ m.vertices <= 3072 * n /\ m.indices <= 17766 * n
    /\ m.x <= ImageWidth(version) * m.column /\ m.width <= ImageWidth(version) * 5
    /\ m.y <= ImageHeight(version) * m.rows /\ m.row <= ImageHeight(version)

MeshInv == /\ \E n \in 0 .. Len(views) : Bounded(mesh, form.version, n)
           /\ stage = "prepare" => Bounded(mesh, form.version, done)

\* How long a packet is without its unprepared views.
MeshBytes ==
    IF form.version = 1 THEN HeaderBytes(1) + 16 * form.points
    ELSE HeaderBytes(form.version)
         + IF form.prepared
           THEN MetaBytes(form.version) * Len(views) + VertexBytes(form.version) * mesh.vertices
                + 2 * mesh.indices + PixelBytes(form.version) * (Width(mesh) * Height(mesh))
           ELSE 0

\* How long its arrays are, and where they lie from here.
ArrayBytes ==
    VertexBytes(form.version) * Counts.vertices + 2 * Counts.indices
    + PixelBytes(form.version) * Counts.pixels
ArraysFrom(start) ==
    [vertices |-> start,
     indices |-> start + VertexBytes(form.version) * Counts.vertices,
     atlas |-> start + VertexBytes(form.version) * Counts.vertices + 2 * Counts.indices]

\* Where the view with this number begins, or the last one ends.
Offset(s, b, i) == IF i <= Len(s) THEN s[i] ELSE b

\* Each view that was written begins where the one before it ended, the last ends here.
Chained(end) ==
    /\ starts \in Seq(Nat) /\ end \in Nat
    /\ end <= HeaderBytes(form.version) + Len(starts) * ViewMax(form.version)
    /\ form.prepared => end = HeaderBytes(form.version) + Len(starts) * MetaBytes(form.version)
    /\ Offset(starts, end, 1) = HeaderBytes(form.version)
    /\ \A i \in 1 .. Len(starts) :
         /\ Offset(starts, end, i + 1) = starts[i] + ViewBytes(views[i])
         /\ Offset(starts, end, i + 1) <= end

WireInv ==
    /\ stage \in {"prepare", "built"} => starts = <<>>
    /\ stage \in {"pack", "read"} => done <= Described
    /\ stage = "pack" => Chained(bytes) /\ Len(starts) = done
    /\ stage = "read" =>
         /\ Chained(arrays.vertices) /\ Len(starts) = Described
         /\ arrays = ArraysFrom(arrays.vertices) /\ bytes = arrays.vertices + ArrayBytes
         /\ cursor = Offset(starts, arrays.vertices, done + 1)
    /\ stage = "compress" => bytes \in Nat /\ bytes <= PacketMax(form.version)

AssemblyInv == PartsInv /\ MeshInv /\ WireInv

(***************************************************************************)
(* Sizes                                                                   *)
(***************************************************************************)
\* The limits and sizes of each version.
LEMMA ImageSizes ==
    /\ ImageWidth(1) = 320 /\ ImageWidth(2) = 320 /\ ImageWidth(3) = 256
    /\ ImageHeight(1) = 240 /\ ImageHeight(2) = 240 /\ ImageHeight(3) = 192
BY SMT DEF ImageWidth, ImageHeight

\* The numbers a mesh of each version may have.
LEMMA MeshLimits ==
    /\ MaxViews(1) = 0 /\ MaxViews(2) = 5 /\ MaxViews(3) = 10
    /\ MaxVertices(1) = 16384 /\ MaxVertices(2) = 16384 /\ MaxVertices(3) = 32768
    /\ MaxIndices(1) = 98304 /\ MaxIndices(2) = 98304 /\ MaxIndices(3) = 196608
    /\ MaxPixels(1) = 384000 /\ MaxPixels(2) = 384000 /\ MaxPixels(3) = 768000
BY SMT DEF MaxViews, MaxVertices, MaxIndices, MaxPixels

\* How long the pieces of a packet are.
LEMMA PieceSizes ==
    /\ HeaderBytes(1) = 128 /\ HeaderBytes(2) = 160 /\ HeaderBytes(3) = 224
    /\ VertexBytes(1) = 16 /\ VertexBytes(2) = 24 /\ VertexBytes(3) = 44
    /\ PixelBytes(1) = 1 /\ PixelBytes(2) = 1 /\ PixelBytes(3) = 3
    /\ MetaBytes(1) = 0 /\ MetaBytes(2) = 0 /\ MetaBytes(3) = 80
    /\ DescriptorBytes(2) = 160 /\ DescriptorBytes(3) = 208
    /\ ViewMax(1) = 83104 /\ ViewMax(2) = 83104 /\ ViewMax(3) = 154549
BY SMT DEF HeaderBytes, VertexBytes, PixelBytes, MetaBytes, DescriptorBytes, ViewMax

\* How long a packet may be, and what it comes to at most.
LEMMA PacketLimits ==
    /\ PacketMax(1) = 800128 /\ PacketMax(2) = 930460 /\ PacketMax(3) = 3182584
    /\ MaxRaw(1) = 4194304 /\ MaxRaw(2) = 973984 /\ MaxRaw(3) = 4194304
    /\ MaxCompressed(1) = 1048576 /\ MaxCompressed(2) = 1048576 /\ MaxCompressed(3) = 4194304
BY SMT DEF PacketMax, MaxRaw, MaxCompressed, MaxVertices, MaxIndices, MaxPixels, MiB

\* An unprepared canonical view takes the same bytes for the writer and the reader, and not
\* more than ViewMax.
LEMMA ViewSize ==
    ASSUME NEW view \in Views, form.version \in 2 .. 3, ~form.prepared,
           Canonical(form.version, view)
    PROVE  /\ ViewBytes(view) \in Nat /\ ViewBytes(view) <= ViewMax(form.version)
           /\ ReadBytes(view) = ViewBytes(view)
<1>1. PICK w \in 2 .. 64, h \in 2 .. 48 : w = view.w /\ h = view.h
  BY DEF Canonical, DepthWidth, DepthHeight
<1>2. w * h \in Nat /\ w * h <= 64 * h
  BY SMT
<1>3. (w - 1) * (h - 1) \in Nat /\ (w - 1) * (h - 1) <= 63 * (h - 1)
  <2>1. PICK p \in 1 .. 63, q \in 1 .. 47 : p = w - 1 /\ q = h - 1
    BY SMT
  <2>2. p * q \in Nat /\ p * q <= 63 * q
    BY SMT
  <2>3. QED
    BY <2>1, <2>2, SMT
<1>5. CASE form.version = 2
  <2> DEFINE iw == view.iw
             ih == view.ih
  <2>1. iw \in 2 .. 320 /\ ih \in 2 .. 240
    <3>1. ImageWidth(form.version) = 320 /\ ImageHeight(form.version) = 240
      BY <1>5, ImageSizes
    <3>2. view.iw \in 2 .. 320 /\ view.ih \in 2 .. 240
      BY <3>1 DEF Canonical
    <3>3. QED
      BY <3>2
  <2>2. MaskBytes(2, view) = 0 /\ view.channels = 1
    BY <1>5 DEF MaskBytes, Canonical
  <2>3. ViewBytes(view) = 160 + 2 * (w * h) + 1 * (iw * ih) + 0
    BY <1>1, <1>5, <2>2, PieceSizes DEF ViewBytes
  <2> HIDE DEF iw, ih
  <2>4. iw * ih \in Nat /\ iw * ih <= 320 * ih
    BY <2>1, SMT
  <2>7. ReadBytes(view) = ViewBytes(view)
    <3>1. ReadBytes(view) = 160 + (2 * (w * h) + iw * ih * 1 + 0)
      BY <1>1, <1>5, <2>2, PieceSizes DEF ReadBytes, iw, ih
    <3>2. iw * ih * 1 = 1 * (iw * ih)
      BY <2>4
    <3>3. 160 + (2 * (w * h) + iw * ih * 1 + 0) = 160 + 2 * (w * h) + iw * ih * 1 + 0
      BY <1>2, <2>4, <3>2
    <3>4. QED
      BY <2>3, <3>1, <3>2, <3>3
  <2>5. ViewBytes(view) \in Nat /\ ViewBytes(view) <= 83104
    <3>1. PICK area \in Nat, image \in Nat :
            area = w * h /\ area <= 3072 /\ image = iw * ih /\ image <= 76800
      BY <1>2, <2>1, <2>4, SMT
    <3>2. QED
      BY <3>1, <2>3, SMT
  <2>6. QED
    BY <2>5, <2>7, <1>5, PieceSizes
<1>6. CASE form.version = 3
  <2> DEFINE iw == view.iw
             ih == view.ih
             channels == view.channels
  <2>1. iw \in 2 .. 256 /\ ih \in 2 .. 192 /\ channels \in {1, 3}
    <3>1. ImageWidth(form.version) = 256 /\ ImageHeight(form.version) = 192
      BY <1>6, ImageSizes
    <3>2. view.iw \in 2 .. 256 /\ view.ih \in 2 .. 192
      BY <3>1 DEF Canonical
    <3>3. view.channels \in {1, 3}
      BY <1>6 DEF Canonical
    <3>4. QED
      BY <3>2, <3>3
  <2>2. ViewBytes(view) = 208 + 2 * (w * h) + channels * (iw * ih) + MaskBytes(3, view)
    BY <1>1, <1>6, PieceSizes DEF ViewBytes
  <2> HIDE DEF iw, ih, channels
  <2>3. iw * ih \in Nat /\ iw * ih <= 256 * ih
    BY <2>1, SMT
  <2>4. channels * (iw * ih) \in Nat /\ channels * (iw * ih) <= 147456
    BY <2>1, <2>3, SMT
  <2>5. PICK mask \in Nat : mask = MaskBytes(3, view) /\ mask <= 741
    <3>1. PICK cells \in Nat : cells = (w - 1) * (h - 1) /\ cells <= 2961
      BY <1>3, SMT
    <3>2. MaskBytes(3, view) = (2 * cells + 7) \div 8
      BY <1>1, <1>3, <3>1, SMT DEF MaskBytes
    <3>3. QED
      BY <3>1, <3>2, SMT
  <2>6. ViewBytes(view) \in Nat /\ ViewBytes(view) <= 154549
    BY <2>2, <2>4, <2>5, <1>2, SMT
  <2>8. ReadBytes(view) = ViewBytes(view)
    <3>1. ReadBytes(view) = 208 + (2 * (w * h) + iw * ih * channels + MaskBytes(3, view))
      BY <1>1, <1>6, PieceSizes DEF ReadBytes, iw, ih, channels
    <3>2. iw * ih * channels = channels * (iw * ih)
      BY <2>1, <2>3, SMT
    <3>3. 208 + (2 * (w * h) + channels * (iw * ih) + mask)
            = 208 + 2 * (w * h) + channels * (iw * ih) + mask
      BY <1>2, <2>4, <2>5
    <3>4. QED
      BY <2>2, <2>5, <3>1, <3>2, <3>3
  <2>7. QED
    BY <2>6, <2>8, <1>6, PieceSizes
<1>7. QED
  BY <1>5, <1>6

\* So does a view a packet describes, prepared or not.
LEMMA PartSize ==
    ASSUME PartsInv, NEW i \in 1 .. Described
    PROVE  /\ i \in 1 .. Len(views) /\ form.version \in 2 .. 3 /\ views[i] \in Views
           /\ ViewBytes(views[i]) \in Nat /\ ViewBytes(views[i]) <= ViewMax(form.version)
           /\ ReadBytes(views[i]) = ViewBytes(views[i])
           /\ form.prepared => ViewBytes(views[i]) = MetaBytes(form.version)
<1> DEFINE view == views[i]
<1>1. form.version \in 1 .. 3 /\ form.prepared \in BOOLEAN /\ Len(views) \in Nat
  BY DEF PartsInv, IsForm
<1>2. /\ form.version \in 2 .. 3 /\ (form.prepared => form.version = 3)
      /\ Described = Len(views)
  BY <1>1 DEF Described
<1>3. i \in 1 .. Len(views) /\ view \in Views /\ Canonical(form.version, view)
  BY <1>2 DEF PartsInv
<1> HIDE DEF view
<1>4. CASE form.prepared
  <2>1. form.version = 3
    BY <1>2, <1>4
  <2>2. ViewBytes(view) = MetaBytes(form.version) /\ MetaBytes(form.version) = 80
    BY <1>4, <2>1, PieceSizes DEF ViewBytes
  <2>3. ReadBytes(view) = 80
    BY <1>4 DEF ReadBytes
  <2>4. ViewMax(form.version) = 154549
    BY <2>1, PieceSizes
  <2>5. QED
    BY <1>2, <1>3, <2>2, <2>3, <2>4 DEF view
<1>5. CASE ~form.prepared
  <2>1. /\ ViewBytes(view) \in Nat /\ ViewBytes(view) <= ViewMax(form.version)
        /\ ReadBytes(view) = ViewBytes(view)
    BY <1>2, <1>3, <1>5, ViewSize
  <2>2. QED
    BY <1>2, <1>3, <1>5, <2>1 DEF view
<1>6. QED
  BY <1>1, <1>4, <1>5

\* The mesh and the atlas of all views fit their limits, and so does the packet
\* that holds them; an unprepared packet is its header alone without its views.
LEMMA MeshSize ==
    ASSUME PartsInv, MeshInv
    PROVE  /\ MeshFits(mesh)
           /\ MeshBytes \in Nat /\ HeaderBytes(form.version) <= MeshBytes
           /\ MeshBytes <= PacketMax(form.version)
           /\ Unprepared => MeshBytes = HeaderBytes(form.version)
<1> DEFINE m == mesh
           count == Len(views)
           width == Width(mesh)
           height == Height(mesh)
           pixels == width * height
<1>1. /\ form.version \in 1 .. 3 /\ form.points \in Nat /\ form.points <= MaxPoints
      /\ form.prepared \in BOOLEAN /\ count \in Nat /\ count <= MaxViews(form.version)
  <2>1. form.version \in 1 .. 3 /\ form.points \in Nat /\ form.points <= MaxPoints
        /\ form.prepared \in BOOLEAN
    <3>1. MaxPoints \in Nat
      BY DEF MaxPoints
    <3>2. QED
      BY <3>1 DEF PartsInv, IsForm
  <2>2. count \in Nat
    BY DEF PartsInv
  <2>3. count <= MaxViews(form.version)
    BY DEF PartsInv
  <2>4. QED
    BY <2>1, <2>2, <2>3
<1>2. PICK n \in 0 .. count : Bounded(mesh, form.version, n)
  BY DEF MeshInv
<1>3. /\ n \in Nat /\ n <= count
      /\ m.rows \in Nat /\ m.column \in Nat /\ m.column <= 5
      /\ 5 * m.rows + m.column = n /\ (m.column = 0 => m.rows = 0)
      /\ m.vertices \in Nat /\ m.indices \in Nat
      /\ m.vertices <= 3072 * n /\ m.indices <= 17766 * n
  <2>1. n \in Nat /\ n <= count
    BY <1>1
  <2>2. /\ m.rows \in Nat /\ m.column \in Nat
        /\ m.vertices \in Nat /\ m.indices \in Nat
    BY <1>2 DEF Bounded, MeshRecords
  <2>3. /\ m.column <= 5 /\ (m.column = 0 => m.rows = 0) /\ 5 * m.rows + m.column = n
        /\ m.vertices <= 3072 * n /\ m.indices <= 17766 * n
    BY <1>2 DEF Bounded
  <2>4. QED
    BY <2>1, <2>2, <2>3
<1>4. /\ m.width \in Nat /\ m.y \in Nat /\ m.row \in Nat
      /\ m.width <= ImageWidth(form.version) * 5
      /\ m.y <= ImageHeight(form.version) * m.rows /\ m.row <= ImageHeight(form.version)
  <2>1. m.width \in Nat /\ m.y \in Nat /\ m.row \in Nat
    BY <1>2 DEF Bounded, MeshRecords
  <2>2. /\ m.width <= ImageWidth(form.version) * 5
        /\ m.y <= ImageHeight(form.version) * m.rows /\ m.row <= ImageHeight(form.version)
    BY <1>2 DEF Bounded
  <2>3. QED
    BY <2>1, <2>2
<1>5. width \in {0, m.width} /\ height \in {0, m.y + m.row}
  BY DEF Width, Height
<1>6. MeshFits(mesh) <=>
        /\ m.vertices <= MaxVertices(form.version) /\ m.indices <= MaxIndices(form.version)
        /\ width <= 2048 /\ height <= 2048 /\ pixels <= MaxPixels(form.version)
  BY DEF MeshFits, MaxDimension
<1>7. form.version > 1 /\ form.prepared =>
        MeshBytes = HeaderBytes(form.version)
                      + (MetaBytes(form.version) * count + VertexBytes(form.version) * m.vertices
                         + 2 * m.indices + PixelBytes(form.version) * pixels)
  <2>1. CASE form.version > 1 /\ form.prepared
    <3>1. form.version # 1 /\ form.prepared
      BY <1>1, <2>1, SMT
    <3>2. QED
      BY <3>1, Zenon DEF MeshBytes
  <2>2. QED
    BY <2>1
<1>8. form.version > 1 /\ ~form.prepared => MeshBytes = HeaderBytes(form.version)
  <2>1. HeaderBytes(form.version) + 0 = HeaderBytes(form.version)
    BY <1>1, PieceSizes
  <2>2. QED
    BY <1>1, <2>1 DEF MeshBytes
<1>9. form.version = 1 => MeshBytes = 128 + 16 * form.points
  BY PieceSizes DEF MeshBytes
<1> HIDE DEF m, count, width, height
<1>10. CASE form.version = 1
  <2>1. count = 0
    BY <1>1, <1>10, MeshLimits
  <2>2. n = 0 /\ m.rows = 0 /\ m.vertices = 0 /\ m.indices = 0
    <3>1. n = 0
      BY <1>3, <2>1
    <3>2. 3072 * n = 0 /\ 17766 * n = 0
      BY <3>1
    <3>3. m.rows = 0
      BY <1>3, <3>1
    <3>4. QED
      BY <1>3, <3>1, <3>2, <3>3
  <2>3. width \in Nat /\ width <= 1600 /\ height \in Nat /\ height <= 240
    BY <1>4, <1>5, <1>10, <2>2, ImageSizes, SMT
  <2>4. pixels \in Nat /\ pixels <= 1600 * height
    BY <2>3, SMT
  <2>5. MeshFits(mesh)
    BY <1>6, <1>10, <2>2, <2>3, <2>4, MeshLimits, SMT
  <2>6. MeshBytes \in Nat /\ 128 <= MeshBytes /\ MeshBytes <= 800128
    BY <1>1, <1>9, <1>10, SMT DEF MaxPoints
  <2>7. QED
    BY <2>5, <2>6, <1>10, PieceSizes, PacketLimits DEF Unprepared
<1>11. CASE form.version = 2
  <2>1. count <= 5
    BY <1>1, <1>11, MeshLimits
  <2>2. n <= 5 /\ m.rows = 0 /\ m.vertices <= 15360 /\ m.indices <= 88830
    BY <1>1, <1>3, <2>1, SMT
  <2>3. width \in Nat /\ width <= 1600 /\ height \in Nat /\ height <= 240
    BY <1>4, <1>5, <1>11, <2>2, ImageSizes, SMT
  <2>4. pixels \in Nat /\ pixels <= 1600 * height
    BY <2>3, SMT
  <2> HIDE DEF pixels
  <2>5. MeshFits(mesh)
    <3>1. /\ MaxVertices(form.version) = 16384 /\ MaxIndices(form.version) = 98304
          /\ MaxPixels(form.version) = 384000
      BY <1>11, MeshLimits
    <3>2. /\ m.vertices <= 16384 /\ m.indices <= 98304
          /\ width <= 2048 /\ height <= 2048 /\ pixels <= 384000
      BY <1>3, <2>2, <2>3, <2>4, SMT
    <3>3. QED
      BY <1>6, <3>1, <3>2
  <2>6. CASE form.prepared
    <3>1. MeshBytes = 160 + (0 * count + 24 * m.vertices + 2 * m.indices + 1 * pixels)
      BY <1>7, <1>11, <2>6, PieceSizes
    <3>2. MeshBytes \in Nat /\ 160 <= MeshBytes /\ MeshBytes <= 930460
      BY <1>1, <1>3, <2>2, <2>3, <2>4, <3>1, SMT
    <3>3. QED
      BY <2>5, <2>6, <3>2, <1>11, PieceSizes, PacketLimits DEF Unprepared
  <2>7. CASE ~form.prepared
    <3>1. MeshBytes = 160
      BY <1>8, <1>11, <2>7, PieceSizes
    <3>2. QED
      BY <2>5, <3>1, <1>11, PieceSizes, PacketLimits
  <2>8. QED
    BY <1>1, <2>6, <2>7
<1>12. CASE form.version = 3
  <2>1. count <= 10
    BY <1>1, <1>12, MeshLimits
  <2>2. n <= 10 /\ m.rows <= 1 /\ m.vertices <= 30720 /\ m.indices <= 177660
    BY <1>1, <1>3, <2>1, SMT
  <2>3. width \in Nat /\ width <= 1280 /\ height \in Nat /\ height <= 384
    BY <1>3, <1>4, <1>5, <1>12, <2>2, ImageSizes, SMT
  <2>4. pixels \in Nat /\ pixels <= 1280 * height
    BY <2>3, SMT
  <2> HIDE DEF pixels
  <2>5. MeshFits(mesh)
    <3>1. /\ MaxVertices(form.version) = 32768 /\ MaxIndices(form.version) = 196608
          /\ MaxPixels(form.version) = 768000
      BY <1>12, MeshLimits
    <3>2. /\ m.vertices <= 32768 /\ m.indices <= 196608
          /\ width <= 2048 /\ height <= 2048 /\ pixels <= 768000
      BY <1>3, <2>2, <2>3, <2>4, SMT
    <3>3. QED
      BY <1>6, <3>1, <3>2
  <2>6. CASE form.prepared
    <3>1. MeshBytes = 224 + (80 * count + 44 * m.vertices + 2 * m.indices + 3 * pixels)
      BY <1>7, <1>12, <2>6, PieceSizes
    <3>2. MeshBytes \in Nat /\ 224 <= MeshBytes /\ MeshBytes <= 3182584
      BY <1>1, <1>3, <2>1, <2>2, <2>3, <2>4, <3>1, SMT
    <3>3. QED
      BY <2>5, <2>6, <3>2, <1>12, PieceSizes, PacketLimits DEF Unprepared
  <2>7. CASE ~form.prepared
    <3>1. MeshBytes = 224
      BY <1>8, <1>12, <2>7, PieceSizes
    <3>2. QED
      BY <2>5, <3>1, <1>12, PieceSizes, PacketLimits
  <2>8. QED
    BY <1>1, <2>6, <2>7
<1>13. QED
  BY <1>1, <1>10, <1>11, <1>12

\* What the counts of the header add up to: the length that the writer comes to and
\* the one that the reader expects.
LEMMA ArraySize ==
    ASSUME PartsInv, MeshInv
    PROVE  /\ Described \in 0 .. Len(views) /\ Len(views) \in Nat
           /\ VertexBytes(form.version) * Counts.vertices \in Nat
           /\ Counts.indices \in Nat /\ PixelBytes(form.version) * Counts.pixels \in Nat
           /\ ArrayBytes \in Nat
           /\ Unprepared => ArrayBytes = 0
           /\ ~Unprepared => /\ MeshBytes = HeaderBytes(form.version)
                                              + Described * MetaBytes(form.version) + ArrayBytes
                             /\ Expected = MeshBytes
<1> DEFINE cv == Counts.vertices
           ci == Counts.indices
           cp == Counts.pixels
           pixels == Width(mesh) * Height(mesh)
           count == Len(views)
<1>1. /\ form.version \in 1 .. 3 /\ form.prepared \in BOOLEAN /\ form.points \in Nat
      /\ count \in Nat
  <2>1. MaxPoints \in Nat
    BY DEF MaxPoints
  <2>2. count \in Nat
    BY DEF PartsInv
  <2>3. QED
    BY <2>1, <2>2 DEF PartsInv, IsForm
<1>2. mesh.vertices \in Nat /\ mesh.indices \in Nat /\ pixels \in Nat
  <2>1. PICK n \in 0 .. Len(views) : Bounded(mesh, form.version, n)
    BY DEF MeshInv
  <2>2. /\ mesh.vertices \in Nat /\ mesh.indices \in Nat
        /\ mesh.width \in Nat /\ mesh.y \in Nat /\ mesh.row \in Nat
    BY <2>1 DEF Bounded, MeshRecords
  <2>3. PICK a \in Nat, b \in Nat : a = Width(mesh) /\ b = Height(mesh)
    BY <2>2 DEF Width, Height
  <2>4. a * b \in Nat
    BY SMT
  <2>5. QED
    BY <2>2, <2>3, <2>4
<1>3. Described \in {0, count}
  BY DEF Described
<1> HIDE DEF pixels, count
<1>4. CASE Unprepared
  <2>1. cv = 0 /\ ci = 0 /\ cp = 0
    BY <1>4 DEF Unprepared, Counts
  <2>2. VertexBytes(form.version) \in Nat /\ PixelBytes(form.version) \in Nat
    BY <1>1, PieceSizes
  <2>3. VertexBytes(form.version) * 0 = 0 /\ PixelBytes(form.version) * 0 = 0
    BY <2>2
  <2>4. ArrayBytes = 0
    BY <2>1, <2>3 DEF ArrayBytes
  <2>5. QED
    BY <1>1, <1>3, <1>4, <2>1, <2>3, <2>4 DEF count
<1>5. CASE form.version = 1
  <2>1. cv = form.points /\ ci = 0 /\ cp = 0 /\ Described = 0
    BY <1>5 DEF Counts, Described
  <2>2. VertexBytes(form.version) = 16 /\ PixelBytes(form.version) = 1
        /\ MetaBytes(form.version) = 0 /\ HeaderBytes(form.version) = 128
    BY <1>5, PieceSizes
  <2> HIDE DEF cv, ci, cp
  <2>3. ArrayBytes = 16 * form.points
    <3>1. ArrayBytes = 16 * form.points + 2 * 0 + 1 * 0
      BY <2>1, <2>2 DEF ArrayBytes, cv, ci, cp
    <3>2. QED
      BY <1>1, <3>1
  <2>4. MeshBytes = 128 + 16 * form.points /\ Expected = 128 + 16 * form.points
    BY <1>5, <2>1, PieceSizes DEF MeshBytes, Expected, cv
  <2>5. 16 * form.points \in Nat /\ 16 * cv \in Nat /\ 1 * cp \in Nat /\ ci \in Nat
    BY <1>1, <2>1
  <2>6. MeshBytes = 128 + 0 * 0 + ArrayBytes
    BY <2>3, <2>4, <2>5
  <2>7. ~Unprepared
    BY <1>5 DEF Unprepared
  <2>8. QED
    BY <1>1, <2>1, <2>2, <2>3, <2>4, <2>5, <2>6, <2>7 DEF cv, ci, cp, count
<1>6. CASE form.version = 2 /\ form.prepared
  <2>1. cv = mesh.vertices /\ ci = mesh.indices /\ cp = pixels /\ Described = 0
    BY <1>6 DEF Counts, Described, pixels
  <2>2. VertexBytes(form.version) = 24 /\ PixelBytes(form.version) = 1
        /\ MetaBytes(form.version) = 0 /\ HeaderBytes(form.version) = 160
    BY <1>6, PieceSizes
  <2> HIDE DEF cv, ci, cp
  <2>3. ArrayBytes = 24 * cv + 2 * ci + 1 * cp
    BY <2>2 DEF ArrayBytes, cv, ci, cp
  <2>4. Expected = 160 + (24 * cv + 2 * ci + cp)
    BY <1>6 DEF Expected, cv, ci, cp
  <2>5. MeshBytes = 160 + (0 * count + 24 * cv + 2 * ci + 1 * cp)
    BY <1>6, <2>1, <2>2 DEF MeshBytes, pixels, count
  <2>6. /\ 24 * cv \in Nat /\ ci \in Nat /\ 1 * cp \in Nat /\ ArrayBytes \in Nat
        /\ MeshBytes = 160 + 0 * 0 + ArrayBytes /\ Expected = MeshBytes
    BY <1>1, <1>2, <2>1, <2>3, <2>4, <2>5
  <2>7. ~Unprepared
    BY <1>6 DEF Unprepared
  <2>8. QED
    BY <1>1, <2>1, <2>2, <2>6, <2>7 DEF cv, ci, cp, count
<1>7. CASE form.version = 3 /\ form.prepared
  <2>1. cv = mesh.vertices /\ ci = mesh.indices /\ cp = pixels /\ Described = count
    BY <1>7 DEF Counts, Described, pixels, count
  <2>2. VertexBytes(form.version) = 44 /\ PixelBytes(form.version) = 3
        /\ MetaBytes(form.version) = 80 /\ HeaderBytes(form.version) = 224
    BY <1>7, PieceSizes
  <2> HIDE DEF cv, ci, cp
  <2>3. ArrayBytes = 44 * cv + 2 * ci + 3 * cp
    BY <2>2 DEF ArrayBytes, cv, ci, cp
  <2>4. Expected = 224 + (count * 80 + cv * 44 + ci * 2 + cp * 3)
    BY <1>7 DEF Expected, cv, ci, cp, count
  <2>5. MeshBytes = 224 + (80 * count + 44 * cv + 2 * ci + 3 * cp)
    BY <1>7, <2>1, <2>2 DEF MeshBytes, pixels, count
  <2>6. /\ 44 * cv \in Nat /\ ci \in Nat /\ 3 * cp \in Nat /\ ArrayBytes \in Nat
        /\ MeshBytes = 224 + count * 80 + ArrayBytes /\ Expected = MeshBytes
    BY <1>1, <1>2, <2>1, <2>3, <2>4, <2>5
  <2>7. ~Unprepared
    BY <1>7 DEF Unprepared
  <2>8. QED
    BY <1>1, <2>1, <2>2, <2>6, <2>7 DEF cv, ci, cp, count
<1>8. QED
  BY <1>1, <1>4, <1>5, <1>6, <1>7 DEF Unprepared

\* What the mesh of a canonical view and its image come to at most.
LEMMA ViewCounts ==
    ASSUME NEW version \in 1 .. 3, NEW view \in Views, Canonical(version, view)
    PROVE  /\ view.used \in Nat /\ view.used <= 3072
           /\ view.kept \in Nat /\ 3 * view.kept <= 17766
           /\ view.iw \in Nat /\ view.iw <= ImageWidth(version)
           /\ view.ih \in Nat /\ view.ih <= ImageHeight(version)
<1>1. PICK w \in 2 .. 64, h \in 2 .. 48 : w = view.w /\ h = view.h
  BY DEF Canonical, DepthWidth, DepthHeight
<1>2. w * h \in Nat /\ w * h <= 64 * h
  BY SMT
<1>3. (w - 1) * (h - 1) \in Nat /\ (w - 1) * (h - 1) <= 63 * (h - 1)
  <2>1. PICK p \in 1 .. 63, q \in 1 .. 47 : p = w - 1 /\ q = h - 1
    BY SMT
  <2>2. p * q \in Nat /\ p * q <= 63 * q
    BY SMT
  <2>3. QED
    BY <2>1, <2>2, SMT
<1>4. view.used \in 0 .. w * h /\ view.kept \in 0 .. 2 * ((w - 1) * (h - 1))
  BY <1>1 DEF Canonical
<1>5. view.used \in Nat /\ view.used <= 3072 /\ view.kept \in Nat /\ 3 * view.kept <= 17766
  BY <1>2, <1>3, <1>4, SMT
<1>6. ImageWidth(version) \in Nat /\ ImageHeight(version) \in Nat
  BY ImageSizes
<1>7. QED
  BY <1>5, <1>6 DEF Canonical

\* One more view keeps the mesh and the atlas within the share of its views.
LEMMA PlacedIsBounded ==
    ASSUME NEW version \in 1 .. 3, NEW view \in Views, Canonical(version, view),
           NEW n \in Nat, NEW m, Bounded(m, version, n)
    PROVE  Bounded(Placed(m, view).mesh, version, n + 1)
<1> DEFINE W == ImageWidth(version)
           H == ImageHeight(version)
           next == m.column = 5
           x == IF next THEN 0 ELSE m.x
           y == IF next THEN m.y + m.row ELSE m.y
           p == Placed(m, view).mesh
<1>1. W \in Nat /\ H \in Nat
  BY ImageSizes
<1>2. /\ view.used \in Nat /\ view.used <= 3072 /\ view.kept \in Nat /\ 3 * view.kept <= 17766
      /\ view.iw \in Nat /\ view.iw <= W /\ view.ih \in Nat /\ view.ih <= H
  BY ViewCounts
<1>3. /\ m.vertices \in Nat /\ m.indices \in Nat /\ m.width \in Nat
      /\ m.x \in Nat /\ m.y \in Nat /\ m.row \in Nat /\ m.column \in Nat /\ m.rows \in Nat
  BY DEF Bounded, MeshRecords
<1>4. /\ m.column <= 5 /\ (m.column = 0 => m.rows = 0) /\ 5 * m.rows + m.column = n
      /\ m.vertices <= 3072 * n /\ m.indices <= 17766 * n
      /\ m.x <= W * m.column /\ m.width <= W * 5
      /\ m.y <= H * m.rows /\ m.row <= H
  BY DEF Bounded
<1>5. p = [vertices |-> m.vertices + view.used, indices |-> m.indices + 3 * view.kept,
           width |-> IF m.width >= x + view.iw THEN m.width ELSE x + view.iw,
           x |-> x + view.iw, y |-> y,
           row |-> IF ~next /\ m.row >= view.ih THEN m.row ELSE view.ih,
           column |-> IF next THEN 1 ELSE m.column + 1,
           rows |-> IF next THEN m.rows + 1 ELSE m.rows]
  BY DEF Placed
<1>6. /\ p.vertices = m.vertices + view.used /\ p.indices = m.indices + 3 * view.kept
      /\ p.width \in {m.width, x + view.iw} /\ p.x = x + view.iw /\ p.y = y
      /\ p.row \in {m.row, view.ih}
  BY <1>5
<1>7. IF next THEN x = 0 /\ y = m.y + m.row /\ p.column = 1 /\ p.rows = m.rows + 1
              ELSE x = m.x /\ y = m.y /\ p.column = m.column + 1 /\ p.rows = m.rows
  BY <1>5
<1>8. p \in MeshRecords <=>
        /\ p.vertices \in Nat /\ p.indices \in Nat /\ p.width \in Nat /\ p.x \in Nat
        /\ p.y \in Nat /\ p.row \in Nat /\ p.column \in Nat /\ p.rows \in Nat
  BY <1>5 DEF MeshRecords
<1> SUFFICES Bounded(p, version, n + 1)
  OBVIOUS
<1> HIDE DEF W, H, x, y, p
<1>9. /\ p.vertices \in Nat /\ p.indices \in Nat
      /\ p.vertices <= 3072 * (n + 1) /\ p.indices <= 17766 * (n + 1)
  BY <1>2, <1>3, <1>4, <1>6, SMT
<1>10. p.row \in Nat /\ p.row <= H
  BY <1>2, <1>3, <1>4, <1>6
<1>11. CASE next
  <2>1. /\ p.column = 1 /\ p.rows = m.rows + 1 /\ p.x = view.iw /\ p.y = m.y + m.row
    BY <1>2, <1>6, <1>7, <1>11
  <2>2. W * p.column = W /\ H * p.rows = H * m.rows + H /\ W <= W * 5
    BY <1>1, <1>3, <2>1, SMT
  <2>3. H * m.rows \in Nat
    BY <1>1, <1>3, SMT
  <2>4. /\ p.x \in Nat /\ p.y \in Nat /\ p.x <= W * p.column /\ p.y <= H * p.rows
    BY <1>1, <1>2, <1>3, <1>4, <2>1, <2>2, <2>3, SMT
  <2>5. p.width \in Nat /\ p.width <= W * 5
    BY <1>1, <1>2, <1>3, <1>4, <1>6, <1>7, <1>11, <2>2, SMT
  <2>6. 5 * p.rows + p.column = n + 1 /\ p.column \in Nat /\ p.rows \in Nat /\ p.column <= 5
        /\ (p.column = 0 => p.rows = 0)
    BY <1>3, <1>4, <1>11, <2>1, SMT
  <2>7. QED
    <3>1. p \in MeshRecords
      BY <1>8, <1>9, <1>10, <2>4, <2>5, <2>6
    <3>2. QED
      BY <1>9, <1>10, <2>4, <2>5, <2>6, <3>1 DEF Bounded, W, H
<1>12. CASE ~next
  <2>1. /\ p.column = m.column + 1 /\ p.rows = m.rows /\ p.x = m.x + view.iw /\ p.y = m.y
    BY <1>6, <1>7, <1>12
  <2>2. W * p.column = W * m.column + W /\ W * m.column \in Nat
    BY <1>1, <1>3, <2>1, SMT
  <2>3. m.column <= 4
    BY <1>3, <1>4, <1>12
  <2>4. W * p.column <= W * 5
    BY <1>1, <1>3, <2>1, <2>3, SMT
  <2>5. /\ p.x \in Nat /\ p.y \in Nat /\ p.x <= W * p.column /\ p.y <= H * p.rows
    BY <1>1, <1>2, <1>3, <1>4, <2>1, <2>2, SMT
  <2>6. p.width \in Nat /\ p.width <= W * 5
    <3>1. p.width \in {m.width, p.x} /\ m.width <= W * 5 /\ W * 5 \in Nat
      BY <1>1, <1>4, <1>6
    <3>2. W * p.column \in Nat
      BY <1>1, <1>3, <2>1, <2>2, SMT
    <3>3. p.x <= W * 5
      BY <3>1, <3>2, <2>4, <2>5
    <3>4. QED
      BY <1>3, <2>5, <3>1, <3>3
  <2>7. 5 * p.rows + p.column = n + 1 /\ p.column \in Nat /\ p.rows \in Nat /\ p.column <= 5
        /\ (p.column = 0 => p.rows = 0)
    BY <1>3, <1>4, <2>1, <2>3, SMT
  <2>8. QED
    <3>1. p \in MeshRecords
      BY <1>8, <1>9, <1>10, <2>5, <2>6, <2>7
    <3>2. QED
      BY <1>9, <1>10, <2>5, <2>6, <2>7, <3>1 DEF Bounded, W, H
<1>13. QED
  BY <1>11, <1>12

(***************************************************************************)
(* The steps                                                               *)
(***************************************************************************)
\* Before its first view a mesh is empty.
LEMMA EmptyIsBounded ==
    ASSUME NEW version \in 1 .. 3
    PROVE  Bounded(NoMesh, version, 0)
<1>1. NoMesh \in MeshRecords
  BY DEF NoMesh, MeshRecords
<1>2. ImageWidth(version) \in Nat /\ ImageHeight(version) \in Nat
  BY ImageSizes
<1>3. QED
  BY <1>1, <1>2 DEF Bounded, NoMesh

\* A chain of views and the arrays behind it stay below the most a packet takes.
LEMMA ChainFits ==
    ASSUME PartsInv, MeshInv, NEW end, Chained(end), Len(starts) = Described
    PROVE  /\ end \in Nat /\ end + ArrayBytes \in Nat
           /\ end + ArrayBytes <= PacketMax(form.version)
           /\ ~Unprepared => end + ArrayBytes = MeshBytes
           /\ HeaderBytes(form.version) \in Nat
<1>1. /\ form.version \in 1 .. 3 /\ form.prepared \in BOOLEAN
      /\ Len(views) \in Nat /\ Len(views) <= MaxViews(form.version)
  BY DEF PartsInv, IsForm
<1>2. /\ end \in Nat
      /\ end <= HeaderBytes(form.version) + Len(starts) * ViewMax(form.version)
      /\ form.prepared => end = HeaderBytes(form.version) + Len(starts) * MetaBytes(form.version)
  BY DEF Chained
<1>3. ArrayBytes \in Nat /\ Described \in 0 .. Len(views)
  BY ArraySize
<1>4. HeaderBytes(form.version) \in Nat
  BY <1>1, PieceSizes
<1>5. CASE ~Unprepared
  <2>1. end = HeaderBytes(form.version) + Described * MetaBytes(form.version)
    <3>1. CASE form.prepared
      BY <1>2, <3>1
    <3>2. CASE ~form.prepared
      <4>1. Described = 0 /\ MetaBytes(form.version) = 0
        BY <1>1, <1>5, <3>2, PieceSizes DEF Unprepared, Described
      <4>2. Offset(starts, end, 1) = end
        BY <4>1 DEF Offset
      <4>3. end = HeaderBytes(form.version)
        BY <4>2 DEF Chained
      <4>4. QED
        BY <1>4, <4>1, <4>3
    <3>3. QED
      BY <3>1, <3>2
  <2>2. end + ArrayBytes = MeshBytes
    BY <1>5, <2>1, ArraySize
  <2>3. MeshBytes <= PacketMax(form.version)
    BY MeshSize
  <2>4. QED
    BY <1>2, <1>3, <1>4, <2>2, <2>3
<1>6. CASE Unprepared /\ form.version = 2
  <2>1. MaxViews(form.version) = 5 /\ HeaderBytes(form.version) = 160
    BY <1>6, MeshLimits, PieceSizes
  <2>2. ViewMax(form.version) = 83104 /\ PacketMax(form.version) = 930460
    BY <1>6, PieceSizes, PacketLimits
  <2>3. end <= 160 + Described * 83104 /\ Described \in Nat /\ Described <= 5
    BY <1>1, <1>2, <1>3, <2>1, <2>2
  <2>4. ArrayBytes = 0
    BY <1>6, ArraySize
  <2>5. end + ArrayBytes = end /\ end <= 930460
    BY <1>2, <2>3, <2>4
  <2>6. QED
    BY <1>2, <1>4, <1>6, <2>2, <2>5
<1>7. CASE Unprepared /\ form.version = 3
  <2>1. MaxViews(form.version) = 10 /\ HeaderBytes(form.version) = 224
    BY <1>7, MeshLimits, PieceSizes
  <2>2. ViewMax(form.version) = 154549 /\ PacketMax(form.version) = 3182584
    BY <1>7, PieceSizes, PacketLimits
  <2>3. end <= 224 + Described * 154549 /\ Described \in Nat /\ Described <= 10
    BY <1>1, <1>2, <1>3, <2>1, <2>2
  <2>4. ArrayBytes = 0
    BY <1>7, ArraySize
  <2>5. end + ArrayBytes = end /\ end <= 3182584
    BY <1>2, <2>3, <2>4
  <2>6. QED
    BY <1>2, <1>4, <1>7, <2>2, <2>5
<1>8. QED
  BY <1>1, <1>5, <1>6, <1>7 DEF Unprepared

\* The assembly begins with an empty packet.
LEMMA InitHolds ==
    ASSUME AssemblyInit
    PROVE  AssemblyInv
<1>1. form.version = 2 /\ form.prepared = FALSE /\ form.points = 0
  BY DEF AssemblyInit, NoForm
<1>2. PartsInv
  <2>1. MaxPoints \in Nat
    BY DEF MaxPoints
  <2>2. IsForm(form)
    <3>1. form.version \in 1 .. 3 /\ form.points \in 0 .. MaxPoints
      BY <1>1, <2>1
    <3>2. form.prepared \in BOOLEAN
      BY <1>1
    <3>3. QED
      BY <3>1, <3>2 DEF IsForm
  <2>3. views = <<>> /\ stage = "idle" /\ done = 0
    BY DEF AssemblyInit
  <2>4. QED
    BY <1>1, <2>2, <2>3, MeshLimits DEF PartsInv, Stages
<1>3. MeshInv
  BY <1>1, EmptyIsBounded DEF AssemblyInit, MeshInv
<1>4. WireInv
  BY DEF AssemblyInit, WireInv
<1>5. QED
  BY <1>2, <1>3, <1>4 DEF AssemblyInv

\* A packet begins with canonical views and an empty mesh.
LEMMA BeginHolds ==
    ASSUME AssemblyInv, NEW f, NEW vs, Begin(f, vs)
    PROVE  AssemblyInv'
<1>1. form' = f /\ views' = vs /\ stage' \in {"prepare", "built"} /\ done' = 0
      /\ mesh' = NoMesh /\ starts' = <<>>
  BY DEF Begin
<1>2. PartsInv'
  BY <1>1 DEF Begin, PartsInv, Stages
<1>3. MeshInv'
  <2>1. f.version \in 1 .. 3 /\ Len(vs) \in Nat
    BY DEF Begin, IsForm
  <2>2. QED
    BY <1>1, <2>1, EmptyIsBounded DEF MeshInv
<1>4. WireInv'
  BY <1>1 DEF WireInv
<1>5. QED
  BY <1>2, <1>3, <1>4 DEF AssemblyInv

\* Placing a view keeps the mesh within the share of the views so far.
LEMMA PrepareHolds ==
    ASSUME AssemblyInv, PrepareView
    PROVE  AssemblyInv'
<1>1. /\ stage = "prepare" /\ stage' = "prepare" /\ form' = form /\ views' = views
      /\ done' = done + 1 /\ done < Len(views) /\ starts' = starts
      /\ mesh' = Placed(mesh, views[done + 1]).mesh
  BY DEF PrepareView
<1>2. done \in Nat /\ done' \in 0 .. Len(views) /\ Len(views) \in Nat
  BY <1>1 DEF AssemblyInv, PartsInv
<1>3. PartsInv'
  BY <1>1, <1>2 DEF AssemblyInv, PartsInv
<1>4. MeshInv'
  <2>1. /\ form.version \in 1 .. 3 /\ views[done + 1] \in Views
        /\ Canonical(form.version, views[done + 1]) /\ Bounded(mesh, form.version, done)
    BY <1>1, <1>2 DEF AssemblyInv, PartsInv, MeshInv, IsForm
  <2>2. Bounded(mesh', form.version, done + 1)
    BY <1>1, <1>2, <2>1, PlacedIsBounded
  <2>3. QED
    BY <1>1, <1>2, <2>2 DEF MeshInv
<1>5. WireInv'
  BY <1>1 DEF AssemblyInv, WireInv
<1>6. QED
  BY <1>3, <1>4, <1>5 DEF AssemblyInv

\* The steps after the views are placed leave the parts and the mesh alone.
LEMMA PartsKept ==
    ASSUME PartsInv, MeshInv, UNCHANGED <<form, views, mesh>>,
           stage' \in Stages \ {"prepare"}, done' \in 0 .. Len(views)
    PROVE  /\ PartsInv' /\ MeshInv'
           /\ Counts' = Counts /\ Described' = Described /\ ArrayBytes' = ArrayBytes
           /\ \A view : ViewBytes(view)' = ViewBytes(view)
           /\ \A start : ArraysFrom(start)' = ArraysFrom(start)
<1>1. PartsInv'
  BY DEF PartsInv
<1>2. MeshInv'
  BY DEF MeshInv
<1>3. Counts' = Counts
  BY DEF Counts, Width, Height
<1>4. Described' = Described
  BY DEF Described
<1>5. ArrayBytes' = ArrayBytes
  BY <1>3 DEF ArrayBytes
<1>6. \A view : ViewBytes(view)' = ViewBytes(view)
  BY DEF ViewBytes
<1>7. \A start : ArraysFrom(start)' = ArraysFrom(start)
  BY <1>3 DEF ArraysFrom
<1>8. QED
  BY <1>1, <1>2, <1>3, <1>4, <1>5, <1>6, <1>7

\* A prepared mesh is never refused.
LEMMA PreparedHolds ==
    ASSUME AssemblyInv, Prepared
    PROVE  AssemblyInv'
<1>1. MeshFits(mesh)
  BY MeshSize DEF AssemblyInv
<1>2. stage = "prepare" /\ stage' = "built" /\ done' = done /\ starts' = starts
      /\ UNCHANGED <<form, views, mesh>>
  BY <1>1 DEF Prepared
<1>3. PartsInv' /\ MeshInv'
  BY <1>2, PartsKept DEF AssemblyInv, PartsInv, Stages
<1>4. WireInv'
  BY <1>2 DEF AssemblyInv, WireInv
<1>5. QED
  BY <1>3, <1>4 DEF AssemblyInv

\* The writer begins behind the header.
LEMMA PackHolds ==
    ASSUME AssemblyInv, Pack
    PROVE  AssemblyInv'
<1>1. /\ stage = "built" /\ stage' = "pack" /\ bytes' = HeaderBytes(form.version)
      /\ starts' = starts /\ done' = 0 /\ UNCHANGED <<form, views, mesh>>
  BY DEF Pack
<1>2. starts' = <<>>
  BY <1>1 DEF AssemblyInv, WireInv
<1>3. Len(views) \in Nat /\ form.version \in 1 .. 3
  BY DEF AssemblyInv, PartsInv, IsForm
<1>4. done' \in 0 .. Len(views)
  BY <1>1, <1>3
<1>5. PartsInv' /\ MeshInv' /\ Described' = Described
  BY <1>1, <1>4, PartsKept DEF AssemblyInv, Stages
<1>6. done' <= Described'
  BY <1>1, <1>3, <1>5, ArraySize DEF AssemblyInv
<1>7. Chained(bytes)' /\ Len(starts') = done'
  <2>1. bytes' \in Nat /\ form' = form /\ HeaderBytes(form.version)' = bytes'
    BY <1>1, <1>3, PieceSizes
  <2>2. ViewMax(form.version) \in Nat /\ MetaBytes(form.version) \in Nat
    BY <1>3, PieceSizes
  <2>3. Len(starts') = 0 /\ starts' \in Seq(Nat)
    BY <1>2
  <2>4. bytes' + Len(starts') * ViewMax(form.version) = bytes'
        /\ bytes' + Len(starts') * MetaBytes(form.version) = bytes'
    BY <2>1, <2>2, <2>3
  <2>5. QED
    BY <1>1, <2>1, <2>3, <2>4 DEF Chained, Offset
<1>8. WireInv'
  BY <1>1, <1>6, <1>7 DEF WireInv
<1>9. QED
  BY <1>5, <1>8 DEF AssemblyInv

\* A view appended to the chain begins where the message ended.
LEMMA OffsetAppend ==
    ASSUME NEW s \in Seq(Nat), NEW b \in Nat, NEW c \in Nat
    PROVE  /\ Append(s, b) \in Seq(Nat) /\ Len(Append(s, b)) = Len(s) + 1 /\ Len(s) \in Nat
           /\ \A i \in 1 .. Len(s) : Append(s, b)[i] = s[i] /\ s[i] \in Nat
           /\ Append(s, b)[Len(s) + 1] = b
           /\ \A i \in 1 .. Len(s) + 1 : Offset(Append(s, b), c, i) = Offset(s, b, i)
           /\ Offset(Append(s, b), c, Len(s) + 2) = c
<1>1. /\ Append(s, b) \in Seq(Nat) /\ Len(Append(s, b)) = Len(s) + 1 /\ Len(s) \in Nat
  OBVIOUS
<1>2. \A i \in 1 .. Len(s) : Append(s, b)[i] = s[i] /\ s[i] \in Nat
  OBVIOUS
<1>3. Append(s, b)[Len(s) + 1] = b
  OBVIOUS
<1>4. ASSUME NEW i \in 1 .. Len(s) + 1
      PROVE  Offset(Append(s, b), c, i) = Offset(s, b, i)
  <2>1. CASE i <= Len(s)
    BY <1>1, <1>2, <2>1 DEF Offset
  <2>2. CASE i = Len(s) + 1
    BY <1>1, <1>3, <2>2 DEF Offset
  <2>3. QED
    BY <1>1, <2>1, <2>2
<1>5. Offset(Append(s, b), c, Len(s) + 2) = c
  BY <1>1 DEF Offset
<1>6. QED
  BY <1>1, <1>2, <1>3, <1>4, <1>5

\* A view that is written extends the chain by one.
LEMMA PackViewHolds ==
    ASSUME AssemblyInv, PackView
    PROVE  AssemblyInv'
<1> DEFINE view == views[done + 1]
           size == ViewBytes(view)
           max == ViewMax(form.version)
           meta == MetaBytes(form.version)
<1>1. /\ stage = "pack" /\ stage' = "pack" /\ done < Described /\ done' = done + 1
      /\ starts' = Append(starts, bytes) /\ bytes' = bytes + size
      /\ UNCHANGED <<form, views, mesh>>
  BY DEF PackView
<1>2. done \in Nat /\ Len(views) \in Nat /\ Described \in 0 .. Len(views)
      /\ form.version \in 1 .. 3
  BY ArraySize DEF AssemblyInv, PartsInv, IsForm
<1>3. Chained(bytes) /\ Len(starts) = done
  BY <1>1 DEF AssemblyInv, WireInv
<1>4. done' \in 0 .. Len(views) /\ done' <= Described /\ done + 1 \in 1 .. Described
  BY <1>1, <1>2
<1>5. /\ PartsInv' /\ MeshInv' /\ Described' = Described
      /\ \A v : ViewBytes(v)' = ViewBytes(v)
  BY <1>1, <1>4, PartsKept DEF AssemblyInv, Stages
<1>6. /\ size \in Nat /\ size <= max /\ (form.prepared => size = meta)
  BY <1>4, PartSize DEF AssemblyInv
<1>7. max \in Nat /\ meta \in Nat /\ HeaderBytes(form.version) \in Nat
  BY <1>2, PieceSizes
<1>8. /\ starts \in Seq(Nat) /\ bytes \in Nat
      /\ bytes <= HeaderBytes(form.version) + done * max
      /\ form.prepared => bytes = HeaderBytes(form.version) + done * meta
      /\ Offset(starts, bytes, 1) = HeaderBytes(form.version)
      /\ \A i \in 1 .. done :
           /\ Offset(starts, bytes, i + 1) = starts[i] + ViewBytes(views[i])
           /\ Offset(starts, bytes, i + 1) <= bytes
  BY <1>3 DEF Chained
<1> HIDE DEF size, max, meta
<1>9. bytes' \in Nat /\ bytes <= bytes'
  BY <1>1, <1>6, <1>8
<1>10. /\ starts' \in Seq(Nat) /\ Len(starts') = done + 1
       /\ \A i \in 1 .. done : starts'[i] = starts[i]
       /\ starts'[done + 1] = bytes
       /\ \A i \in 1 .. done + 1 : Offset(starts', bytes', i) = Offset(starts, bytes, i)
       /\ Offset(starts', bytes', done + 2) = bytes'
  BY <1>1, <1>3, <1>8, <1>9, OffsetAppend
<1>11. /\ bytes' <= HeaderBytes(form.version) + Len(starts') * max
       /\ form.prepared => bytes' = HeaderBytes(form.version) + Len(starts') * meta
  <2>1. (done + 1) * max = done * max + max /\ done * max \in Nat
    BY <1>2, <1>7, SMT
  <2>2. bytes' <= HeaderBytes(form.version) + (done * max + max)
    BY <1>1, <1>6, <1>7, <1>8, <2>1, SMT
  <2>3. (done + 1) * meta = done * meta + meta /\ done * meta \in Nat
    BY <1>2, <1>7, SMT
  <2>4. form.prepared => bytes' = HeaderBytes(form.version) + (done * meta + meta)
    <3>1. SUFFICES ASSUME form.prepared
                   PROVE  bytes' = HeaderBytes(form.version) + (done * meta + meta)
      OBVIOUS
    <3>2. bytes = HeaderBytes(form.version) + done * meta /\ bytes' = bytes + meta
      BY <1>1, <1>6, <1>8, <3>1
    <3>3. QED
      BY <1>7, <2>3, <3>2
  <2>5. QED
    BY <1>10, <2>1, <2>2, <2>3, <2>4
<1>12. ASSUME NEW i \in 1 .. done + 1
       PROVE  /\ Offset(starts', bytes', i + 1) = starts'[i] + ViewBytes(views[i])
              /\ Offset(starts', bytes', i + 1) <= bytes'
  <2>1. CASE i = done + 1
    <3>1. i + 1 = done + 2
      BY <1>2, <2>1
    <3>2. Offset(starts', bytes', i + 1) = bytes'
      BY <1>10, <3>1
    <3>3. starts'[i] + ViewBytes(views[i]) = bytes + size
      BY <1>10, <2>1 DEF size
    <3>4. Offset(starts', bytes', i + 1) = starts'[i] + ViewBytes(views[i])
      BY <1>1, <3>2, <3>3
    <3>5. Offset(starts', bytes', i + 1) <= bytes'
      BY <1>9, <3>2
    <3>6. QED
      BY <3>4, <3>5
  <2>2. CASE i \in 1 .. done
    <3>1. i + 1 \in 1 .. done + 1
      BY <1>2, <2>2
    <3>2. Offset(starts', bytes', i + 1) = Offset(starts, bytes, i + 1)
      BY <1>10, <3>1
    <3>3. Offset(starts, bytes, i + 1) = starts[i] + ViewBytes(views[i])
      BY <1>8, <2>2
    <3>4. Offset(starts, bytes, i + 1) \in Nat
      BY <1>2, <1>3, <1>8, <3>1 DEF Offset
    <3>5. Offset(starts, bytes, i + 1) <= bytes'
      BY <1>8, <1>9, <2>2, <3>4
    <3>6. QED
      BY <1>10, <2>2, <3>2, <3>3, <3>5
  <2>3. QED
    BY <1>2, <2>1, <2>2
<1>13. Offset(starts', bytes', 1) = HeaderBytes(form.version)
  BY <1>2, <1>8, <1>10
<1>14. Chained(bytes)'
  <2>1. /\ HeaderBytes(form.version)' = HeaderBytes(form.version)
        /\ ViewMax(form.version)' = max /\ MetaBytes(form.version)' = meta
        /\ form.prepared' = form.prepared
    BY <1>1 DEF max, meta
  <2>2. \A i \in 1 .. Len(starts') : ViewBytes(views[i])' = ViewBytes(views[i])
    BY <1>1, <1>5
  <2>3. QED
    BY <1>9, <1>10, <1>11, <1>12, <1>13, <2>1, <2>2 DEF Chained
<1>15. WireInv'
  BY <1>1, <1>4, <1>5, <1>10, <1>14 DEF WireInv
<1>16. QED
  BY <1>5, <1>15 DEF AssemblyInv

\* A packet that is written is never refused, and its arrays lie behind its views.
LEMMA PackedHolds ==
    ASSUME AssemblyInv, Packed
    PROVE  AssemblyInv'
<1> DEFINE vs == VertexBytes(form.version) * Counts.vertices
           is == 2 * Counts.indices
           ps == PixelBytes(form.version) * Counts.pixels
<1>1. /\ stage = "pack" /\ done = Described /\ starts' = starts
      /\ arrays' = [vertices |-> bytes, indices |-> bytes + vs, atlas |-> bytes + vs + is]
      /\ bytes' = bytes + vs + is + ps
      /\ done' = 0 /\ cursor' = HeaderBytes(form.version) /\ UNCHANGED <<form, views, mesh>>
  BY DEF Packed
<1>2. Chained(bytes) /\ Len(starts) = Described
  BY <1>1 DEF AssemblyInv, WireInv
<1>3. /\ bytes \in Nat /\ bytes + ArrayBytes \in Nat
      /\ bytes + ArrayBytes <= PacketMax(form.version)
  BY <1>2, ChainFits DEF AssemblyInv
<1>4. bytes' = bytes + ArrayBytes
  <2>1. vs \in Nat /\ is \in Nat /\ ps \in Nat
    BY ArraySize DEF AssemblyInv
  <2>2. ArrayBytes = vs + is + ps
    BY DEF ArrayBytes
  <2> HIDE DEF vs, is, ps
  <2>3. QED
    BY <1>1, <1>3, <2>1, <2>2
<1>5. stage' = "read"
  <2>1. CASE form.version = 3
    <3>1. 4 * MiB = 4194304
      BY DEF MiB
    <3>2. PacketMax(form.version) = 3182584
      BY <2>1, PacketLimits
    <3>3. ~(bytes' > 4 * MiB)
      BY <1>3, <1>4, <3>1, <3>2
    <3>4. QED
      BY <3>3 DEF Packed
  <2>2. QED
    BY <2>1 DEF Packed
<1>6. Len(views) \in Nat /\ done' \in 0 .. Len(views) /\ done' <= Described
  BY <1>1, ArraySize DEF AssemblyInv
<1>7. /\ PartsInv' /\ MeshInv' /\ Described' = Described /\ ArrayBytes' = ArrayBytes
      /\ \A v : ViewBytes(v)' = ViewBytes(v)
      /\ \A start : ArraysFrom(start)' = ArraysFrom(start)
  BY <1>1, <1>5, <1>6, PartsKept DEF AssemblyInv, Stages
<1>8. arrays'.vertices = bytes /\ arrays' = ArraysFrom(bytes)
  BY <1>1 DEF ArraysFrom
<1>9. (arrays = ArraysFrom(arrays.vertices))' /\ (bytes = arrays.vertices + ArrayBytes)'
  <2>1. ArraysFrom(arrays.vertices)' = ArraysFrom(bytes)
    BY <1>1, <1>7, <1>8 DEF ArraysFrom
  <2>2. QED
    BY <1>4, <1>7, <1>8, <2>1
<1>10. Chained(arrays.vertices)'
  BY <1>1, <1>2, <1>7, <1>8 DEF Chained
<1>11. cursor' = Offset(starts', arrays'.vertices, done' + 1)
  <2>1. done' + 1 = 1 /\ Offset(starts, bytes, 1) = HeaderBytes(form.version)
    BY <1>1, <1>2 DEF Chained
  <2>2. QED
    BY <1>1, <1>8, <2>1
<1>12. WireInv'
  <2>1. Len(starts') = Described' /\ done' <= Described'
    BY <1>1, <1>2, <1>6, <1>7
  <2>2. QED
    BY <1>5, <1>9, <1>10, <1>11, <2>1 DEF WireInv
<1>13. QED
  BY <1>7, <1>12 DEF AssemblyInv

\* The reader goes from one view to the next and not past the end.
LEMMA ReadViewHolds ==
    ASSUME AssemblyInv, ReadView
    PROVE  AssemblyInv'
<1> DEFINE view == views[done + 1]
           end == arrays.vertices
<1>1. /\ stage = "read" /\ done < Described
      /\ UNCHANGED <<form, views, mesh, starts, arrays, bytes>>
  BY DEF ReadView
<1>2. done \in Nat /\ Described \in 0 .. Len(views) /\ Len(views) \in Nat
  BY ArraySize DEF AssemblyInv, PartsInv
<1>3. /\ Chained(end) /\ Len(starts) = Described /\ cursor = Offset(starts, end, done + 1)
      /\ bytes = end + ArrayBytes
  BY <1>1 DEF AssemblyInv, WireInv
<1>4. done + 1 \in 1 .. Described
  BY <1>1, <1>2
<1>5. ReadBytes(view) = ViewBytes(view) /\ ViewBytes(view) \in Nat
  BY <1>4, PartSize DEF AssemblyInv
<1>6. /\ Offset(starts, end, done + 2) = starts[done + 1] + ViewBytes(view)
      /\ Offset(starts, end, done + 2) <= end /\ starts[done + 1] \in Nat
  <2>1. done + 1 \in 1 .. Len(starts) /\ done + 1 + 1 = done + 2
    BY <1>2, <1>3, <1>4
  <2>2. QED
    BY <1>3, <2>1 DEF Chained
<1>7. cursor = starts[done + 1]
  BY <1>2, <1>3, <1>4 DEF Offset
<1>8. cursor + ReadBytes(view) = Offset(starts, end, done + 2)
  BY <1>5, <1>6, <1>7
<1>9. end \in Nat /\ end <= bytes /\ bytes \in Nat
  <2>1. end \in Nat /\ ArrayBytes \in Nat
    BY <1>3, ArraySize DEF Chained, AssemblyInv
  <2>2. QED
    BY <1>3, <2>1
<1> HIDE DEF view, end
<1>10. ~(cursor + ReadBytes(view) > bytes)
  BY <1>5, <1>6, <1>7, <1>8, <1>9
<1>11. stage' = "read" /\ done' = done + 1 /\ cursor' = Offset(starts, end, done + 2)
  BY <1>1, <1>8, <1>10 DEF ReadView, view
<1>12. done' \in 0 .. Len(views) /\ done' <= Described /\ done' + 1 = done + 2
  BY <1>2, <1>4, <1>11
<1>13. /\ PartsInv' /\ MeshInv' /\ Described' = Described /\ ArrayBytes' = ArrayBytes
       /\ \A v : ViewBytes(v)' = ViewBytes(v)
       /\ \A start : ArraysFrom(start)' = ArraysFrom(start)
  BY <1>1, <1>11, <1>12, PartsKept DEF AssemblyInv, Stages
<1>14. Chained(arrays.vertices)'
  BY <1>1, <1>3, <1>13 DEF Chained, end
<1>15. (arrays = ArraysFrom(arrays.vertices))' /\ (bytes = arrays.vertices + ArrayBytes)'
  <2>1. arrays = ArraysFrom(arrays.vertices)
    BY <1>1 DEF AssemblyInv, WireInv
  <2>2. ArraysFrom(arrays.vertices)' = ArraysFrom(arrays.vertices)
    BY <1>1, <1>13 DEF ArraysFrom
  <2>3. QED
    BY <1>1, <1>3, <1>13, <2>1, <2>2 DEF end
<1>16. WireInv'
  <2>1. cursor' = Offset(starts', arrays'.vertices, done' + 1)
    BY <1>1, <1>11, <1>12 DEF end
  <2>2. Len(starts') = Described' /\ done' <= Described'
    BY <1>1, <1>3, <1>12, <1>13
  <2>3. QED
    BY <1>11, <1>14, <1>15, <2>1, <2>2 DEF WireInv
<1>17. QED
  BY <1>13, <1>16 DEF AssemblyInv

\* The reader never refuses what was written.
LEMMA ReadHolds ==
    ASSUME AssemblyInv, Read
    PROVE  AssemblyInv'
<1> DEFINE end == arrays.vertices
<1>1. /\ stage = "read" /\ done = Described
      /\ UNCHANGED <<form, views, mesh, done, starts, bytes>>
  BY DEF Read
<1>2. done \in 0 .. Len(views) /\ Len(views) \in Nat /\ form.version \in 1 .. 3
      /\ form.prepared \in BOOLEAN
  BY DEF AssemblyInv, PartsInv, IsForm
<1>3. /\ Chained(end) /\ Len(starts) = Described /\ cursor = Offset(starts, end, done + 1)
      /\ bytes = end + ArrayBytes
  BY <1>1 DEF AssemblyInv, WireInv
<1>4. /\ end \in Nat /\ bytes \in Nat /\ bytes <= PacketMax(form.version)
      /\ HeaderBytes(form.version) \in Nat /\ (~Unprepared => bytes = MeshBytes)
  BY <1>3, ChainFits DEF AssemblyInv
<1>5. LengthFits
  <2>1. bytes <= MaxRaw(form.version) /\ MaxRaw(form.version) \in Nat
    <3>1. /\ PacketMax(form.version) \in Nat /\ MaxRaw(form.version) \in Nat
          /\ PacketMax(form.version) <= MaxRaw(form.version)
      BY <1>2, PacketLimits
    <3>2. QED
      BY <1>4, <3>1
  <2>2. HeaderBytes(form.version) <= bytes
    <3>1. ArrayBytes \in Nat /\ Described \in Nat
      BY ArraySize DEF AssemblyInv
    <3>2. HeaderBytes(form.version) <= end
      <4>1. CASE Described = 0
        <5>1. Offset(starts, end, 1) = end
          BY <1>3, <4>1 DEF Offset
        <5>2. QED
          BY <1>3, <1>4, <5>1 DEF Chained
      <4>2. CASE Described # 0
        <5>1. 1 \in 1 .. Described /\ 1 \in 1 .. Len(starts)
          BY <1>3, <3>1, <4>2
        <5>2. Offset(starts, end, 1) = starts[1]
          BY <5>1 DEF Offset
        <5>3. starts[1] = HeaderBytes(form.version) /\ starts[1] + ViewBytes(views[1]) <= end
          <6>1. /\ Offset(starts, end, 1 + 1) = starts[1] + ViewBytes(views[1])
                /\ Offset(starts, end, 1 + 1) <= end
            BY <1>3, <5>1 DEF Chained
          <6>2. QED
            BY <1>3, <5>2, <6>1 DEF Chained
        <5>4. ViewBytes(views[1]) \in Nat
          BY <5>1, PartSize DEF AssemblyInv
        <5>5. QED
          BY <1>4, <5>3, <5>4
      <4>3. QED
        BY <4>1, <4>2
    <3>3. QED
      BY <1>3, <1>4, <3>1, <3>2
  <2>3. CASE Unprepared
    <3>1. cursor = end
      BY <1>1, <1>2, <1>3 DEF Offset
    <3>2. cursor = bytes
      BY <1>3, <1>4, <2>3, <3>1, ArraySize DEF AssemblyInv
    <3>3. QED
      BY <1>4, <2>1, <2>2, <2>3, <3>2 DEF LengthFits, Unprepared
  <2>4. CASE ~Unprepared
    <3>1. bytes = Expected
      BY <1>4, <2>4, ArraySize DEF AssemblyInv
    <3>2. MeshFits(mesh)
      BY MeshSize DEF AssemblyInv
    <3>3. form.points <= MaxPoints
      <4>1. MaxPoints \in Nat
        BY DEF MaxPoints
      <4>2. QED
        BY <4>1 DEF AssemblyInv, PartsInv, IsForm
    <3>4. form.version = 1 \/ form.prepared
      BY <1>2, <2>4 DEF Unprepared
    <3>5. QED
      BY <1>4, <2>1, <2>2, <3>1, <3>2, <3>3, <3>4 DEF LengthFits
  <2>5. QED
    BY <2>3, <2>4
<1>6. stage' = "compress"
  BY <1>5 DEF Read
<1>7. PartsInv' /\ MeshInv'
  BY <1>1, <1>2, <1>6, PartsKept DEF AssemblyInv, Stages
<1>8. WireInv'
  BY <1>1, <1>4, <1>6 DEF WireInv
<1>9. QED
  BY <1>7, <1>8 DEF AssemblyInv

\* A packet that was read is never too long to send.
LEMMA CompressHolds ==
    ASSUME AssemblyInv, Compress
    PROVE  AssemblyInv'
<1>1. /\ form.version \in 1 .. 3 /\ bytes \in Nat /\ bytes <= PacketMax(form.version)
  BY DEF Compress, AssemblyInv, PartsInv, WireInv, IsForm
<1>2. Deflated(bytes) \in Nat /\ Deflated(bytes) <= MaxCompressed(form.version)
  <2>1. Deflated(bytes) \in Nat
    BY <1>1 DEF Deflated
  <2>2. CASE form.version = 3
    BY <1>1, <2>1, <2>2, PacketLimits, DeflatedFits
  <2>3. CASE form.version \in 1 .. 2
    <3>1. bytes <= 930460 /\ MaxCompressed(form.version) = 1048576
      BY <1>1, <2>3, PacketLimits
    <3>2. QED
      BY <1>1, <2>1, <3>1, DeflatedFits
  <2>4. QED
    BY <1>1, <2>1, <2>2, <2>3
<1>3. ASSUME NEW size \in {1, Deflated(bytes)}
      PROVE  ~(size > MaxCompressed(form.version))
  BY <1>1, <1>2, PacketLimits
<1>4. /\ stage' = "idle" /\ form' = NoForm /\ views' = <<>> /\ done' = 0
      /\ mesh' = NoMesh /\ tiles' = <<>> /\ starts' = <<>> /\ arrays' = NoArrays
      /\ bytes' = 0 /\ cursor' = 0
  BY <1>3 DEF Compress
<1>5. AssemblyInit'
  BY <1>4 DEF AssemblyInit
<1>6. QED
  BY <1>5, InitHolds, PTL

\* A packet that is dropped leaves nothing behind that matters.
LEMMA DropHolds ==
    ASSUME AssemblyInv, Drop
    PROVE  AssemblyInv'
<1>1. stage' = "idle" /\ done' = done /\ UNCHANGED <<form, views, mesh>>
  BY DEF Drop
<1>2. PartsInv' /\ MeshInv'
  BY <1>1, PartsKept DEF AssemblyInv, PartsInv, Stages
<1>3. QED
  BY <1>1, <1>2 DEF AssemblyInv, WireInv

\* Every step of the assembly keeps its invariant.
LEMMA StepHolds ==
    ASSUME AssemblyInv, [AssemblyNext]_assemblyVars
    PROVE  AssemblyInv'
<1>1. CASE UNCHANGED assemblyVars
  <2>1. UNCHANGED <<form, views, stage, done, mesh, starts, arrays, bytes, cursor>>
    BY <1>1 DEF assemblyVars
  <2>2. PartsInv' /\ MeshInv'
    BY <2>1 DEF AssemblyInv, PartsInv, MeshInv
  <2>3. /\ Described' = Described /\ ArrayBytes' = ArrayBytes
        /\ \A v : ViewBytes(v)' = ViewBytes(v)
        /\ ArraysFrom(arrays.vertices)' = ArraysFrom(arrays.vertices)
    BY <2>1 DEF Described, ArrayBytes, ArraysFrom, Counts, ViewBytes, Width, Height
  <2>4. (Chained(bytes)' <=> Chained(bytes))
        /\ (Chained(arrays.vertices)' <=> Chained(arrays.vertices))
    BY <2>1, <2>3 DEF Chained
  <2>5. WireInv'
    BY <2>1, <2>3, <2>4 DEF AssemblyInv, WireInv
  <2>6. QED
    BY <2>2, <2>5 DEF AssemblyInv
<1>2. CASE Begin(form', views')
  BY <1>2, BeginHolds
<1>3. CASE Pack
  BY <1>3, PackHolds
<1>4. CASE Drop
  BY <1>4, DropHolds
<1>5. CASE PrepareView
  BY <1>5, PrepareHolds
<1>6. CASE Prepared
  BY <1>6, PreparedHolds
<1>7. CASE PackView
  BY <1>7, PackViewHolds
<1>8. CASE Packed
  BY <1>8, PackedHolds
<1>9. CASE ReadView
  BY <1>9, ReadViewHolds
<1>10. CASE Read
  BY <1>10, ReadHolds
<1>11. CASE Compress
  BY <1>11, CompressHolds
<1>12. QED
  BY <1>1, <1>2, <1>3, <1>4, <1>5, <1>6, <1>7, <1>8, <1>9, <1>10, <1>11 DEF AssemblyNext

\* The reader finds a view where it begins, and its images behind one another.
LEMMA PiecesAreFound ==
    ASSUME AssemblyInv, stage = "read", done < Described
    PROVE  /\ cursor = starts[done + 1]
           /\ ~form.prepared =>
                ReadImages(views[done + 1]) = ImagesAt(starts[done + 1], views[done + 1])
<1> DEFINE view == views[done + 1]
<1>1. done \in Nat /\ Described \in 0 .. Len(views) /\ Len(views) \in Nat
  BY ArraySize DEF AssemblyInv, PartsInv
<1>2. Chained(arrays.vertices) /\ Len(starts) = Described
      /\ cursor = Offset(starts, arrays.vertices, done + 1)
  BY DEF AssemblyInv, WireInv
<1>3. done + 1 \in 1 .. Described /\ done + 1 <= Len(starts)
  BY <1>1, <1>2
<1>4. cursor = starts[done + 1] /\ cursor \in Nat
  BY <1>2, <1>3 DEF Offset, Chained
<1>5. ASSUME ~form.prepared
      PROVE  ReadImages(view) = ImagesAt(cursor, view)
  <2>1. /\ done + 1 \in 1 .. Len(views) /\ form.version \in 2 .. 3 /\ view \in Views
        /\ ViewBytes(view) \in Nat /\ ReadBytes(view) = ViewBytes(view)
    BY <1>3, PartSize DEF AssemblyInv
  <2>2. Canonical(form.version, view)
    BY <2>1 DEF AssemblyInv, PartsInv
  <2> HIDE DEF view
  <2>3. PICK w \in Nat, h \in Nat, iw \in Nat, ih \in Nat, channels \in Nat :
          w = view.w /\ h = view.h /\ iw = view.iw /\ ih = view.ih /\ channels = view.channels
    BY <2>1 DEF Views
  <2>4. PICK depth \in Nat : depth = 2 * (w * h) /\ depth = 2 * w * h
    BY <2>3, SMT
  <2>5. PICK image \in Nat : image = channels * (iw * ih)
    <3>1. channels * (iw * ih) \in Nat
      BY <2>3, SMT
    <3>2. QED
      BY <3>1
  <2>6. PICK head \in Nat : head = DescriptorBytes(form.version)
    BY <2>1, PieceSizes
  <2>7. PICK mask \in Nat : mask = MaskBytes(form.version, view)
    <3>1. CASE form.version = 2
      BY <3>1 DEF MaskBytes
    <3>2. CASE form.version = 3
      <4>1. PICK p \in Nat, q \in Nat : p = view.w - 1 /\ q = view.h - 1
        <5>1. view.w \in 2 .. 64 /\ view.h \in 2 .. 48
          BY <2>2 DEF Canonical, DepthWidth, DepthHeight
        <5>2. view.w - 1 \in Nat /\ view.h - 1 \in Nat
          BY <5>1
        <5>3. QED
          BY <5>2
      <4>2. p * q \in Nat
        BY <4>1, SMT
      <4>3. MaskBytes(form.version, view) = (2 * p * q + 7) \div 8
        BY <3>2, <4>1 DEF MaskBytes
      <4>4. 2 * p * q \in Nat
        BY <4>1, SMT
      <4>5. (2 * p * q + 7) \div 8 \in Nat
        BY <4>4, SMT
      <4>6. QED
        BY <4>3, <4>5
    <3>3. QED
      BY <2>1, <3>1, <3>2
  <2>8. ViewBytes(view) = head + depth + image + mask
    BY <1>5, <2>3, <2>4, <2>5, <2>6, <2>7 DEF ViewBytes
  <2>9. ReadImages(view) = [depth |-> cursor + head, image |-> cursor + head + depth,
                            mask |-> cursor + (head + depth + image + mask) - mask]
    BY <2>1, <2>3, <2>4, <2>6, <2>7, <2>8 DEF ReadImages
  <2>10. ImagesAt(cursor, view) = [depth |-> cursor + head, image |-> cursor + head + depth,
                                   mask |-> cursor + head + depth + image]
    BY <2>3, <2>4, <2>5, <2>6 DEF ImagesAt
  <2>11. cursor + (head + depth + image + mask) - mask = cursor + head + depth + image
    BY <1>4
  <2>12. QED
    BY <2>9, <2>10, <2>11 DEF view
<1>6. QED
  BY <1>4, <1>5

\* And the arrays behind the last view.
LEMMA ArraysAreFound ==
    ASSUME AssemblyInv, stage = "read", ~(done < Described)
    PROVE  ReadArrays = arrays
<1> DEFINE end == arrays.vertices
           cv == Counts.vertices
           ci == Counts.indices
           stride == IF form.version = 3 THEN 44 ELSE IF form.version = 2 THEN 24 ELSE 16
<1>1. done \in Nat /\ Described \in 0 .. Len(views) /\ Len(views) \in Nat
  BY ArraySize DEF AssemblyInv, PartsInv
<1>2. /\ Chained(end) /\ Len(starts) = Described /\ cursor = Offset(starts, end, done + 1)
      /\ arrays = ArraysFrom(end) /\ done <= Described
  BY DEF AssemblyInv, WireInv
<1>3. cursor = end
  BY <1>1, <1>2 DEF Offset
<1>4. stride = VertexBytes(form.version)
  BY DEF VertexBytes
<1>5. VertexBytes(form.version) \in Nat
  BY <1>4
<1>6. cv \in Nat /\ ci \in Nat
  <2>1. PICK n \in 0 .. Len(views) : Bounded(mesh, form.version, n)
    BY DEF AssemblyInv, MeshInv
  <2>2. mesh.vertices \in Nat /\ mesh.indices \in Nat
    BY <2>1 DEF Bounded, MeshRecords
  <2>3. form.points \in Nat
    <3>1. MaxPoints \in Nat
      BY DEF MaxPoints
    <3>2. QED
      BY <3>1 DEF AssemblyInv, PartsInv, IsForm
  <2>4. QED
    BY <2>2, <2>3 DEF Counts
<1>7. ReadArrays = [vertices |-> cursor, indices |-> cursor + cv * stride,
                    atlas |-> cursor + cv * stride + ci * 2]
  BY DEF ReadArrays
<1>8. ArraysFrom(end) = [vertices |-> end, indices |-> end + VertexBytes(form.version) * cv,
                         atlas |-> end + VertexBytes(form.version) * cv + 2 * ci]
  BY DEF ArraysFrom
<1> HIDE DEF end, cv, ci, stride
<1>9. cv * stride = VertexBytes(form.version) * cv /\ ci * 2 = 2 * ci
  BY <1>4, <1>5, <1>6, SMT
<1>10. QED
  BY <1>2, <1>3, <1>7, <1>8, <1>9

(***************************************************************************)
(* The tiles of the atlas                                                  *)
(***************************************************************************)
Tiles == [x : Nat, y : Nat, w : Nat, h : Nat]

\* A tile lies inside the atlas, its row has ended or it lies left of where the next
\* image goes, and two tiles share no pixel.
Inside(t, m) == t.x + t.w <= m.width /\ t.y + t.h <= m.y + m.row
Passed(t, m) == t.y + t.h <= m.y \/ t.x + t.w <= m.x
Disjoint(t, u) ==
    t.x + t.w <= u.x \/ u.x + u.w <= t.x \/ t.y + t.h <= u.y \/ u.y + u.h <= t.y

TilesInv ==
    /\ tiles \in Seq(Tiles) /\ Len(tiles) <= Len(views)
    /\ stage = "prepare" => Len(tiles) = done
    /\ \A i \in DOMAIN tiles : Inside(tiles[i], mesh) /\ Passed(tiles[i], mesh)
    /\ \A i, j \in DOMAIN tiles : i < j => Disjoint(tiles[i], tiles[j])

\* An image that is placed is inside the atlas, and passed.
LEMMA PlacedIsInside ==
    ASSUME NEW m \in MeshRecords, NEW view \in Views
    PROVE  LET p == Placed(m, view) IN
           p.tile \in Tiles /\ Inside(p.tile, p.mesh) /\ Passed(p.tile, p.mesh)
<1> DEFINE t == Placed(m, view).tile
           n == Placed(m, view).mesh
           next == m.column = 5
           x == IF next THEN 0 ELSE m.x
           y == IF next THEN m.y + m.row ELSE m.y
<1>1. /\ m.width \in Nat /\ m.x \in Nat /\ m.y \in Nat /\ m.row \in Nat
      /\ view.iw \in Nat /\ view.ih \in Nat
  BY DEF MeshRecords, Views
<1>2. t = [x |-> x, y |-> y, w |-> view.iw, h |-> view.ih]
  BY DEF Placed
<1>3. /\ n.width = IF m.width >= x + view.iw THEN m.width ELSE x + view.iw
      /\ n.x = x + view.iw /\ n.y = y
      /\ n.row = IF ~next /\ m.row >= view.ih THEN m.row ELSE view.ih
  BY DEF Placed
<1>4. x \in Nat /\ y \in Nat
  BY <1>1
<1> HIDE DEF t, n, x, y
<1>5. t.x = x /\ t.y = y /\ t.w = view.iw /\ t.h = view.ih /\ t \in Tiles
  BY <1>1, <1>2, <1>4 DEF Tiles
<1>6. x + view.iw <= n.width /\ view.ih <= n.row /\ n.row \in Nat
  BY <1>1, <1>3, <1>4
<1>7. QED
  BY <1>1, <1>3, <1>4, <1>5, <1>6 DEF Inside, Passed, t, n

\* A tile that was there stays inside and passed, and shares no pixel with the image
\* that is placed.
LEMMA PlacedLeavesTiles ==
    ASSUME NEW m \in MeshRecords, NEW view \in Views, NEW old \in Tiles,
           Inside(old, m), Passed(old, m)
    PROVE  LET p == Placed(m, view) IN
           Inside(old, p.mesh) /\ Passed(old, p.mesh) /\ Disjoint(old, p.tile)
<1> DEFINE t == Placed(m, view).tile
           n == Placed(m, view).mesh
           next == m.column = 5
           x == IF next THEN 0 ELSE m.x
           y == IF next THEN m.y + m.row ELSE m.y
<1>1. /\ m.width \in Nat /\ m.x \in Nat /\ m.y \in Nat /\ m.row \in Nat
      /\ view.iw \in Nat /\ view.ih \in Nat
  BY DEF MeshRecords, Views
<1>2. t = [x |-> x, y |-> y, w |-> view.iw, h |-> view.ih]
  BY DEF Placed
<1>3. /\ n.width = IF m.width >= x + view.iw THEN m.width ELSE x + view.iw
      /\ n.x = x + view.iw /\ n.y = y
      /\ n.row = IF ~next /\ m.row >= view.ih THEN m.row ELSE view.ih
  BY DEF Placed
<1>4. old.x \in Nat /\ old.y \in Nat /\ old.w \in Nat /\ old.h \in Nat
  BY DEF Tiles
<1>5. /\ old.x + old.w <= m.width /\ old.y + old.h <= m.y + m.row
      /\ old.y + old.h <= m.y \/ old.x + old.w <= m.x
  BY DEF Inside, Passed
<1>6. t.x = x /\ t.y = y
  BY <1>2
<1> HIDE DEF t, n
<1>7. CASE next
  <2>1. x = 0 /\ y = m.y + m.row /\ n.row = view.ih
    BY <1>3, <1>7
  <2> HIDE DEF x, y, next
  <2>2. old.x + old.w <= n.width
    BY <1>1, <1>3, <1>4, <1>5, <2>1
  <2>3. old.y + old.h <= n.y + n.row /\ old.y + old.h <= n.y /\ old.y + old.h <= t.y
    BY <1>1, <1>3, <1>4, <1>5, <1>6, <2>1
  <2>4. QED
    BY <2>2, <2>3 DEF Inside, Passed, Disjoint, t, n
<1>8. CASE ~next
  <2>1. x = m.x /\ y = m.y
    BY <1>8
  <2>2. n.row \in Nat /\ n.row >= m.row
    BY <1>1, <1>3, <1>8
  <2> HIDE DEF x, y, next
  <2>3. old.x + old.w <= n.width
    BY <1>1, <1>3, <1>4, <1>5, <2>1
  <2>4. old.y + old.h <= n.y + n.row
    BY <1>1, <1>3, <1>4, <1>5, <2>1, <2>2
  <2>5. old.y + old.h <= n.y \/ old.x + old.w <= n.x
    BY <1>1, <1>3, <1>4, <1>5, <2>1
  <2>6. old.x + old.w <= t.x \/ old.y + old.h <= t.y
    BY <1>5, <1>6, <2>1
  <2>7. QED
    BY <2>3, <2>4, <2>5, <2>6 DEF Inside, Passed, Disjoint, t, n
<1>9. QED
  BY <1>7, <1>8

\* Without tiles there is nothing to overlap.
LEMMA NoTiles ==
    ASSUME tiles' = <<>>, Len(views') \in Nat, done' = 0
    PROVE  TilesInv'
<1>1. tiles' \in Seq(Tiles) /\ Len(tiles') = 0 /\ DOMAIN tiles' = {}
  OBVIOUS
<1>2. QED
  BY <1>1 DEF TilesInv

\* Placing a view adds one tile, apart from all that are there.
LEMMA PrepareKeepsTiles ==
    ASSUME AssemblyInv, TilesInv, PrepareView
    PROVE  TilesInv'
<1> DEFINE view == views[done + 1]
           t == Placed(mesh, view).tile
           k == Len(tiles)
<1>1. /\ stage = "prepare" /\ done < Len(views) /\ views' = views
      /\ mesh' = Placed(mesh, view).mesh /\ tiles' = Append(tiles, t) /\ done' = done + 1
  BY DEF PrepareView
<1>2. done \in Nat /\ Len(views) \in Nat /\ view \in Views /\ mesh \in MeshRecords
  <2>1. done \in 0 .. Len(views) /\ views \in Seq(Views) /\ Bounded(mesh, form.version, done)
    BY <1>1 DEF AssemblyInv, PartsInv, MeshInv
  <2>2. done \in Nat /\ Len(views) \in Nat /\ done + 1 \in 1 .. Len(views)
    BY <1>1, <2>1
  <2>3. QED
    BY <2>1, <2>2 DEF Bounded
<1>3. tiles \in Seq(Tiles) /\ k = done /\ k \in Nat /\ DOMAIN tiles = 1 .. k
  BY <1>1, <1>2 DEF TilesInv
<1> HIDE DEF view, t
<1>4. t \in Tiles /\ Inside(t, mesh') /\ Passed(t, mesh')
  BY <1>1, <1>2, PlacedIsInside DEF t
<1>5. ASSUME NEW i \in 1 .. k
      PROVE  Inside(tiles[i], mesh') /\ Passed(tiles[i], mesh') /\ Disjoint(tiles[i], t)
  <2>1. tiles[i] \in Tiles /\ Inside(tiles[i], mesh) /\ Passed(tiles[i], mesh)
    BY <1>3 DEF TilesInv
  <2>2. QED
    BY <1>1, <1>2, <2>1, PlacedLeavesTiles DEF t
<1>6. /\ tiles' \in Seq(Tiles) /\ Len(tiles') = k + 1 /\ DOMAIN tiles' = 1 .. k + 1
      /\ tiles'[k + 1] = t /\ \A i \in 1 .. k : tiles'[i] = tiles[i]
  <2>1. Append(tiles, t) \in Seq(Tiles) /\ Len(Append(tiles, t)) = k + 1
    BY <1>3, <1>4
  <2>2. Append(tiles, t)[k + 1] = t /\ \A i \in 1 .. k : Append(tiles, t)[i] = tiles[i]
    BY <1>3, <1>4
  <2>3. QED
    BY <1>1, <1>3, <2>1, <2>2
<1> HIDE DEF k
<1>7. ASSUME NEW i \in 1 .. k + 1
      PROVE  Inside(tiles'[i], mesh') /\ Passed(tiles'[i], mesh')
  <2>1. CASE i = k + 1
    BY <1>4, <1>6, <2>1
  <2>2. CASE i \in 1 .. k
    BY <1>5, <1>6, <2>2
  <2>3. QED
    BY <1>3, <2>1, <2>2
<1>8. ASSUME NEW i \in 1 .. k + 1, NEW j \in 1 .. k + 1, i < j
      PROVE  Disjoint(tiles'[i], tiles'[j])
  <2>1. i \in 1 .. k
    BY <1>3, <1>8
  <2>2. CASE j = k + 1
    BY <1>5, <1>6, <2>1, <2>2
  <2>3. CASE j \in 1 .. k
    <3>1. Disjoint(tiles[i], tiles[j])
      BY <1>3, <1>8, <2>1, <2>3 DEF TilesInv
    <3>2. QED
      BY <1>6, <2>1, <2>3, <3>1
  <2>4. QED
    BY <1>3, <2>2, <2>3
<1>9. Len(tiles') <= Len(views') /\ Len(tiles') = done'
  BY <1>1, <1>2, <1>3, <1>6
<1>10. QED
  BY <1>6, <1>7, <1>8, <1>9 DEF TilesInv

\* No step but the preparation of a view moves a tile.
LEMMA StepKeepsTiles ==
    ASSUME AssemblyInv, TilesInv, [AssemblyNext]_assemblyVars
    PROVE  TilesInv'
<1>1. CASE UNCHANGED <<views, mesh, tiles>> /\ stage' # "prepare"
  BY <1>1 DEF TilesInv
<1>2. CASE UNCHANGED assemblyVars
  BY <1>2 DEF TilesInv, assemblyVars
<1>3. CASE Begin(form', views')
  <2>1. tiles' = <<>> /\ done' = 0 /\ Len(views') \in Nat
    BY <1>3 DEF Begin
  <2>2. QED
    BY <2>1, NoTiles
<1>4. CASE PrepareView
  BY <1>4, PrepareKeepsTiles
<1>5. CASE Compress
  <2>1. CASE UNCHANGED <<views, mesh, tiles>> /\ stage' = "refused"
    BY <1>1, <2>1
  <2>2. CASE tiles' = <<>> /\ views' = <<>> /\ done' = 0
    <3>1. Len(views') \in Nat
      BY <2>2
    <3>2. QED
      BY <2>2, <3>1, NoTiles
  <2>3. QED
    BY <1>5, <2>1, <2>2 DEF Compress
<1>6. CASE Pack \/ Drop \/ Prepared \/ PackView \/ Packed \/ ReadView \/ Read
  <2>1. UNCHANGED <<views, mesh, tiles>>
    BY <1>6 DEF Pack, Drop, Prepared, PackView, Packed, ReadView, Read
  <2>2. stage' # "prepare"
    BY <1>6 DEF Pack, Drop, Prepared, PackView, Packed, ReadView, Read
  <2>3. QED
    BY <1>1, <2>1, <2>2
<1>7. QED
  BY <1>2, <1>3, <1>4, <1>5, <1>6 DEF AssemblyNext

\* The atlas begins without a tile.
LEMMA AtlasBegins ==
    ASSUME AssemblyInit
    PROVE  TilesInv
<1>1. tiles = <<>> /\ views = <<>> /\ stage = "idle"
  BY DEF AssemblyInit
<1>2. tiles \in Seq(Tiles) /\ Len(tiles) = 0 /\ DOMAIN tiles = {} /\ Len(views) = 0
  BY <1>1
<1>3. QED
  BY <1>1, <1>2 DEF TilesInv

\* What is kept of the tiles says that they do not overlap.
LEMMA TilesAreDisjoint ==
    ASSUME TilesInv
    PROVE  TilesDisjoint
BY DEF TilesInv, TilesDisjoint, Inside, Disjoint

(***************************************************************************)
(* The mesh of a view                                                      *)
(***************************************************************************)
\* A reduction keeps at least two pixels a side and at most what it is asked for.
LEMMA ReducedSizes ==
    ASSUME NEW w \in Nat \ {0}, NEW h \in Nat \ {0}, NEW maxw \in Nat, NEW maxh \in Nat,
           maxw >= 2, maxh >= 2
    PROVE  /\ ReducedWidth(w, h, maxw, maxh) \in 2 .. maxw
           /\ ReducedHeight(w, h, maxw, maxh) \in 2 .. maxh
<1>1. ASSUME NEW size \in Nat PROVE Scaled(size, w, h, maxw, maxh) \in Int
  <2>1. (2 * size * maxw + w) \div (2 * w) \in Int
    <3>1. 2 * size * maxw + w \in Int /\ 2 * w \in Nat \ {0}
      BY SMT
    <3>2. QED
      BY <3>1, SMT
  <2>2. (2 * size * maxh + h) \div (2 * h) \in Int
    <3>1. 2 * size * maxh + h \in Int /\ 2 * h \in Nat \ {0}
      BY SMT
    <3>2. QED
      BY <3>1, SMT
  <2>3. QED
    BY <2>1, <2>2 DEF Scaled
<1>2. ASSUME NEW s \in Int, NEW max \in Nat, max >= 2
      PROVE  Greatest(2, Least(max, s)) \in 2 .. max
  BY <1>2 DEF Greatest, Least
<1>3. QED
  BY <1>1, <1>2 DEF ReducedWidth, ReducedHeight

\* The two triangles of a cell.
Lower(grid, x, y) ==
    LET a == y * grid.cols + x IN {a, a + 1, a + grid.cols}
Upper(grid, x, y) ==
    LET a == y * grid.cols + x IN {a + 1, a + grid.cols, a + grid.cols + 1}

\* Every candidate is one of the two triangles of a cell.
LEMMA CandidatesAre ==
    ASSUME NEW grid, NEW t
    PROVE  t \in Candidates(grid) <=>
             \E x \in 0 .. grid.cols - 2, y \in 0 .. grid.rows - 2 :
               t = Lower(grid, x, y) \/ t = Upper(grid, x, y)
<1> DEFINE X == 0 .. grid.cols - 2
           Y == 0 .. grid.rows - 2
<1>1. Candidates(grid) =
        UNION {{Lower(grid, x, y), Upper(grid, x, y)} : x \in X, y \in Y}
  BY DEF Candidates, Lower, Upper
<1> HIDE DEF X, Y
<1>2. t \in Candidates(grid) <=>
        \E x \in X, y \in Y : t \in {Lower(grid, x, y), Upper(grid, x, y)}
  <2>1. ASSUME t \in Candidates(grid)
        PROVE  \E x \in X, y \in Y : t \in {Lower(grid, x, y), Upper(grid, x, y)}
    BY <1>1, <2>1, SMT
  <2>2. ASSUME NEW x \in X, NEW y \in Y, t \in {Lower(grid, x, y), Upper(grid, x, y)}
        PROVE  t \in Candidates(grid)
    <3> DEFINE pairs == {{Lower(grid, i, j), Upper(grid, i, j)} : i \in X, j \in Y}
    <3>1. {Lower(grid, x, y), Upper(grid, x, y)} \in pairs
      OBVIOUS
    <3>2. Candidates(grid) = UNION pairs
      BY <1>1
    <3> HIDE DEF pairs
    <3>3. QED
      BY <2>2, <3>1, <3>2
  <2>3. QED
    BY <2>1, <2>2
<1>3. QED
  BY <1>2 DEF X, Y

\* The numbers below n are n numbers.
LEMMA CountTo ==
    ASSUME NEW n \in Nat
    PROVE  IsFiniteSet(0 .. n - 1) /\ Cardinality(0 .. n - 1) = n
<1>1. 0 \in Int /\ n - 1 \in Int
  OBVIOUS
<1>2. IsFiniteSet(0 .. n - 1)
  BY <1>1, FS_Interval
<1>3. Cardinality(0 .. n - 1) = IF 0 > n - 1 THEN 0 ELSE n - 1 - 0 + 1
  BY <1>1, FS_Interval, Zenon
<1>4. n - 1 - 0 + 1 = n /\ (0 > n - 1 => n = 0)
  OBVIOUS
<1>5. QED
  BY <1>2, <1>3, <1>4

\* A triangle has corners, and they are samples.
LEMMA TrianglesOfSamples ==
    ASSUME NEW grid, NEW version
    PROVE  \A t \in Triangles(grid, version) : t # {} /\ t \subseteq Samples(grid)
<1>1. Valid(grid, version) \subseteq Samples(grid)
  BY DEF Valid, InReach, InImage, Measured
<1>2. \A t \in Candidates(grid) : t # {}
  <2>1. \A x, y : Lower(grid, x, y) # {} /\ Upper(grid, x, y) # {}
    BY DEF Lower, Upper
  <2>2. QED
    BY <2>1, CandidatesAre
<1>3. QED
  BY <1>1, <1>2 DEF Triangles

\* There are two triangles for a cell of the grid, and a cell between two rows and
\* two columns.
LEMMA CandidateCount ==
    ASSUME NEW grid, grid.cols \in Nat, grid.rows \in Nat, grid.cols >= 2, grid.rows >= 2
    PROVE  /\ IsFiniteSet(Candidates(grid)) /\ Cardinality(Candidates(grid)) \in Nat
           /\ Cardinality(Candidates(grid)) <= 2 * ((grid.cols - 1) * (grid.rows - 1))
<1> DEFINE cols == grid.cols
           rows == grid.rows
           X == 0 .. cols - 2
           Y == 0 .. rows - 2
           cells == X \X Y
           halves == cells \X {0, 1}
           triangle == [c \in halves |-> IF c[2] = 0 THEN Lower(grid, c[1][1], c[1][2])
                                                     ELSE Upper(grid, c[1][1], c[1][2])]
<1>1. /\ IsFiniteSet(X) /\ Cardinality(X) = cols - 1
      /\ IsFiniteSet(Y) /\ Cardinality(Y) = rows - 1
  <2>1. /\ cols - 1 \in Nat /\ cols - 2 = cols - 1 - 1
        /\ rows - 1 \in Nat /\ rows - 2 = rows - 1 - 1
    OBVIOUS
  <2>2. QED
    BY <2>1, CountTo
<1>2. IsFiniteSet({0, 1}) /\ Cardinality({0, 1}) = 2
  <2>1. {0, 1} = 0 .. 2 - 1 /\ 2 \in Nat
    OBVIOUS
  <2>2. QED
    BY <2>1, CountTo
<1>3. IsFiniteSet(cells) /\ Cardinality(cells) = (cols - 1) * (rows - 1)
  <2>1. IsFiniteSet(X \X Y) /\ Cardinality(X \X Y) = Cardinality(X) * Cardinality(Y)
    <3> HIDE DEF X, Y
    <3>1. QED
      BY <1>1, FS_Product
  <2>2. QED
    BY <1>1, <2>1
<1>4. IsFiniteSet(halves) /\ Cardinality(halves) = (cols - 1) * (rows - 1) * 2
  <2>1. IsFiniteSet(cells \X {0, 1})
        /\ Cardinality(cells \X {0, 1}) = Cardinality(cells) * Cardinality({0, 1})
    <3> HIDE DEF cells
    <3>1. QED
      BY <1>2, <1>3, FS_Product
  <2>2. QED
    BY <1>2, <1>3, <2>1
<1>5. \A t : t \in Candidates(grid) <=>
              \E x \in X, y \in Y : t = Lower(grid, x, y) \/ t = Upper(grid, x, y)
  BY CandidatesAre
<1> HIDE DEF X, Y
<1>6. ASSUME NEW x \in X, NEW y \in Y
      PROVE  /\ <<<<x, y>>, 0>> \in halves /\ triangle[<<<<x, y>>, 0>>] = Lower(grid, x, y)
             /\ <<<<x, y>>, 1>> \in halves /\ triangle[<<<<x, y>>, 1>>] = Upper(grid, x, y)
  OBVIOUS
<1>7. \A c \in halves : triangle[c] \in Candidates(grid)
  <2>1. SUFFICES ASSUME NEW c \in halves PROVE triangle[c] \in Candidates(grid)
    OBVIOUS
  <2>2. c[1][1] \in X /\ c[1][2] \in Y
    OBVIOUS
  <2>3. triangle[c] \in {Lower(grid, c[1][1], c[1][2]), Upper(grid, c[1][1], c[1][2])}
    OBVIOUS
  <2>4. QED
    <3>1. PICK x \in X, y \in Y : x = c[1][1] /\ y = c[1][2]
      BY <2>2
    <3>2. triangle[c] = Lower(grid, x, y) \/ triangle[c] = Upper(grid, x, y)
      BY <2>3, <3>1
    <3>3. QED
      BY <1>5, <3>2
<1>8. \A t \in Candidates(grid) : \E c \in halves : triangle[c] = t
  <2>1. SUFFICES ASSUME NEW t \in Candidates(grid) PROVE \E c \in halves : triangle[c] = t
    OBVIOUS
  <2>2. PICK x \in X, y \in Y : t = Lower(grid, x, y) \/ t = Upper(grid, x, y)
    BY <1>5
  <2>3. CASE t = Lower(grid, x, y)
    BY <1>6, <2>3
  <2>4. CASE t = Upper(grid, x, y)
    BY <1>6, <2>4
  <2>5. QED
    BY <2>2, <2>3, <2>4
<1>9. triangle \in Surjection(halves, Candidates(grid))
  <2>1. triangle \in [halves -> Candidates(grid)]
    BY <1>7
  <2>2. QED
    BY <1>8, <2>1 DEF Surjection
<1> HIDE DEF triangle, halves
<1>10. IsFiniteSet(Candidates(grid)) /\ Cardinality(Candidates(grid)) <= Cardinality(halves)
  BY <1>4, <1>9, FS_Surjection
<1>11. Cardinality(Candidates(grid)) \in Nat
  BY <1>10, FS_CardinalityType
<1>12. (cols - 1) * (rows - 1) * 2 = 2 * ((cols - 1) * (rows - 1))
  BY SMT
<1>13. QED
  BY <1>4, <1>10, <1>11, <1>12

\* The mesh of a grid has no more vertices than samples, no more triangles than its
\* cells allow, and vertices only where it has triangles.
LEMMA MeshCounts ==
    ASSUME NEW grid, grid.cols \in Nat, grid.rows \in Nat, grid.cols >= 2, grid.rows >= 2,
           NEW version
    PROVE  LET triangles == Triangles(grid, version)
               used == Cardinality(Vertices(triangles))
               kept == Cardinality(triangles) IN
           /\ used \in 0 .. grid.cols * grid.rows
           /\ kept \in 0 .. 2 * ((grid.cols - 1) * (grid.rows - 1))
           /\ used = 0 <=> kept = 0
<1> DEFINE triangles == Triangles(grid, version)
<1>1. grid.cols * grid.rows \in Nat
  BY SMT
<1>2. IsFiniteSet(Samples(grid)) /\ Cardinality(Samples(grid)) = grid.cols * grid.rows
  <2>1. PICK n \in Nat : n = grid.cols * grid.rows
    BY <1>1
  <2>2. IsFiniteSet(0 .. n - 1) /\ Cardinality(0 .. n - 1) = n
    BY CountTo
  <2>3. QED
    BY <2>1, <2>2 DEF Samples
<1>3. \A t \in triangles : t # {} /\ t \subseteq Samples(grid)
  BY TrianglesOfSamples
<1>4. /\ Vertices(triangles) \in SUBSET Samples(grid)
      /\ Vertices(triangles) = {} <=> triangles = {}
  BY <1>3 DEF Vertices
<1>5. triangles \in SUBSET Candidates(grid)
  BY DEF Triangles
<1> HIDE DEF triangles
<1>6. /\ IsFiniteSet(Vertices(triangles)) /\ Cardinality(Vertices(triangles)) \in Nat
      /\ Cardinality(Vertices(triangles)) <= grid.cols * grid.rows
  BY <1>2, <1>4, FS_Subset, FS_CardinalityType
<1>7. /\ IsFiniteSet(triangles) /\ Cardinality(triangles) \in Nat
      /\ Cardinality(triangles) <= Cardinality(Candidates(grid))
  BY <1>5, CandidateCount, FS_Subset, FS_CardinalityType
<1>8. Cardinality(triangles) <= 2 * ((grid.cols - 1) * (grid.rows - 1))
  <2>1. PICK n \in Nat : n = (grid.cols - 1) * (grid.rows - 1)
    BY SMT
  <2>2. QED
    BY <1>7, <2>1, CandidateCount
<1>9. (Cardinality(Vertices(triangles)) = 0 <=> Vertices(triangles) = {})
      /\ (Cardinality(triangles) = 0 <=> triangles = {})
  BY <1>6, <1>7, FS_EmptySet
<1>10. Cardinality(Vertices(triangles)) \in 0 .. grid.cols * grid.rows
  <2>1. PICK n \in Nat : n = grid.cols * grid.rows
    BY <1>1
  <2>2. QED
    BY <1>6, <2>1
<1>11. Cardinality(triangles) \in 0 .. 2 * ((grid.cols - 1) * (grid.rows - 1))
  <2>1. PICK n \in Nat : n = 2 * ((grid.cols - 1) * (grid.rows - 1))
    BY SMT
  <2>2. QED
    BY <1>7, <1>8, <2>1
<1>12. QED
  BY <1>4, <1>9, <1>10, <1>11 DEF triangles

\* Whatever a camera of an accepted profile sees, its view is canonical.
LEMMA ViewIsCanonical ==
    ASSUME NEW p \in Profiles, NEW scene \in Scenes, NEW version \in 2 .. 3
    PROVE  Canonical(version, View(p, scene, version))
<1> DEFINE grid == Grid(p.w, p.h, scene)
           view == View(p, scene, version)
           found == Meshes[<<p.w, p.h, scene, version>>]
<1> HIDE DEF grid, view, found
<1>1. /\ p.w \in Nat \ {0} /\ p.h \in Nat \ {0} /\ p.iw \in Nat \ {0} /\ p.ih \in Nat \ {0}
      /\ p.channels \in {1, 3}
  <2>1. p.w \in 1 .. MaxWidth /\ p.h \in 1 .. MaxHeight
    BY BatchAssumption
  <2>2. p.iw \in 1 .. MaxWidth /\ p.ih \in 1 .. MaxHeight
    BY BatchAssumption
  <2>3. p.channels \in {1, 3}
    BY BatchAssumption
  <2>4. QED
    BY <2>1, <2>2, <2>3
<1>2. grid.cols \in 2 .. 64 /\ grid.rows \in 2 .. 48
  <2>1. /\ DepthWidth = 64 /\ DepthHeight = 48
        /\ grid.cols = ReducedWidth(p.w, p.h, DepthWidth, DepthHeight)
        /\ grid.rows = ReducedHeight(p.w, p.h, DepthWidth, DepthHeight)
    BY DEF Grid, grid, DepthWidth, DepthHeight
  <2>2. QED
    <3>1. /\ ReducedWidth(p.w, p.h, 64, 48) \in 2 .. 64
          /\ ReducedHeight(p.w, p.h, 64, 48) \in 2 .. 48
      <4>1. 64 \in Nat /\ 48 \in Nat /\ 64 >= 2 /\ 48 >= 2
        OBVIOUS
      <4>2. QED
        BY <1>1, <4>1, ReducedSizes
    <3>2. QED
      BY <2>1, <3>1
<1>3. ImageWidth(version) \in Nat /\ ImageWidth(version) >= 2
      /\ ImageHeight(version) \in Nat /\ ImageHeight(version) >= 2
  BY ImageSizes
<1>4. /\ ReducedWidth(p.iw, p.ih, ImageWidth(version), ImageHeight(version))
           \in 2 .. ImageWidth(version)
      /\ ReducedHeight(p.iw, p.ih, ImageWidth(version), ImageHeight(version))
           \in 2 .. ImageHeight(version)
  BY <1>1, <1>3, ReducedSizes
<1>5. /\ found.used = Cardinality(Vertices(Triangles(grid, version)))
      /\ found.kept = Cardinality(Triangles(grid, version))
  <2> DEFINE seen == <<p.w, p.h, scene, version>>
             all == {<<q.w, q.h, s, v>> : q \in Profiles, s \in Scenes, v \in 2 .. 3}
  <2>1. found = Meshes[seen]
    BY DEF found
  <2>2. Meshes = [s \in all |-> MeshOf(s[1], s[2], s[3], s[4])]
    BY DEF Meshes
  <2>3. seen \in all
    OBVIOUS
  <2>4. seen[1] = p.w /\ seen[2] = p.h /\ seen[3] = scene /\ seen[4] = version
    OBVIOUS
  <2> HIDE DEF seen, all
  <2>5. found = MeshOf(seen[1], seen[2], seen[3], seen[4])
    BY <2>1, <2>2, <2>3
  <2>6. found = MeshOf(p.w, p.h, scene, version)
    BY <2>4, <2>5
  <2>7. QED
    BY <2>6 DEF MeshOf, grid
<1>6. /\ found.used \in 0 .. grid.cols * grid.rows
      /\ found.kept \in 0 .. 2 * ((grid.cols - 1) * (grid.rows - 1))
      /\ found.used = 0 <=> found.kept = 0
  BY <1>2, <1>5, MeshCounts
<1>7. /\ view.w = grid.cols /\ view.h = grid.rows
      /\ view.iw = ReducedWidth(p.iw, p.ih, ImageWidth(version), ImageHeight(version))
      /\ view.ih = ReducedHeight(p.iw, p.ih, ImageWidth(version), ImageHeight(version))
      /\ view.channels = (IF version = 3 THEN p.channels ELSE 1)
      /\ view.used = found.used /\ view.kept = found.kept
  BY DEF View, view, grid, found
<1>8. view.channels \in IF version = 3 THEN {1, 3} ELSE {1}
  BY <1>1, <1>7
<1>9. view.w \in 2 .. DepthWidth /\ view.h \in 2 .. DepthHeight
  BY <1>2, <1>7 DEF DepthWidth, DepthHeight
<1>10. view.iw \in 2 .. ImageWidth(version) /\ view.ih \in 2 .. ImageHeight(version)
  BY <1>4, <1>7
<1>11. /\ view.used \in 0 .. view.w * view.h
       /\ view.kept \in 0 .. 2 * ((view.w - 1) * (view.h - 1))
       /\ view.used = 0 <=> view.kept = 0
  BY <1>6, <1>7
<1>12. Canonical(version, view)
  BY <1>8, <1>9, <1>10, <1>11 DEF Canonical
<1>13. QED
  BY <1>12 DEF view

(***************************************************************************)
(* Extremes of sets of numbers                                             *)
(***************************************************************************)
\* Every set of numbers has a least one.
LEMMA LeastOf ==
    ASSUME NEW T, T \subseteq Nat, T # {}
    PROVE  \E x \in T : \A y \in T : x <= y
<1> DEFINE R == {ss \in Nat \X Nat : ss[1] < ss[2]}
<1>1. IsWellFoundedOn(R, Nat)
  BY NatLessThanWellFounded DEF OpToRel
<1> HIDE DEF R
<1>2. PICK x \in T : \A y \in T : ~(<<y, x>> \in R)
  BY <1>1, WFMin
<1>3. ASSUME NEW y \in T PROVE x <= y
  <2>1. x \in Nat /\ y \in Nat /\ <<y, x>> \in Nat \X Nat
    OBVIOUS
  <2>2. ~(<<y, x>>[1] < <<y, x>>[2])
    BY <1>2, <2>1 DEF R
  <2> QED
    BY <2>1, <2>2
<1> QED
  BY <1>3

\* A set of numbers that are at most n has a greatest one, and a least one.
LEMMA Extremes ==
    ASSUME NEW S, NEW n \in Nat, S \subseteq 0..n, S # {}
    PROVE  /\ Max(S) \in S /\ \A y \in S : y <= Max(S)
           /\ Min(S) \in S /\ \A y \in S : Min(S) <= y
<1>1. \E x \in S : \A y \in S : x >= y
  <2> DEFINE T == {n - x : x \in S}
  <2>1. T \subseteq Nat
    <3>1. \A x \in S : n - x \in Nat
      OBVIOUS
    <3> QED
      BY <3>1
  <2>2. PICK t \in T : \A u \in T : t <= u
    <3>1. T # {}
      OBVIOUS
    <3> HIDE DEF T
    <3> QED
      BY <2>1, <3>1, LeastOf
  <2>3. PICK x \in S : t = n - x
    BY <2>2
  <2>4. ASSUME NEW y \in S PROVE x >= y
    <3>1. n - y \in T
      OBVIOUS
    <3>2. n - x <= n - y
      <4>1. t <= n - y
        BY <2>2, <3>1
      <4> QED
        BY <2>3, <4>1
    <3>3. x \in Nat /\ y \in Nat
      OBVIOUS
    <3> QED
      BY <3>2, <3>3
  <2> QED
    BY <2>4
<1>2. \E x \in S : \A y \in S : x <= y
  <2>1. S \subseteq Nat
    OBVIOUS
  <2> QED
    BY <2>1, LeastOf
<1>3. Max(S) \in S /\ \A y \in S : Max(S) >= y
  BY <1>1 DEF Max
<1>4. Min(S) \in S /\ \A y \in S : Min(S) <= y
  BY <1>2 DEF Min
<1>5. \A y \in S : y <= Max(S)
  <2>1. \A y \in S : y \in Nat
    OBVIOUS
  <2> QED
    BY <1>3, <2>1
<1> QED
  BY <1>3, <1>4, <1>5

(***************************************************************************)
(* The frames of a batch                                                   *)
(***************************************************************************)
\* What a frame that is there can be: version 1 has frames whose image belongs to
\* their depth only.
Fits(frame) ==
    /\ frame.age \in 0 .. MaxExposure /\ frame.image \in 0 .. MaxExposure
    /\ frame.scene \in Scenes /\ frame.usable \in BOOLEAN
    /\ host.args.version = 1 => Legacy(frame)
    /\ frame.far => host.args.source \in {"replay", "capture"}

FramesFit(frames) ==
    DOMAIN frames = DOMAIN host.args.rig /\ \A c \in Shot(frames) : Fits(frames[c])

\* Every frame a camera delivers fits.
LEMMA FrameFits ==
    ASSUME NEW c, NEW f \in Frames(c), f # NoFrame
    PROVE  Fits(f)
<1> DEFINE own == host.args.version = 2 /\ (host.args.source = "gimbal" => c = RgbCamera)
<1>1. /\ f \in [age : 0 .. MaxExposure, image : 0 .. MaxExposure,
                scene : Scenes, usable : BOOLEAN, far : BOOLEAN]
      /\ f.image = f.age \/ own
      /\ f.usable \/ own
      /\ f.far => host.args.source \in {"replay", "capture"}
  BY DEF Frames
<1>2. /\ f.age \in 0 .. MaxExposure /\ f.image \in 0 .. MaxExposure
      /\ f.scene \in Scenes /\ f.usable \in BOOLEAN
  BY <1>1
<1>3. host.args.version = 1 => f.image = f.age /\ f.usable
  BY <1>1
<1>4. QED
  BY <1>1, <1>2, <1>3 DEF Fits, Legacy

\* A batch of such frames fits.
LEMMA BatchFits ==
    ASSUME NEW odd, NEW frame \in Frames(odd),
           NEW alike \in Alike(DOMAIN host.args.rig)
    PROVE  FramesFit(Batch(DOMAIN host.args.rig, alike, odd, frame))
<1> DEFINE cameras == DOMAIN host.args.rig
           frames == Batch(cameras, alike, odd, frame)
<1>1. DOMAIN frames = cameras
  BY DEF Batch
<1>2. alike \in Frames(Min(cameras))
  BY DEF Alike
<1>3. ASSUME NEW c \in Shot(frames) PROVE Fits(frames[c])
  <2>1. c \in cameras /\ frames[c] # NoFrame
    BY <1>1 DEF Shot
  <2>2. frames[c] = IF c = odd THEN frame ELSE alike
    BY <2>1 DEF Batch
  <2>3. QED
    BY <1>2, <2>1, <2>2, FrameFits
<1>4. QED
  BY <1>1, <1>3 DEF FramesFit

\* The ages of the cameras that are accepted lie within the skew and the limit.
LEMMA AcceptedAges ==
    ASSUME NEW frames, FramesFit(frames), Accepted(frames) # {}
    PROVE  LET ages == AgesOf(frames, Accepted(frames)) IN
           /\ Min(ages) \in Nat /\ Max(ages) \in Nat
           /\ Min(ages) <= MaxAge /\ Max(ages) - Min(ages) <= PacketSkew
<1> DEFINE taken == Accepted(frames)
           ages == AgesOf(frames, taken)
           all == AgesOf(frames, Shot(frames))
<1>1. MaxExposure \in Nat /\ MaxAge \in Nat /\ PacketSkew \in Nat
  BY BatchAssumption
<1>2. taken \subseteq Shot(frames)
  BY DEF Accepted
<1>3. \A c \in Shot(frames) : frames[c].age \in 0 .. MaxExposure
  BY DEF FramesFit, Fits
<1>4. /\ ages \subseteq 0 .. MaxExposure /\ ages # {} /\ ages \subseteq all
      /\ all \subseteq 0 .. MaxExposure /\ all # {}
  BY <1>2, <1>3 DEF AgesOf
<1>5. \A a \in ages : a - Min(all) <= PacketSkew /\ a <= MaxAge
  BY DEF AgesOf, Accepted
<1> HIDE DEF ages, all
<1>6. /\ Max(ages) \in ages /\ Min(ages) \in ages
      /\ Min(all) \in all /\ \A a \in all : Min(all) <= a
  BY <1>1, <1>4, Extremes
<1>7. /\ Max(ages) \in Nat /\ Min(ages) \in Nat /\ Min(all) \in Nat
      /\ Min(all) <= Min(ages)
  <2>1. \A a \in 0 .. MaxExposure : a \in Nat
    BY <1>1
  <2>2. Max(ages) \in Nat /\ Min(ages) \in Nat /\ Min(all) \in Nat
    BY <1>4, <1>6, <2>1
  <2>3. Min(ages) \in all
    BY <1>4, <1>6
  <2>4. QED
    BY <1>6, <2>2, <2>3
<1>8. Max(ages) - Min(all) <= PacketSkew /\ Min(ages) <= MaxAge
  BY <1>5, <1>6
<1>9. QED
  BY <1>1, <1>7, <1>8 DEF ages

\* And the images of an RGB packet are as young.
LEMMA AcceptedImages ==
    ASSUME NEW frames, FramesFit(frames)
    PROVE  LET images == Images(frames, Accepted(frames)) IN
           Max(images) \in Nat /\ Max(images) <= MaxAge
<1> DEFINE images == Images(frames, Accepted(frames))
<1>1. MaxExposure \in Nat /\ MaxAge \in Nat
  BY BatchAssumption
<1>2. \A c \in Accepted(frames) : /\ frames[c].image \in 0 .. MaxExposure
                                  /\ host.rgb /\ frames[c].usable => frames[c].image <= MaxAge
  BY DEF Accepted, FramesFit, Fits
<1>3. images # {} /\ \A a \in images : a \in 0 .. MaxExposure /\ a <= MaxAge
  <2>1. \A a \in images : a = 0 \/ \E c \in Accepted(frames) :
                                     host.rgb /\ frames[c].usable /\ a = frames[c].image
    BY DEF Images
  <2>2. images # {}
    BY DEF Images
  <2>3. QED
    BY <1>1, <1>2, <2>1, <2>2
<1> HIDE DEF images
<1>4. images \subseteq 0 .. MaxExposure
  BY <1>3
<1>5. Max(images) \in images
  BY <1>1, <1>3, <1>4, Extremes
<1>6. QED
  BY <1>1, <1>3, <1>5 DEF images

(***************************************************************************)
(* The host                                                                *)
(***************************************************************************)
Loops == {"start", "usage", "poll", "assemble", "unfit", "stray", "late"}

\* Once started, a host knows whether it sends RGB scenes, and its mode fits; what
\* ends it is a camera of which no view can be made, or one that has gone too far.
HostInv ==
    /\ host \in [args : Arguments, rgb : BOOLEAN, retained : BOOLEAN]
    /\ loop \in Loops
    /\ loop \in {"poll", "assemble", "late"} =>
         /\ ~Unusable(host.args)
         /\ host.rgb <=> NeedsRgb(host.args) \/ Retains(host.args)
    /\ loop = "unfit" => Version > 1 /\ \E c \in DOMAIN host.args.rig : ~Suits(host.args.rig[c])
    /\ loop = "stray" => Version > 1 /\ host.args.source \in {"replay", "capture"}

\* A source that does not call for RGB scenes delivers what the legacy ones take.
LEMMA LegacySources ==
    ASSUME NEW a \in Arguments
    PROVE  /\ NeedsRgb(a) \in BOOLEAN /\ Retains(a) \in BOOLEAN
           /\ ~NeedsRgb(a) => a.version = 1 /\ RgbCamera \notin DOMAIN a.rig
<1>1. /\ a.source \in Sources /\ a.version \in 1 .. 2
      /\ a.source = "demo" => a.version = 1
      /\ a.version = 1 => RgbCamera \notin DOMAIN a.rig
  BY DEF Arguments
<1>2. CASE a.source = "demo"
  BY <1>1, <1>2 DEF NeedsRgb, Retains
<1>3. CASE a.source = "gimbal"
  BY <1>1, <1>3 DEF NeedsRgb, Retains
<1>4. CASE a.source = "replay"
  BY <1>1, <1>4 DEF NeedsRgb, Retains
<1>5. CASE a.source = "capture"
  BY <1>1, <1>5 DEF NeedsRgb, Retains
<1>6. QED
  BY <1>1, <1>2, <1>3, <1>4, <1>5 DEF Sources

\* Every camera of a rig has a profile.
LEMMA RigsHaveProfiles ==
    ASSUME NEW a \in Arguments, NEW c \in DOMAIN a.rig
    PROVE  a.rig[c] \in Profiles
<1>1. a.rig \in Rigs
  BY DEF Arguments
<1>2. a.rig \in [DOMAIN a.rig -> Profiles]
  BY <1>1, BatchAssumption
<1>3. QED
  BY <1>2

\* A host has a budget of at least one point.
LEMMA BudgetIs ==
    ASSUME NEW a \in Arguments
    PROVE  a.budget \in Nat \ {0} /\ a.budget <= MaxPoints
<1>1. a.budget \in Budgets
  BY DEF Arguments
<1>2. a.budget \in 1 .. MaxPoints
  BY <1>1, BatchAssumption
<1>3. MaxPoints \in Nat
  BY DEF MaxPoints
<1>4. QED
  BY <1>2, <1>3

\* What a started host polls fits its mode.
LEMMA NothingIsRefused ==
    ASSUME HostInv, loop = "poll",
           NEW frames, FramesFit(frames), NEW taken, taken \subseteq Shot(frames)
    PROVE  ~Refuses(frames, taken)
<1> DEFINE a == host.args
<1>1. a \in Arguments /\ host.rgb \in BOOLEAN /\ a.geometry \in Geometries
  BY DEF HostInv, Arguments
<1>2. ~Unusable(a) /\ (host.rgb <=> NeedsRgb(a) \/ Retains(a))
  BY DEF HostInv
<1>3. ~(host.rgb /\ a.geometry = "points")
  BY <1>2 DEF Unusable
<1>4. ~host.rgb => a.version = 1 /\ RgbCamera \notin DOMAIN a.rig
  BY <1>1, <1>2, LegacySources
<1>5. \A c \in Shot(frames) : ~host.rgb => Legacy(frames[c])
  BY <1>4 DEF FramesFit, Fits
<1>6. Version > 1 => Version \in 2 .. 3
  BY <1>1 DEF Version
<1>7. ASSUME NEW c \in taken, Version > 1
      PROVE  Canonical(Version, View(a.rig[c], frames[c].scene, Version))
  <2>1. c \in DOMAIN a.rig /\ frames[c].scene \in Scenes
    BY DEF FramesFit, Fits, Shot
  <2>2. a.rig[c] \in Profiles
    BY <1>1, <2>1, RigsHaveProfiles
  <2>3. QED
    BY <1>6, <1>7, <2>1, <2>2, ViewIsCanonical
<1> HIDE DEF a
<1>8. \A c \in (IF Version = 1 THEN taken ELSE Shot(frames)) : ~host.rgb => Legacy(frames[c])
  BY <1>5
<1>9. QED
  BY <1>3, <1>4, <1>7, <1>8 DEF Refuses, a

(***************************************************************************)
(* The inductive invariant of the loop                                     *)
(***************************************************************************)
\* The ages a packet is built with.
Young(i) ==
    /\ i[1] \in Nat /\ i[2] \in Nat /\ i[3] \in Nat
    /\ i[1] <= MaxAge /\ i[2] - i[1] <= PacketSkew /\ i[3] <= MaxAge

AgeInv ==
    /\ late \in 0 .. MaxLate
    /\ late # 0 => form.version # 3 /\ host.args.source # "replay"
    /\ interval # <<>> => Young(interval)
    /\ loop = "late" => interval # <<>> /\ interval[1] + late > MaxAge

PointsInv ==
    /\ voxels \in Nat /\ form.points <= host.args.budget
    /\ loop = "assemble" => form.points = Chosen(voxels)

LoopInv ==
    HostInv /\ AgeInv /\ PointsInv /\ (stage = "idle" <=> loop # "assemble")

\* The loop begins with its invariant.
LEMMA LoopBegins ==
    ASSUME BatchInit
    PROVE  LoopInv
<1>1. /\ loop = "start" /\ interval = <<>> /\ late = 0 /\ voxels = 0 /\ stage = "idle"
      /\ form.points = 0
  BY DEF BatchInit, AssemblyInit, NoForm
<1>2. PICK a \in Arguments : host = [args |-> a, rgb |-> FALSE, retained |-> FALSE]
  BY DEF BatchInit
<1>3. HostInv
  BY <1>1, <1>2 DEF HostInv, Loops
<1>4. AgeInv
  BY <1>1, BatchAssumption DEF AgeInv
<1>5. host.args.budget \in Nat
  BY <1>2, BudgetIs
<1>6. PointsInv
  BY <1>1, <1>5 DEF PointsInv
<1>7. QED
  BY <1>1, <1>3, <1>4, <1>6 DEF LoopInv

\* A host that starts decides its mode once.
LEMMA StartHolds ==
    ASSUME LoopInv, Start
    PROVE  LoopInv'
<1> DEFINE a == host.args
<1>1. /\ loop = "start" /\ loop' = IF Unusable(a) THEN "usage" ELSE "poll"
      /\ host' = [host EXCEPT !.retained = Retains(a), !.rgb = NeedsRgb(a) \/ Retains(a)]
      /\ UNCHANGED <<form, stage, interval, late, voxels>>
  BY DEF Start, assemblyVars
<1>2. host \in [args : Arguments, rgb : BOOLEAN, retained : BOOLEAN] /\ a \in Arguments
  BY DEF LoopInv, HostInv
<1>3. Retains(a) \in BOOLEAN /\ (NeedsRgb(a) \/ Retains(a)) \in BOOLEAN
  BY <1>2, LegacySources
<1> HIDE DEF a
<1>4. /\ host'.args = a /\ host'.rgb = (NeedsRgb(a) \/ Retains(a))
      /\ host' \in [args : Arguments, rgb : BOOLEAN, retained : BOOLEAN]
  BY <1>1, <1>2, <1>3 DEF a
<1>5. HostInv'
  <2>1. /\ loop' \in Loops /\ loop' # "unfit" /\ loop' # "stray"
        /\ loop' \in {"poll", "assemble", "late"} => ~Unusable(a)
    BY <1>1 DEF Loops
  <2>2. QED
    BY <1>4, <2>1 DEF HostInv
<1>6. AgeInv'
  BY <1>1, <1>4 DEF LoopInv, AgeInv, a
<1>7. PointsInv'
  BY <1>1, <1>4 DEF LoopInv, PointsInv, a
<1>8. stage' = "idle" /\ loop' # "assemble"
  BY <1>1 DEF LoopInv
<1>9. QED
  BY <1>5, <1>6, <1>7, <1>8 DEF LoopInv

\* A batch that is refused has a camera of which no view can be made, or one that has
\* gone too far.
LEMMA RefusalHolds ==
    ASSUME LoopInv, NEW frames, FramesFit(frames), NEW tracked, NEW n \in Nat, NEW keyframes,
           Build(frames, tracked, n, keyframes), loop' # "assemble"
    PROVE  LoopInv'
<1> DEFINE taken == IF tracked THEN Accepted(frames) ELSE {}
<1>1. loop = "poll" /\ UNCHANGED host /\ late' = 0
  BY DEF Build
<1>2. taken \subseteq Shot(frames)
  BY DEF Accepted
<1>3. ~Refuses(frames, taken)
  BY <1>1, <1>2, NothingIsRefused DEF LoopInv
<1>4. /\ UNCHANGED <<assemblyVars, interval, voxels>>
      /\ \/ loop' = "unfit" /\ Unfit(taken)
         \/ loop' = "stray" /\ Strays(frames, taken)
  BY <1>3 DEF Build
<1>5. UNCHANGED <<form, stage>>
  BY <1>4 DEF assemblyVars
<1> HIDE DEF taken
<1>6. taken \subseteq DOMAIN host.args.rig
  BY <1>2 DEF FramesFit, Shot
<1>7. Unfit(taken) => Version > 1 /\ \E c \in DOMAIN host.args.rig : ~Suits(host.args.rig[c])
  BY <1>6 DEF Unfit
<1>8. Strays(frames, taken) => Version > 1 /\ host.args.source \in {"replay", "capture"}
  BY <1>2 DEF Strays, FramesFit, Fits
<1>9. HostInv'
  <2>1. Version' = Version
    BY <1>1 DEF Version
  <2>2. loop' \in Loops /\ loop' \notin {"poll", "assemble", "late"}
    BY <1>4 DEF Loops
  <2>3. (loop' = "unfit" => Unfit(taken)) /\ (loop' = "stray" => Strays(frames, taken))
    BY <1>4
  <2>4. host' \in [args : Arguments, rgb : BOOLEAN, retained : BOOLEAN]
    BY <1>1 DEF LoopInv, HostInv
  <2>5. QED
    BY <1>1, <1>7, <1>8, <2>1, <2>2, <2>3, <2>4 DEF HostInv
<1>10. AgeInv'
  <2>1. 0 \in 0 .. MaxLate
    BY BatchAssumption
  <2>2. QED
    BY <1>1, <1>4, <2>1 DEF LoopInv, AgeInv, Young
<1>11. PointsInv'
  BY <1>1, <1>4, <1>5 DEF LoopInv, PointsInv, Chosen
<1>12. stage' = "idle" /\ loop' # "assemble"
  BY <1>1, <1>4, <1>5 DEF LoopInv
<1>13. QED
  BY <1>9, <1>10, <1>11, <1>12 DEF LoopInv

\* A batch that is built is young and within its budget.
LEMMA BuildHolds ==
    ASSUME LoopInv, NEW frames, FramesFit(frames), NEW tracked, NEW n \in Nat, NEW keyframes,
           Build(frames, tracked, n, keyframes), loop' = "assemble"
    PROVE  LoopInv'
<1> DEFINE taken == IF tracked THEN Accepted(frames) ELSE {}
<1>1. loop = "poll" /\ UNCHANGED host /\ late' = 0
  BY DEF Build
<1>3. ~(Refuses(frames, taken) \/ Unfit(taken) \/ Strays(frames, taken))
  BY DEF Build
<1>4. /\ loop' = "assemble" /\ voxels' = n
      /\ \E vs : Begin([version |-> Version, prepared |-> host.args.geometry = "prepared",
                        points |-> Chosen(n)], vs)
      /\ interval' = IF taken = {} THEN <<>>
                     ELSE <<Min(AgesOf(frames, taken)), Max(AgesOf(frames, taken)),
                            Max(Images(frames, taken))>>
  BY <1>3 DEF Build
<1>5. stage' \in {"prepare", "built"} /\ form'.points = Chosen(n)
  BY <1>4 DEF Begin
<1>6. HostInv'
  BY <1>1, <1>4 DEF LoopInv, HostInv, Loops
<1>7. AgeInv'
  <2>1. ASSUME taken # {} PROVE Young(interval')
    <3>1. taken = Accepted(frames)
      BY <2>1
    <3>2. interval' = <<Min(AgesOf(frames, taken)), Max(AgesOf(frames, taken)),
                        Max(Images(frames, taken))>>
      BY <1>4, <2>1
    <3> HIDE DEF taken
    <3>3. /\ Min(AgesOf(frames, taken)) \in Nat /\ Max(AgesOf(frames, taken)) \in Nat
          /\ Min(AgesOf(frames, taken)) <= MaxAge
          /\ Max(AgesOf(frames, taken)) - Min(AgesOf(frames, taken)) <= PacketSkew
      BY <2>1, <3>1, AcceptedAges
    <3>4. Max(Images(frames, taken)) \in Nat /\ Max(Images(frames, taken)) <= MaxAge
      BY <3>1, AcceptedImages
    <3>5. QED
      BY <3>2, <3>3, <3>4 DEF Young
  <2>2. interval' # <<>> => Young(interval')
    BY <1>4, <2>1
  <2>3. late' \in 0 .. MaxLate
    BY <1>1, BatchAssumption
  <2>4. QED
    BY <1>1, <1>4, <2>2, <2>3 DEF AgeInv, Young
<1>8. PointsInv'
  <2>1. host.args.budget \in Nat
    BY BudgetIs DEF LoopInv, HostInv
  <2>2. Chosen(n) <= host.args.budget
    BY <2>1 DEF Chosen
  <2>3. Chosen(n)' = Chosen(n)
    BY <1>1 DEF Chosen
  <2>4. QED
    BY <1>1, <1>4, <1>5, <2>2, <2>3 DEF PointsInv, Chosen
<1>9. QED
  BY <1>4, <1>5, <1>6, <1>7, <1>8 DEF LoopInv

\* So is every batch that is polled.
LEMMA PollHolds ==
    ASSUME LoopInv, Poll
    PROVE  LoopInv'
<1> DEFINE cameras == DOMAIN host.args.rig
<1>1. PICK odd \in cameras :
        \E frame \in Frames(odd), alike \in Alike(cameras), tracked \in BOOLEAN,
           n \in Voxels, keyframes \in Keyframes :
          Build(Batch(cameras, alike, odd, frame), tracked, n, keyframes)
  BY DEF Poll
<1>2. PICK frame \in Frames(odd), alike \in Alike(cameras), tracked \in BOOLEAN,
           n \in Voxels, keyframes \in Keyframes :
        Build(Batch(cameras, alike, odd, frame), tracked, n, keyframes)
  BY <1>1
<1>3. FramesFit(Batch(cameras, alike, odd, frame))
  BY BatchFits
<1>4. n \in Nat
  BY BatchAssumption
<1> HIDE DEF cameras
<1>5. QED
  BY <1>2, <1>3, <1>4, BuildHolds, RefusalHolds

\* Only live legacy packets are stamped again.
LEMMA RestampHolds ==
    ASSUME LoopInv, Restamp
    PROVE  LoopInv'
<1>1. /\ loop = "assemble" /\ late' \in 1 .. MaxLate
      /\ form.version # 3 /\ host.args.source # "replay"
      /\ UNCHANGED <<form, stage, loop, host, interval, voxels>>
  BY DEF Restamp, assemblyVars
<1>2. late' \in 0 .. MaxLate
  BY <1>1, BatchAssumption
<1>3. AgeInv'
  BY <1>1, <1>2 DEF LoopInv, AgeInv, Young
<1>4. HostInv'
  BY <1>1 DEF LoopInv, HostInv
<1>5. PointsInv'
  BY <1>1 DEF LoopInv, PointsInv, Chosen
<1>6. QED
  BY <1>1, <1>3, <1>4, <1>5 DEF LoopInv

\* A packet that is not timely any more was stamped again when its last exposure
\* was as old as it may be.
LEMMA OverdueWasStamped ==
    ASSUME LoopInv, ~Timely
    PROVE  interval # <<>> /\ interval[1] + late > MaxAge
<1>1. interval # <<>>
  BY DEF Timely
<1>2. /\ interval[1] \in Nat /\ interval[2] - interval[1] <= PacketSkew
      /\ interval[3] <= MaxAge
  BY <1>1 DEF LoopInv, AgeInv, Young
<1>3. late \in Nat /\ MaxAge \in Nat
  BY BatchAssumption DEF LoopInv, AgeInv
<1>4. ~(interval[1] + late <= MaxAge)
  BY <1>1, <1>2 DEF Timely
<1>5. QED
  BY <1>1, <1>2, <1>3, <1>4

\* A packet that is not packed ends a host only when it was stamped again.
LEMMA PackBatchHolds ==
    ASSUME LoopInv, PackBatch
    PROVE  LoopInv'
<1>1. loop = "assemble" /\ UNCHANGED <<host, interval, late, voxels>>
  BY DEF PackBatch
<1>2. CASE Timely
  <2>1. loop' = loop /\ form' = form /\ stage' = "pack"
    BY <1>2 DEF PackBatch, Pack
  <2>2. AgeInv'
    BY <1>1, <2>1 DEF LoopInv, AgeInv, Young
  <2>3. HostInv'
    BY <1>1, <2>1 DEF LoopInv, HostInv
  <2>4. PointsInv'
    BY <1>1, <2>1 DEF LoopInv, PointsInv, Chosen
  <2>5. QED
    BY <1>1, <2>1, <2>2, <2>3, <2>4 DEF LoopInv
<1>3. CASE ~Timely
  <2>1. loop' = "late" /\ form' = form /\ stage' = "idle"
    BY <1>3 DEF PackBatch, Drop
  <2>2. AgeInv'
    BY <1>1, <1>3, <2>1, OverdueWasStamped DEF LoopInv, AgeInv, Young
  <2>3. HostInv'
    BY <1>1, <2>1 DEF LoopInv, HostInv, Loops
  <2>4. PointsInv'
    BY <1>1, <2>1 DEF LoopInv, PointsInv, Chosen
  <2>5. QED
    BY <2>1, <2>2, <2>3, <2>4 DEF LoopInv
<1>4. QED
  BY <1>2, <1>3

\* A packet keeps its form until it is sent.
LEMMA AssembleKeepsForm ==
    ASSUME Assemble
    PROVE  form' = form \/ (form' = NoForm /\ stage' = "idle")
BY DEF Assemble, PrepareView, Prepared, PackView, Packed, ReadView, Read, Compress

\* A packet that is sent leaves the loop as it was before.
LEMMA AssembleBatchHolds ==
    ASSUME LoopInv, AssembleBatch
    PROVE  LoopInv'
<1>1. loop = "assemble" /\ Assemble /\ UNCHANGED host
  BY DEF AssembleBatch
<1>2. CASE stage' = "idle"
  <2>1. loop' = "poll" /\ interval' = <<>> /\ late' = 0 /\ voxels' = 0
    BY <1>2 DEF AssembleBatch
  <2>2. AgeInv'
    <3>1. 0 \in 0 .. MaxLate
      BY BatchAssumption
    <3>2. QED
      BY <2>1, <3>1 DEF AgeInv
  <2>3. HostInv'
    BY <1>1, <2>1 DEF LoopInv, HostInv, Loops
  <2>4. PointsInv'
    <3>1. form' = form \/ form'.points = 0
      BY <1>1, AssembleKeepsForm DEF NoForm
    <3>2. host.args.budget \in Nat
      BY BudgetIs DEF LoopInv, HostInv
    <3>3. form'.points <= host.args.budget
      BY <3>1, <3>2 DEF LoopInv, PointsInv
    <3>4. QED
      BY <1>1, <2>1, <3>3 DEF PointsInv
  <2>5. QED
    BY <1>2, <2>1, <2>2, <2>3, <2>4 DEF LoopInv
<1>3. CASE stage' # "idle"
  <2>1. UNCHANGED <<loop, interval, late, voxels>>
    BY <1>3 DEF AssembleBatch
  <2>2. form' = form
    BY <1>1, <1>3, AssembleKeepsForm
  <2>3. AgeInv'
    BY <1>1, <2>1, <2>2 DEF LoopInv, AgeInv, Young
  <2>4. HostInv'
    BY <1>1, <2>1 DEF LoopInv, HostInv
  <2>5. PointsInv'
    BY <1>1, <2>1, <2>2 DEF LoopInv, PointsInv, Chosen
  <2>6. QED
    BY <1>1, <1>3, <2>1, <2>3, <2>4, <2>5 DEF LoopInv
<1>4. QED
  BY <1>2, <1>3

\* Every step of the loop keeps its invariant.
LEMMA LoopHolds ==
    ASSUME LoopInv, [BatchNext]_vars
    PROVE  LoopInv'
<1>1. CASE UNCHANGED vars
  <2>1. UNCHANGED <<form, stage, loop, host, interval, late, voxels>>
    BY <1>1 DEF vars, hostVars, assemblyVars
  <2>2. AgeInv'
    BY <2>1 DEF LoopInv, AgeInv, Young
  <2>3. HostInv'
    BY <2>1 DEF LoopInv, HostInv, Version
  <2>4. PointsInv'
    BY <2>1 DEF LoopInv, PointsInv, Chosen
  <2>5. QED
    BY <2>1, <2>2, <2>3, <2>4 DEF LoopInv
<1>2. CASE Start
  BY <1>2, StartHolds
<1>3. CASE Poll
  BY <1>3, PollHolds
<1>4. CASE Restamp
  BY <1>4, RestampHolds
<1>5. CASE PackBatch
  BY <1>5, PackBatchHolds
<1>6. CASE AssembleBatch
  BY <1>6, AssembleBatchHolds
<1>7. QED
  BY <1>1, <1>2, <1>3, <1>4, <1>5, <1>6 DEF BatchNext

\* The loop takes only steps of the assembly.
LEMMA LoopAssembles ==
    ASSUME [BatchNext]_vars
    PROVE  [AssemblyNext]_assemblyVars
<1>1. CASE UNCHANGED vars
  BY <1>1 DEF vars
<1>2. CASE Start
  BY <1>2 DEF Start
<1>3. CASE Poll
  <2>1. ASSUME NEW frames, NEW tracked, NEW n, NEW keyframes,
               Build(frames, tracked, n, keyframes)
        PROVE  [AssemblyNext]_assemblyVars
    <3>1. UNCHANGED assemblyVars \/ \E f, vs : Begin(f, vs)
      BY <2>1 DEF Build
    <3>2. ASSUME NEW f, NEW vs, Begin(f, vs) PROVE AssemblyNext
      BY <3>2 DEF Begin, AssemblyNext
    <3>3. QED
      BY <3>1, <3>2
  <2>2. QED
    BY <1>3, <2>1 DEF Poll
<1>4. CASE Restamp
  BY <1>4 DEF Restamp
<1>5. CASE PackBatch
  BY <1>5 DEF PackBatch, AssemblyNext
<1>6. CASE AssembleBatch
  BY <1>6 DEF AssembleBatch, Assemble, AssemblyNext
<1>7. QED
  BY <1>1, <1>2, <1>3, <1>4, <1>5, <1>6 DEF BatchNext

\* What the assembly and the loop keep between them is what BatchInv says.
LEMMA BatchInvFollows ==
    ASSUME AssemblyInv, TilesInv, LoopInv
    PROVE  BatchInv
<1>1. BatchTypeOK
  <2>1. loop \in {"start", "usage", "poll", "assemble", "mismatch", "unfit", "stray", "late"}
    BY DEF LoopInv, HostInv, Loops
  <2>2. host.rgb \in BOOLEAN /\ host.retained \in BOOLEAN /\ late \in 0 .. MaxLate
    BY DEF LoopInv, HostInv, AgeInv
  <2>3. Len(tiles) <= Len(views)
    BY DEF TilesInv
  <2>4. done \in 0 .. Len(views) /\ IsForm(form)
    BY DEF AssemblyInv, PartsInv
  <2>5. form.points <= host.args.budget
    BY DEF LoopInv, PointsInv
  <2>6. stage = "idle" <=> loop # "assemble"
    BY DEF LoopInv
  <2>7. QED
    BY <2>1, <2>2, <2>3, <2>4, <2>5, <2>6 DEF BatchTypeOK
<1>2. StartedModeFits
  BY DEF LoopInv, HostInv, Loops, StartedModeFits
<1>3. OnlyOverdueLegacyFails
  <2>1. SUFFICES ASSUME loop = "late"
                 PROVE  /\ form.version # 3 /\ host.args.source # "replay"
                        /\ interval[1] <= MaxAge /\ interval[1] + late > MaxAge
    BY DEF OnlyOverdueLegacyFails
  <2>2. /\ interval # <<>> /\ interval[1] + late > MaxAge
        /\ interval[1] \in Nat /\ interval[1] <= MaxAge
    BY <2>1 DEF LoopInv, AgeInv, Young
  <2>3. late # 0
    BY <2>2, BatchAssumption
  <2>4. QED
    BY <2>2, <2>3 DEF LoopInv, AgeInv
<1>4. QED
  BY <1>1, <1>2, <1>3, TilesAreDisjoint DEF BatchInv

\* The last point's share ends with the last voxel.
LEMMA SelectedEnds ==
    ASSUME NEW n \in Nat, NEW points \in Nat \ {0}
    PROVE  Selected(0, n, points) = 0 /\ Selected(points, n, points) = n
<1>1. (0 * n) \div points = 0
  BY SMT
<1>2. (points * n) \div points = n
  <2>1. points * n \in Nat /\ n \in Int /\ points * n <= points * n /\ points * n < points * n + points
    BY SMT
  <2>2. QED
    BY <2>1, Quotient
<1>3. QED
  BY <1>1, <1>2, SelectedIs

\* A packet that has fewer points than there are voxels has as many as its budget,
\* and spreads them.
LEMMA BatchSpreads ==
    ASSUME LoopInv
    PROVE  PointsSpread
<1>1. SUFFICES ASSUME stage = "built", form.points < voxels
               PROVE  /\ Selected(0, voxels, form.points) = 0
                      /\ \A k \in 0 .. form.points - 1 :
                           LET next == IF k = form.points - 1 THEN voxels
                                       ELSE Selected(k + 1, voxels, form.points) IN
                           next - Selected(k, voxels, form.points)
                             \in 1 .. voxels \div form.points + 1
  BY DEF PointsSpread
<1>2. loop = "assemble" /\ voxels \in Nat /\ form.points = Chosen(voxels)
  BY <1>1 DEF LoopInv, PointsInv
<1>3. host.args.budget \in Nat \ {0}
  BY BudgetIs DEF LoopInv, HostInv
<1>4. PICK points \in Nat \ {0} : points = form.points /\ points < voxels
  BY <1>1, <1>2, <1>3 DEF Chosen
<1>5. Selected(0, voxels, points) = 0 /\ Selected(points, voxels, points) = voxels
  BY <1>2, SelectedEnds
<1>6. ASSUME NEW k \in 0 .. points - 1
      PROVE  LET next == IF k = points - 1 THEN voxels ELSE Selected(k + 1, voxels, points) IN
             next - Selected(k, voxels, points) \in 1 .. voxels \div points + 1
  <2>1. k \in Nat
    BY <1>4
  <2>2. Selected(k + 1, voxels, points) - Selected(k, voxels, points)
          \in 1 .. voxels \div points + 1
    BY <1>2, <1>4, <2>1, SelectedIsSpread
  <2>3. k = points - 1 => Selected(k + 1, voxels, points) = voxels
    <3>1. k = points - 1 => k + 1 = points
      BY <1>4
    <3>2. QED
      BY <1>5, <3>1
  <2>4. QED
    BY <2>2, <2>3
<1>7. QED
  BY <1>4, <1>5, <1>6

(***************************************************************************)
(* Theorems                                                                *)
(***************************************************************************)
\* Whatever canonical views a packet is made of, and however many of them its
\* version allows, it passes every limit between the builder and the socket.
THEOREM EveryPacketFits == AssemblySpec => []EveryBatchFits
<1>1. AssemblyInit => AssemblyInv
  BY InitHolds
<1>2. AssemblyInv /\ [AssemblyNext]_assemblyVars => AssemblyInv'
  BY StepHolds
<1>3. AssemblyInv => EveryBatchFits
  BY DEF AssemblyInv, PartsInv, Stages, EveryBatchFits
<1>4. QED
  BY <1>1, <1>2, <1>3, PTL DEF AssemblySpec

\* Whatever the sizes of the views before it, the reader finds every view and the
\* images or the metadata of it where the writer put them, and every array of a
\* prepared packet and the points of version 1.
THEOREM ReaderFinds == AssemblySpec => []ReaderFollowsWriter
<1>1. AssemblyInit => AssemblyInv
  BY InitHolds
<1>2. AssemblyInv /\ [AssemblyNext]_assemblyVars => AssemblyInv'
  BY StepHolds
<1>3. AssemblyInv => ReaderFollowsWriter
  BY PiecesAreFound, ArraysAreFound DEF ReaderFollowsWriter
<1>4. QED
  BY <1>1, <1>2, <1>3, PTL DEF AssemblySpec

\* The loop of the host assembles its packets by these steps only: what holds of
\* every packet holds of those it builds, whatever it was started for.
THEOREM BatchAssembles == BatchSpec => AssemblySpec
<1>1. BatchInit => AssemblyInit
  BY DEF BatchInit
<1>2. [BatchNext]_vars => [AssemblyNext]_assemblyVars
  BY LoopAssembles
<1>3. QED
  BY <1>1, <1>2, PTL DEF BatchSpec, AssemblySpec

\* However many views a packet has and whatever their sizes, every image has a place
\* of its own in the atlas (prepare_surface, shelf).
THEOREM ImagesHaveTiles == AssemblySpec => []TilesDisjoint
<1>1. AssemblyInit => AssemblyInv /\ TilesInv
  BY InitHolds, AtlasBegins
<1>2. AssemblyInv /\ TilesInv /\ [AssemblyNext]_assemblyVars => AssemblyInv' /\ TilesInv'
  BY StepHolds, StepKeepsTiles
<1>3. TilesInv => TilesDisjoint
  BY TilesAreDisjoint
<1>4. QED
  BY <1>1, <1>2, <1>3, PTL DEF AssemblySpec

\* A host that accepts its arguments builds every batch its source delivers, whatever
\* the cameras and the exposures, but one of a surface camera that no view can be made
\* of, or that its pose took too far; and it loses none on the way to the socket but a
\* legacy packet that was stamped again too late (stream.main, build_batch).
THEOREM BatchIsSafe == BatchSpec => []BatchInv
<1>1. BatchInit => AssemblyInit /\ LoopInv
  BY LoopBegins DEF BatchInit
<1>2. AssemblyInit => AssemblyInv /\ TilesInv
  BY InitHolds, AtlasBegins
<1>3. AssemblyInv /\ TilesInv /\ LoopInv /\ [BatchNext]_vars
        => AssemblyInv' /\ TilesInv' /\ LoopInv'
  BY LoopAssembles, StepHolds, StepKeepsTiles, LoopHolds
<1>4. AssemblyInv /\ TilesInv /\ LoopInv => BatchInv
  BY BatchInvFollows
<1>5. QED
  BY <1>1, <1>2, <1>3, <1>4, PTL DEF BatchSpec

\* Whatever a point packet leaves out of however many voxels, it leaves out evenly
\* (fuse_batch).
THEOREM PointsAreSpread == BatchSpec => []PointsSpread
<1>1. BatchInit => LoopInv
  BY LoopBegins
<1>2. LoopInv /\ [BatchNext]_vars => LoopInv'
  BY LoopHolds
<1>3. LoopInv => PointsSpread
  BY BatchSpreads
<1>4. QED
  BY <1>1, <1>2, <1>3, PTL DEF BatchSpec
===============================================================================
