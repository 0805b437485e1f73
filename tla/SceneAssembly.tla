---------------------------- MODULE SceneAssembly ----------------------------
(***************************************************************************)
(* One scene packet from its canonical views to the transport: the host    *)
(* places every view's mesh in common arrays and its image in a common     *)
(* atlas (or sends the views as they are), packs, and reads its own bytes  *)
(* back before it compresses them. Each of these loops is one step a view. *)
(*   Of a view there is the size of its grid and of its image, and how     *)
(* many vertices and triangles its mesh has; of the wire, where every      *)
(* piece begins. The numbers are the code's.                               *)
(***************************************************************************)
EXTENDS Integers, Sequences

VARIABLES form,    \* version, prepared or not, and the points of version 1
          views,
          stage,
          done,    \* views the current loop has taken
          mesh,    \* the arrays and the atlas so far
          tiles,
          starts,  \* where the writer put each view
          arrays,  \* where it put the vertices, the indices and the atlas behind them
          bytes,   \* what it wrote so far
          cursor   \* where the reader is

assemblyVars == <<form, views, stage, done, mesh, tiles, starts, arrays, bytes, cursor>>

(***************************************************************************)
(* Limits                                                                  *)
(***************************************************************************)
MiB == 1048576
MaxPoints == 50000
MaxViews(version) == IF version = 3 THEN 10 ELSE IF version = 2 THEN 5 ELSE 0
DepthWidth == 64
DepthHeight == 48
ImageWidth(version) == IF version = 3 THEN 256 ELSE 320
ImageHeight(version) == IF version = 3 THEN 192 ELSE 240
MaxVertices(version) == IF version = 3 THEN 32768 ELSE 16384
MaxIndices(version) == IF version = 3 THEN 196608 ELSE 98304
MaxPixels(version) == IF version = 3 THEN 768000 ELSE 384000
MaxDimension == 2048
MaxRaw(version) == IF version = 2 THEN 160 + 24 * MaxVertices(2) + 2 * MaxIndices(2) + MaxPixels(2)
                   ELSE 4 * MiB
MaxCompressed(version) == IF version = 3 THEN 4 * MiB ELSE MiB

HeaderBytes(version) == IF version = 1 THEN 128 ELSE IF version = 2 THEN 160 ELSE 224
\* Of a vertex, or of a point.
VertexBytes(version) == IF version = 3 THEN 44 ELSE IF version = 2 THEN 24 ELSE 16
PixelBytes(version) == IF version = 3 THEN 3 ELSE 1
MetaBytes(version) == IF version = 3 THEN 80 ELSE 0
DescriptorBytes(version) == IF version = 3 THEN 208 ELSE 160

\* zlib never writes more for n bytes than this.
Deflated(n) == n + n \div 4096 + n \div 16384 + 14

\* The bits of the triangles that free space has not carved away.
MaskBytes(version, view) ==
    IF version = 3 THEN (2 * (view.w - 1) * (view.h - 1) + 7) \div 8 ELSE 0

(***************************************************************************)
(* Views                                                                   *)
(***************************************************************************)
IsForm(f) ==
    f.version \in 1 .. 3 /\ f.prepared \in BOOLEAN /\ f.points \in 0 .. MaxPoints

Views == [w : Nat, h : Nat, iw : Nat, ih : Nat, channels : Nat, used : Nat, kept : Nat]

\* validate_view and _validate_raw, and what a mesh of such a grid can have.
Canonical(version, view) ==
    /\ view.w \in 2 .. DepthWidth /\ view.h \in 2 .. DepthHeight
    /\ view.iw \in 2 .. ImageWidth(version) /\ view.ih \in 2 .. ImageHeight(version)
    /\ view.channels \in IF version = 3 THEN {1, 3} ELSE {1}
    /\ view.used \in 0 .. view.w * view.h
    /\ view.kept \in 0 .. 2 * ((view.w - 1) * (view.h - 1))
    /\ view.used = 0 <=> view.kept = 0

NoMesh == [vertices |-> 0, indices |-> 0, width |-> 0,
           x |-> 0, y |-> 0, row |-> 0, column |-> 0, rows |-> 0]

NoForm == [version |-> 2, prepared |-> FALSE, points |-> 0]
NoArrays == [vertices |-> 0, indices |-> 0, atlas |-> 0]

AssemblyInit ==
    /\ form = NoForm /\ views = <<>>
    /\ stage = "idle" /\ done = 0 /\ mesh = NoMesh /\ tiles = <<>>
    /\ starts = <<>> /\ arrays = NoArrays /\ bytes = 0 /\ cursor = 0

Begin(f, vs) ==
    /\ stage = "idle" /\ IsForm(f) /\ vs \in Seq(Views)
    /\ Len(vs) <= MaxViews(f.version) /\ \A i \in 1 .. Len(vs) : Canonical(f.version, vs[i])
    /\ form' = f /\ views' = vs
    /\ stage' = IF f.prepared THEN "prepare" ELSE "built"
    /\ done' = 0 /\ mesh' = NoMesh /\ tiles' = <<>> /\ starts' = <<>> /\ arrays' = NoArrays
    /\ bytes' = 0 /\ cursor' = 0

(***************************************************************************)
(* prepare_surface, prepare_rgb                                            *)
(***************************************************************************)
\* Mutant: all images stand side by side, as those of a legacy surface do.
PlacedInOneRow(m, view) ==
    [tile |-> [x |-> m.x, y |-> 0, w |-> view.iw, h |-> view.ih],
     mesh |-> [vertices |-> m.vertices + view.used, indices |-> m.indices + 3 * view.kept,
               width |-> m.x + view.iw, x |-> m.x + view.iw, y |-> 0,
               row |-> IF m.row >= view.ih THEN m.row ELSE view.ih,
               column |-> 1, rows |-> 0]]

\* The view's image goes right of the one before it, five to a row; its vertices
\* and triangles go behind those of the views before it.
Placed(m, view) ==
    LET next == m.column = 5
        x == IF next THEN 0 ELSE m.x
        y == IF next THEN m.y + m.row ELSE m.y IN
    [tile |-> [x |-> x, y |-> y, w |-> view.iw, h |-> view.ih],
     mesh |-> [vertices |-> m.vertices + view.used, indices |-> m.indices + 3 * view.kept,
               width |-> IF m.width >= x + view.iw THEN m.width ELSE x + view.iw,
               x |-> x + view.iw, y |-> y,
               row |-> IF ~next /\ m.row >= view.ih THEN m.row ELSE view.ih,
               column |-> IF next THEN 1 ELSE m.column + 1,
               rows |-> IF next THEN m.rows + 1 ELSE m.rows]]

\* A legacy surface without a triangle has no atlas either.
Width(m) == IF form.version = 2 /\ m.vertices = 0 THEN 0 ELSE m.width
Height(m) == IF form.version = 2 /\ m.vertices = 0 THEN 0 ELSE m.y + m.row

\* validate_mesh, validate_rgb
MeshFits(m) ==
    /\ m.vertices <= MaxVertices(form.version) /\ m.indices <= MaxIndices(form.version)
    /\ Width(m) <= MaxDimension /\ Height(m) <= MaxDimension
    /\ Width(m) * Height(m) <= MaxPixels(form.version)

PrepareView ==
    /\ stage = "prepare" /\ done < Len(views)
    /\ mesh' = Placed(mesh, views[done + 1]).mesh
    /\ tiles' = Append(tiles, Placed(mesh, views[done + 1]).tile)
    /\ done' = done + 1
    /\ UNCHANGED <<form, views, stage, starts, arrays, bytes, cursor>>

Prepared ==
    /\ stage = "prepare" /\ done = Len(views)
    /\ stage' = IF MeshFits(mesh) THEN "built" ELSE "refused"
    /\ UNCHANGED <<form, views, done, mesh, tiles, starts, arrays, bytes, cursor>>

(***************************************************************************)
(* pack_packet, pack_surface, pack_rgb                                     *)
(***************************************************************************)
\* The counts of the header: of vertices (of points, in version 1), of indices and
\* of pixels. An unprepared packet has none of them.
Counts ==
    IF form.version = 1 THEN [vertices |-> form.points, indices |-> 0, pixels |-> 0]
    ELSE IF form.prepared THEN [vertices |-> mesh.vertices, indices |-> mesh.indices,
                                pixels |-> Width(mesh) * Height(mesh)]
    ELSE [vertices |-> 0, indices |-> 0, pixels |-> 0]

\* The views a packet describes one by one: a prepared surface has none of them left.
Described == IF form.version = 1 \/ (form.version = 2 /\ form.prepared) THEN 0 ELSE Len(views)

ViewBytes(view) ==
    IF form.prepared THEN MetaBytes(form.version)
    ELSE DescriptorBytes(form.version) + 2 * (view.w * view.h)
         + view.channels * (view.iw * view.ih) + MaskBytes(form.version, view)

\* Where the images of an unprepared view go when its descriptor goes there.
ImagesAt(start, view) ==
    [depth |-> start + DescriptorBytes(form.version),
     image |-> start + DescriptorBytes(form.version) + 2 * (view.w * view.h),
     mask |-> start + DescriptorBytes(form.version) + 2 * (view.w * view.h)
                + view.channels * (view.iw * view.ih)]

Pack ==
    /\ stage = "built" /\ stage' = "pack"
    /\ bytes' = HeaderBytes(form.version) /\ done' = 0
    /\ UNCHANGED <<form, views, mesh, tiles, starts, arrays, cursor>>

PackView ==
    /\ stage = "pack" /\ done < Described
    /\ starts' = Append(starts, bytes) /\ bytes' = bytes + ViewBytes(views[done + 1])
    /\ done' = done + 1
    /\ UNCHANGED <<form, views, stage, mesh, tiles, arrays, cursor>>

\* The vertices, then the indices, then the atlas.
Packed ==
    LET indices == bytes + VertexBytes(form.version) * Counts.vertices
        atlas == indices + 2 * Counts.indices IN
    /\ stage = "pack" /\ done = Described
    /\ arrays' = [vertices |-> bytes, indices |-> indices, atlas |-> atlas]
    /\ bytes' = atlas + PixelBytes(form.version) * Counts.pixels
    /\ stage' = IF form.version = 3 /\ bytes' > 4 * MiB THEN "refused" ELSE "read"
    /\ done' = 0 /\ cursor' = HeaderBytes(form.version)
    /\ UNCHANGED <<form, views, mesh, tiles, starts>>

(***************************************************************************)
(* encode_transport reads its own bytes: unpack_packet and its variants    *)
(***************************************************************************)
\* Mutant: an image has one byte a pixel, whatever its format.
ReadBytesGray(view) ==
    IF form.prepared THEN 80
    ELSE DescriptorBytes(form.version) + (2 * (view.w * view.h) + view.iw * view.ih
                                          + MaskBytes(form.version, view))

\* What the reader takes a view to be, of the sizes its descriptor declares.
ReadBytes(view) ==
    IF form.prepared THEN 80
    ELSE DescriptorBytes(form.version) + (2 * (view.w * view.h) + view.iw * view.ih * view.channels
                                          + MaskBytes(form.version, view))

\* A view is found where the cursor is: the mask ends it.
ReadImages(view) ==
    [depth |-> cursor + DescriptorBytes(form.version),
     image |-> cursor + DescriptorBytes(form.version) + 2 * view.w * view.h,
     mask |-> cursor + ReadBytes(view) - MaskBytes(form.version, view)]

\* Mutant: the vertices of every version are as long as those of version 2.
ReadArraysAlike ==
    [vertices |-> cursor, indices |-> cursor + 24 * Counts.vertices,
     atlas |-> cursor + 24 * Counts.vertices + 2 * Counts.indices]

\* The arrays are found behind the views. A version 1 packet holds points only.
ReadArrays ==
    LET stride == IF form.version = 3 THEN 44 ELSE IF form.version = 2 THEN 24 ELSE 16 IN
    [vertices |-> cursor, indices |-> cursor + Counts.vertices * stride,
     atlas |-> cursor + Counts.vertices * stride + Counts.indices * 2]

\* The reader walks from one descriptor to the next.
ReadView ==
    /\ stage = "read" /\ done < Described
    /\ IF cursor + ReadBytes(views[done + 1]) > bytes
       THEN stage' = "refused" /\ UNCHANGED <<done, cursor>>
       ELSE /\ cursor' = cursor + ReadBytes(views[done + 1]) /\ done' = done + 1
            /\ UNCHANGED stage
    /\ UNCHANGED <<form, views, mesh, tiles, starts, arrays, bytes>>

\* The length that the counts of the header declare, as each of the readers adds it up.
Expected ==
    CASE form.version = 1 -> 128 + 16 * Counts.vertices
      [] form.version = 2 -> 160 + (24 * Counts.vertices + 2 * Counts.indices + Counts.pixels)
      [] form.version = 3 -> 224 + (Len(views) * 80 + Counts.vertices * 44
                                    + Counts.indices * 2 + Counts.pixels * 3)

\* A packet of counts, or of prepared views, has exactly that length and counts within
\* their limits; an unprepared one ends with its last view.
LengthFits ==
    /\ bytes \in HeaderBytes(form.version) .. MaxRaw(form.version)
    /\ IF form.version = 1 THEN form.points <= MaxPoints /\ bytes = Expected
       ELSE IF form.prepared THEN MeshFits(mesh) /\ bytes = Expected
       ELSE cursor = bytes

Read ==
    /\ stage = "read" /\ done = Described
    /\ stage' = IF LengthFits THEN "compress" ELSE "refused"
    /\ UNCHANGED <<form, views, done, mesh, tiles, starts, arrays, bytes, cursor>>

\* It compresses to next to nothing or not at all.
Compress ==
    /\ stage = "compress"
    /\ \E size \in {1, Deflated(bytes)} :
         IF size > MaxCompressed(form.version)
         THEN /\ stage' = "refused"
              /\ UNCHANGED <<form, views, done, mesh, tiles, starts, arrays, bytes, cursor>>
         ELSE /\ stage' = "idle" /\ form' = NoForm /\ views' = <<>> /\ done' = 0
              /\ mesh' = NoMesh /\ tiles' = <<>> /\ starts' = <<>> /\ arrays' = NoArrays
              /\ bytes' = 0 /\ cursor' = 0

\* A packet that is too old by now is not packed.
Drop ==
    /\ stage = "built" /\ stage' = "idle"
    /\ UNCHANGED <<form, views, done, mesh, tiles, starts, arrays, bytes, cursor>>

Assemble == PrepareView \/ Prepared \/ PackView \/ Packed \/ ReadView \/ Read \/ Compress

AssemblyNext ==
    \/ Begin(form', views') \/ Pack \/ Drop
    \/ PrepareView \/ Prepared \/ PackView \/ Packed \/ ReadView \/ Read \/ Compress
AssemblySpec == AssemblyInit /\ [][AssemblyNext]_assemblyVars

(***************************************************************************)
(* Properties                                                              *)
(***************************************************************************)
\* Whatever the cameras saw, a packet the host has built passes every limit it is
\* held to afterwards: counts, atlas, message and compressed size, and the lengths
\* its own reader expects (validate_mesh, validate_rgb, pack_rgb, unpack_packet,
\* encode_transport: a refusal would end the stream).
EveryBatchFits == stage # "refused"

\* The reader finds every piece where the writer put it: each view and its depth,
\* image and mask, or its metadata, whatever came before it; and behind the last one
\* the vertices, the indices and the atlas, or the points (pack_packet, pack_surface,
\* pack_rgb and their readers, which each add the lengths up on their own).
ReaderFollowsWriter ==
    stage = "read" =>
        IF done < Described
        THEN /\ cursor = starts[done + 1]
             /\ ~form.prepared =>
                  ReadImages(views[done + 1]) = ImagesAt(starts[done + 1], views[done + 1])
        ELSE ReadArrays = arrays

\* No two images of the atlas overlap, and each lies inside it (prepare_surface,
\* shelf).
TilesDisjoint ==
    /\ \A i \in DOMAIN tiles : /\ tiles[i].x + tiles[i].w <= mesh.width
                               /\ tiles[i].y + tiles[i].h <= mesh.y + mesh.row
    /\ \A i, j \in DOMAIN tiles : i < j =>
         \/ tiles[i].x + tiles[i].w <= tiles[j].x \/ tiles[j].x + tiles[j].w <= tiles[i].x
         \/ tiles[i].y + tiles[i].h <= tiles[j].y \/ tiles[j].y + tiles[j].h <= tiles[i].y
==============================================================================
