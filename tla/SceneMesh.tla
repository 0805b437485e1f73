------------------------------ MODULE SceneMesh ------------------------------
(***************************************************************************)
(* What the host makes of one camera's images: the canonical reduction of  *)
(* an image, the triangles of its depth grid, and the even choice of       *)
(* points when there are too many. A sample is its number in the grid, row *)
(* by row, as in the code; the calibration is abstracted to the image      *)
(* pixel a sample projects to.                                             *)
(***************************************************************************)
EXTENDS Integers, FiniteSets

CONSTANTS Depth(_, _, _),   \* Depth(scene, x, y): what was measured there, 0 for nothing
          Pixel(_, _, _),   \* the pixel of the camera's image that shows it, or Outside
          Outside,
          Reach,            \* the farthest depth inside the hundred meters of the map
          Jump              \* the largest step of depth that a triangle may cross

(***************************************************************************)
(* Reduction (surface._reduced)                                            *)
(***************************************************************************)
Least(a, b) == IF a <= b THEN a ELSE b
Greatest(a, b) == IF a >= b THEN a ELSE b

\* floor(size * min(1, maxw/w, maxh/h) + 1/2)
Scaled(size, w, h, maxw, maxh) ==
    LET by(max, of) == (2 * size * max + of) \div (2 * of) IN
    IF w <= maxw /\ h <= maxh THEN size
    ELSE IF maxw * h <= maxh * w THEN by(maxw, w) ELSE by(maxh, h)

ReducedWidth(w, h, maxw, maxh) == Greatest(2, Least(maxw, Scaled(w, w, h, maxw, maxh)))
ReducedHeight(w, h, maxw, maxh) == Greatest(2, Least(maxh, Scaled(h, w, h, maxw, maxh)))

\* The pixel of n that pixel i of the reduced m stands for: the nearest center.
Center(i, n, m) == Least(n - 1, ((2 * i + 1) * n) \div (2 * m))

(***************************************************************************)
(* The grid (surface._mesh_for_view, rgb_surface.grid_geometry). A grid is *)
(* a scene seen by w x h pixels and reduced to cols x rows samples.        *)
(***************************************************************************)
Samples(grid) == 0 .. grid.cols * grid.rows - 1
DepthOf(grid, s) == Depth(grid.scene, Center(s % grid.cols, grid.w, grid.cols),
                                      Center(s \div grid.cols, grid.h, grid.rows))
PixelOf(grid, s) == Pixel(grid.scene, Center(s % grid.cols, grid.w, grid.cols),
                                      Center(s \div grid.cols, grid.h, grid.rows))

Measured(grid) == {s \in Samples(grid) : DepthOf(grid, s) > 0}
InImage(grid) == {s \in Measured(grid) : PixelOf(grid, s) # Outside}

\* The z-buffer: a sample is hidden when a nearer one projects to its pixel.
Hidden(grid) ==
    LET seen == InImage(grid)
        shown == {<<PixelOf(grid, s), DepthOf(grid, s)>> : s \in seen} IN
    {s \in seen : \E d \in 1 .. DepthOf(grid, s) - 1 : <<PixelOf(grid, s), d>> \in shown}

InReach(grid) == {s \in Measured(grid) : DepthOf(grid, s) <= Reach}

\* A legacy surface has only what its image shows; an RGB observation keeps
\* measured depth outside the image, without texture.
Valid(grid, version) ==
    IF version = 3 THEN InReach(grid) ELSE (InReach(grid) \ Hidden(grid)) \cap InImage(grid)

\* Two triangles for each cell of the grid.
Candidates(grid) ==
    UNION {LET a == y * grid.cols + x IN
           {{a, a + 1, a + grid.cols}, {a + 1, a + grid.cols, a + grid.cols + 1}} :
             x \in 0 .. grid.cols - 2, y \in 0 .. grid.rows - 2}

\* Every corner is valid and none lies a depth edge away from another.
Triangles(grid, version) ==
    LET valid == Valid(grid, version) IN
    {t \in Candidates(grid) :
       t \subseteq valid /\ \A d, e \in {DepthOf(grid, s) : s \in t} : d - e <= Jump}

Vertices(triangles) == UNION triangles

(***************************************************************************)
(* Points (fusion.fuse_batch)                                              *)
(***************************************************************************)
\* Mutant: every k-th voxel from the front, for a whole k.
SelectedStride(k, voxels, points) == k * (voxels \div points + 1)

\* The voxel that becomes point k when only so many points are allowed: the whole part
\* of k * voxels / points, taken apart so that the product fits TLC's integers.
Selected(k, voxels, points) ==
    k * (voxels \div points) + (k * (voxels % points)) \div points
==============================================================================
