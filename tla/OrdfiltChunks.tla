---------------------------- MODULE OrdfiltChunks ----------------------------
(***************************************************************************)
(* compute_ordfilt of the ordfilt task (src_ordfilt/ufo-ordfilt-task.c):   *)
(* an image whose gathered pixels exceed what the device can allocate is   *)
(* processed in chunks of rows, through one buffer.  A first pass takes    *)
(* the rows that are left over when the height is not divisible by the     *)
(* number of chunks; the loop takes the rest.                              *)
(*                                                                         *)
(* Each pass is two kernels on one in-order command queue: one gathers the *)
(* pixels around every pixel of a row into the buffer, the other sorts     *)
(* them (BitonicSort) and writes a row of the result.  A row of the buffer *)
(* or of the result is the number of the image row it was computed from.   *)
(***************************************************************************)
EXTENDS Integers

CONSTANTS
    Heights,    \* heights of the image, dims[1]
    RowBytes,   \* sizeof (float) * width * number_ones
    Limits,     \* max_alloc_size of the device
    NoRow       \* a row nobody has computed

\* What a device, a pattern and an image have.
Inputs ==
    /\ Heights \subseteq Nat \ {0} /\ RowBytes \subseteq Nat \ {0} /\ Limits \subseteq Nat
    /\ NoRow \notin Int

VARIABLES
    stage,
    height, rowBytes, limit,   \* the image, the pattern and the device
    iter,                      \* the loop index
    buffer,                    \* ufo_buffer
    dst,                       \* the rows of the output
    outside                    \* a row outside the image was read or written

chunkVars == <<stage, height, rowBytes, limit, iter, buffer, dst, outside>>
input == <<height, rowBytes, limit>>

\* Line 239; unsigned long in C, so that nothing wraps for an image in memory.
IterCount == 1 + ((height * rowBytes) \div (limit + 1))

Rows == height \div IterCount       \* of a chunk
Mod  == height % IterCount          \* left over

\* Mutant: the chunks of the loop start with the image.
OffsetFromZero == (iter * (height - Mod)) \div IterCount

\* Line 269.
Offset == Mod + ((iter * (height - Mod)) \div IterCount)

Image == 0 .. height - 1

ChunksInit ==
    /\ stage = "gather_first"
    /\ height \in Heights /\ rowBytes \in RowBytes /\ limit \in Limits
    /\ iter = 0
    /\ buffer = [b \in 0 .. Rows + Mod - 1 |-> NoRow]
    /\ dst = [r \in Image |-> NoRow]
    /\ outside = FALSE

\* load_elements_from_pattern over the first n rows of the buffer, which are
\* the image's from y on.
Gather(y, n) ==
    /\ buffer' = [b \in DOMAIN buffer |-> IF b < n THEN y + b ELSE buffer[b]]
    /\ outside' = (outside \/ n > Rows + Mod \/ y + n > height)

\* bitonic_ordfilt over the same rows; block 0 writes the pixel at width * y.
SortRows(y, n) ==
    /\ dst' = [r \in Image |-> IF y <= r /\ r < y + n THEN buffer[r - y] ELSE dst[r]]
    /\ outside' = (outside \/ n > Rows + Mod \/ y + n > height)

\* The pass before the loop runs over the whole buffer (mod = 0).
GatherFirst ==
    /\ stage = "gather_first"
    /\ stage' = "sort_first"
    /\ Gather(0, Rows + Mod)
    /\ UNCHANGED <<input, iter, dst>>

SortFirst ==
    /\ stage = "sort_first"
    /\ stage' = "gather"
    /\ SortRows(0, Rows + Mod)
    /\ UNCHANGED <<input, iter, buffer>>

\* The passes of the loop leave the last Mod rows of the buffer alone.  A
\* launch over no rows, when not even one row fits, does nothing: OpenCL may
\* refuse it, and ufo-core's macro that checks for this is taken to log only.
GatherChunk ==
    /\ stage = "gather"
    /\ iter < IterCount
    /\ stage' = "sort"
    /\ Gather(Offset, Rows)
    /\ UNCHANGED <<input, iter, dst>>

\* Mutant: the second kernel of a chunk sorts the extra rows of the buffer too.
SortChunkWithMod ==
    /\ stage = "sort"
    /\ stage' = "gather"
    /\ SortRows(Offset, Rows + Mod)
    /\ iter' = iter + 1
    /\ UNCHANGED <<input, buffer>>

SortChunk ==
    /\ stage = "sort"
    /\ stage' = "gather"
    /\ SortRows(Offset, Rows)
    /\ iter' = iter + 1
    /\ UNCHANGED <<input, buffer>>

Return ==
    /\ stage = "gather"
    /\ iter = IterCount
    /\ stage' = "done"
    /\ UNCHANGED <<input, iter, buffer, dst, outside>>

Finished == stage = "done" /\ UNCHANGED chunkVars

ChunksNext ==
    \/ GatherFirst
    \/ SortFirst
    \/ GatherChunk
    \/ SortChunk
    \/ Return
    \/ Finished

ChunksSpec == ChunksInit /\ [][ChunksNext]_chunkVars

-----------------------------------------------------------------------------
(* Properties. *)

\* Types: the loop index stays within the chunks, and no row of the buffer was
\* gathered around pixels outside the image.
TypeOK ==
    /\ stage \in {"gather_first", "sort_first", "gather", "sort", "done"}
    /\ height \in Heights /\ rowBytes \in RowBytes /\ limit \in Limits
    /\ iter \in 0 .. IterCount
    /\ buffer \in [0 .. Rows + Mod - 1 -> Image \cup {NoRow}]
    /\ dst \in [Image -> Image \cup {NoRow}]
    /\ outside \in BOOLEAN

\* When the task returns, every row of the output has been computed, and from
\* its own row of the image: the first pass and the loop leave no gap, for any
\* height and any number of chunks (lines 246-275).
EveryRowComputed == stage = "done" => dst = [r \in Image |-> r]

\* A row once computed is never replaced by that of another: the buffer's rows
\* of an earlier, longer pass do not leak into a later one, and no pass leaves
\* the image or the buffer.
RowsStayRight ==
    /\ ~ outside
    /\ \A r \in Image : dst[r] \in {NoRow, r}

\* The rows the loop has behind it are contiguous: it never starts a chunk
\* behind a row that is still missing.
NoGap ==
    stage \in {"gather", "sort"} => \A r \in Image : r < Offset => dst[r] = r

=============================================================================
