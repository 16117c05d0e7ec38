# Verification of the ring-detection plugins (ufo-upiv)

The repository is a set of filter plugins for the `ufo-core` framework that
find the rings particles leave in PIV images. A script connects the filters to
a graph; the framework gives every filter a thread, passes buffers along the
edges and calls `setup`, `get_requisition`, `process` or `generate`. This
directory has TLA+ models of the filters, the TLC runs that check them and
TLAPS proofs about them. Paths below are relative to `src/ufo` unless they
start with `src/`.

## 1. The system

### The Hough graph (`src/bin/piv-hough.py`)

    read -> crop -> piv_contrast -> copy -+-> rescale -> fft -----------+
                                          |                             v
    ring_pattern -> stack -> fft -> loop ------------------------> complex_mult
                                          |                             |
                                          |      candidate-filter <- likelihood <- ifft
                                          v             |
                                     azimuthal-test <---+
                                          |
                                     ring-writer

`read`, `crop`, `rescale`, `fft`, `stack`, `loop`, the copy task and the
scheduler belong to `ufo-core` and `ufo-filters` and are not in the
repository.

| component | state | operations | what makes it correct |
|---|---|---|---|
| hough-likelihood (`src_hough/ufo-hough-likelihood-task.c`, `kernels/hough.cl`) | mask, counter on the device, reused output buffer; per work-item slot | reset counter, launch, read back, write header; work-items claim a slot and store a record | every record complete, of this image and of one pixel; the count is complete; header after kernel |
| the tile of its kernel | local memory of a work-group | nine conditional loads, barrier, window reads | everybody sees the pixels around its own |
| candidate-filter | list of rings, contrasts zeroed in place | convert, sort, pairwise scan, unlink, copy | survivors apart, peaks and a maximum kept, termination |
| azimuthal-test | ring array, updated in place by a private thread pool | scale, push jobs, wait, filter | same output as a sequential pass |
| ring_pattern, of-ring_pattern | `ring_current` | set properties, generate | exactly the radii asked for |
| ring-writer | open file | print rings times scale | rings in pixels of the full image |
| piv_contrast, contrast, brightness-cut | none between images | background estimate, cut, gamma | window never empty |
| complex_mult, fftconvolution, hessian-\* | FFT plan, one-shot flag | pad, transform, multiply | plan fits the image |

### The ordinal-filter graph (`src/bin/piv-ordfil.py`)

    read -> crop -> denoise -> contrast -> ordfilt <- loop <- of-ring_pattern
                                              |
                                       filter-particle -> ring_writer

| component | state | operations | what makes it correct |
|---|---|---|---|
| ordfilt (`kernels/ordfilt.cl`) | tile of a work-group; chunks of rows | load, bitonic sort, pick ordinals | sorted in spite of parallel exchanges; every row computed |
| filter-particle | label image, equivalence tables | two-pass labelling, radius, centre | one label per blob, tables not overrun |
| concatenate-result | per-image lists, one shared write index | append, grow, emit | each image gets its own rings |
| get-dup-circ | private copy of the list | merge near rings, search again | no ring lost, end reached, no duplicates |
| multi-search | none between images | profile fit per ring | choice of the best candidate |

Further tasks (`combine-test`, `label-cluster`, `local-maxima`, `blob-test`,
`bilateral`, `log`, `sum`, `device-info`, `hough-likelihood-image`) are in no
script of `src/bin`, or are one pass of arithmetic over a buffer.
`localmaxima` is in neither list of sources of the build, so no plugin is made
of it. Every task, whatever it computes, is a GObject with the same life: init,
setters, `setup` once per run of a scheduler, `finalize`.

`src/bin/piv-test.py` builds five variants of the Hough graph that end after
each of its stages; `src/bin/piv-ordfil.py` stops (`sys.exit`) before it runs
its graph.

### How components interact

Rings travel as a flat float buffer: count, scale, then records of five floats
(`include/ufo-ring-coordinates.h`). Two conventions hold it together and no
type checks either of them: the scale field is announced by candidate-filter,
applied by azimuthal-test or by ring-writer, and left unset by the likelihood
task; and the ring number of a candidate is turned back into a radius with
parameters that the script gave separately to the generator.

Where it is hard: thousands of GPU work-items append to one array through one
atomic counter; work-items share a tile between barriers; a thread pool
overwrites rings that the task thread reads next; buffers are reused from
image to image; a list is thinned out while it is walked; two generators of
numbers must agree. `PROJECT.json` lists the hazards line by line.

## 2. The modules

Three kinds of modules: state machines of the tasks that keep state or run in
several threads, pure operators for the tasks that do not, and two modules
about all tasks together.

| module | models | state and actions against the code |
|---|---|---|
| `HoughLikelihood` | `process ()` of hough-likelihood and the record protocol of the kernel | `ResetCount`, `Launch`, `ReadCount`, `WriteHeader` are the host's statements in order; `Reject`, `Claim`, `Store` (one per field) and `Exit` are a work-item after its score is known. `out` holds for every float who stored it, which field, for which image |
| `CandidateList` | what the readers of the output rely on | one step takes an image, one delivers its candidates; implemented by `HoughLikelihood` |
| `LikelihoodTile` | local memory of a work-group of `likelihood` | `Load` is one of the nine loads, `PassBarrier`, `ReadWindow` the two loops over the mask |
| `CandidateFilter` | `process ()` of candidate-filter | `Convert`, `Sort`, then one action per iteration of the two nested loops and of the loop that unlinks, by the branch it takes |
| `AzimuthalTest` | `process ()` and `gaussian_thread` of azimuthal-test | task thread `Scale` to `Return`; workers `TakeJob`, `Search`, `StoreRing` |
| `RingRadii` | ring_pattern, the script's parameters, and the conversions of candidate-filter, azimuthal-test and ring-writer, for one ring | setters in any order, `Generate`, then one action per task |
| `BitonicSort` | the sort in `bitonic_ordfilt` | `Load` of the keys and the padding (`LoadKeys`, `Pad`), then per round `ReadPair` and `WritePair` behind a barrier, `Store` |
| `OrdfiltChunks` | `compute_ordfilt`, the host side of ordfilt | the first pass and each pass of the loop, one action per kernel; a row is the number of the image row it comes from |
| `GetDupCirc` | `merge_rings` of get-dup-circ | one action per iteration of the nested loops |
| `ConcatenateResult` | concatenate-result | `SetRingCount` and the assertion of `process`; `Process` with the growth of the table, of the block and of the counts, in this order; `Generate`. `Undefined` is what a store through the unset pointer, or an index beyond the table, leads to |
| `TaskTable` | what every task declares: inputs, output, properties with range, default and initial value, and what its setup, get_requisition and finalize do with OpenCL objects and files: take (fetch and retain), borrow (fetch only), create, clear the pointer, release; with the test on a pointer where the code has one | one row per task, from `get_num_inputs`, `get_num_dimensions`, `get_mode`, `get_requisition`, `class_init`, `init`, `setup`, `finalize` |
| `TaskObject` | the life of one object of any of these tasks; for each field whether it is set, how many references the task has taken, and whether the resources of the run lend it | `ObjectInit` is `init`; `Set`, `Setup` (any kernel may be missing), `GetNumInputs`, `GetRequisition`, `Generate`, `EndRun`, `Finalize`; each of the three that has steps does those of its row in order (`Perform`) |
| `TaskGraph` | the graphs of `piv-hough.py` and `piv-test.py`, wired by `merge_branch` and run | one action per kind of task: `Process`, `Produce`, `Stack`, `LoopIn`, `LoopOut`, `Consume`, and `Stop`, over bounded queues. Composes the rows of `TaskTable` |
| `FilterParticle` | `pfind` of filter-particle | `FirstPass`, `Compared` and `SortedPairs`, `JoinedWith` and `Joined`, `Renumbered` are its loops, as functions recursive in the turns; `Number`, `Exchange`, `Join` one turn each |
| `LabelCluster` | label-cluster | `explore` makes its four calls one after the other, each from the state the last one left: a function recursive in the room for calls inside each other; `Visit` one seed |
| `LocalMaxima` | localmaxima | `Listed` takes the buffer an older image left |
| `CombineTest` | combine-test | `CombinePlane` one round of the loop, with the plane it carries on |
| `Background` | `approx_bg` of piv-contrast | `Round` one of the at most ten rounds |
| `RingProfile` | `get_coords`, `compute_histogram`, `search_peaks` of azimuthal-test; `compute_intensity` of multi-search | pixels of a ring as sets, peaks as positions |
| `Rounding` | `ceil_power_of_two`, `pow2round` | the loop as a recursive function over its turns (`Doubled`), in words of `Width` bits that wrap, with `Diverges` for the loop that does not end; the shifts as shifted sets of bits (`OrShifted`). Used by `TaskObject` |
| `TaskProcess` | one `process ()` of the tasks that keep no state, `localmaxima` for two images | an action per task, each a use of the operators above: `Combine`, `Label`, `ListMaxima`, `Number`, `Estimate`, `ReadRings`, `FindPeak` |

`...Proofs` modules hold the theorems of section 4. `MCCandidateFilter`,
`MCAzimuthalTest`, `MCGetDupCirc` and `MCRingRadii` give constants their
values; that of `AzimuthalTest` also restricts the initial states, to keep apart
many rings and many scores. `MCHoughGraph`, `MCKernels`, `MCResults` and
`MCProcess` put several components into one run: a behaviour runs one of them,
chosen by `unit`, and the others stay in one initial state; `MCTasks` joins
`MCProcess` and `TaskObject` the same way; a module that can
share a run this way has its own names (`ChunksInit`, `CollectNext`, ...). The operators
marked `Mutant` are small slips of the definition after them; no run uses them,
they document what each property notices.

### Abstractions

* Scores and pixels of the two tests are not computed in the state machines.
  Which pixels exceed the threshold is chosen when an image arrives; what the
  azimuthal search finds at a position is chosen once per image, so that it does
  not depend on who asks. `RingProfile` has the search itself.
* Floats that must be compared are integers: candidate-filter's radii are kept
  times the scale, RingRadii counts in half pixels, GetDupCirc in units that
  every average divides. Background keeps sums, RingProfile squares.
* `compare_func` subtracts floats and truncates to `int`; all x and y come from
  the kernel as whole numbers, so the truncation has no effect.
* The GLib thread pool is a first-in first-out queue of jobs, two counters, and
  workers that take the next one; its wait is a guard. It is external, as are
  OpenCL's in-order queue and `compare_and_exchange`, whose file `piv.cl` is not
  in the repository.
* The scheduler of ufo-core and the tasks of ufo-filters are external:
  `TaskGraph` has a thread per task and a bounded queue per edge, a task that
  takes one buffer from each input, and an end mark that goes down the edges.
  A buffer is the set of images it was computed from and its number of
  dimensions.
* `LikelihoodTile` models x and y of one plane; the third dimension has one
  work-item per group.
* The sizes written into the code of the flood fills and histograms (a fill of
  100 pixels, 32 bins) are constants, smaller in the run.

## 3. The runs

Seven runs pass, five show a disagreement (see Findings).

| run | instance | shows |
|---|---|---|
| `likelihood` | 3 work-items, room for 2 records, 2 images, fair | `PublishedExact`: a published image has exactly its own records, complete; `OverrunVisible`: the count is complete even if the records do not fit; `EveryImagePublished`; `ImplementsCandidateList` |
| `candidate_filter` | up to 3 of 12 positions, 3 contrasts, any order, fair | `SurvivorsApart`: no two neighbours stay; `StrictPeaksSurvive`; `StrongestSurvives`, ties or not; `Terminates` |
| `azimuthal` | up to 3 rings, 2 workers, both scales; scores at and around both thresholds for up to 2 rings; fair | `FilterReadsTestedRings`, `OutputIsDeterministic`: the pool computes what a sequential pass would; `StrongerRingKept`; `Returns` |
| `hough_graph` | all radii up to 12, both scales and graphs; six graphs, up to 3 images, queues of 1 or 2 buffers | `RadiiExact`: the patterns asked for; `StackIsFilled`; `LineIsTheRing`: the line of the file is the ring in full pixels. `DimensionsAccepted`: what waits at an input is what the task declared there; `ImagesNeverMix`: nothing is computed from two images; `ImagesWritten`: every image reaches the sink, in order |
| `kernels` | every 0-1 tile of 8 keys with 0, 2 or 3 padded, 4 work-items; a group of 2x2 items, halo 2, mask 5x5, at each place of 2x2 groups; heights up to 12 with limits from below a row to above the image | `PairUntouched`, `SortedAtEnd`, `ResultIsOrdinal`; `WindowExact`: everybody reads the pixels around its own; `EveryRowComputed`, `RowsStayRight`: each row from its own, inside the buffer |
| `results` | up to 3 rings in the plane, fair; up to 4 results of 4 images in any order, first tables of 1 to 3 | `EachRingOnce`; `ResidualOnlyByMoving`: a duplicate is left only by a ring that moved; `MergeTerminates`; `ListsComplete`: one list per image, in order, with the count of its own rings; `CopyInsideBlock`; `TableLargeEnough` |
| `tasks` | see below; and every task with 2 values set at ends and middle of their range, before or between 2 setups, with any kernel missing | `CombineExact`, `LabelsSound`, `MaximaOfThisImage`, `BlobsLabelled`, `BackgroundDefined`, `RingsExact`, `PeaksFound`: each operator against a reference definition. `PropertiesIndependent`: no setter touches another property, in any order; `ReferencesSound`: what a running task uses it owns or is lent, nothing is given back that is not held, and NULL only in the one place where the code has no test; `OneKernelPerRun` |
| `likelihood_tile_mask` | halo 1, mask 5x5 | violation |
| `ring_radii_sample_c` | the default data set | violation |
| `dup_circ_unique` | up to 3 rings | violation |
| `filter_particle_joined` | 256 images of 7x4 pixels | violation |
| `task_object_releases` | every task through 2 setups | violation |

Why the bounds are enough. Two work-items make every race of claims and
stores, the third makes an overrun after two good records, and the second
image makes stale floats of the first. A work-group of 2x2 items with a halo as
wide as the group has every one of the nine loads taken by some item, at every
corner and edge of the image. Three candidates are the shortest chain in which
a removed ring removes another; the positions have distances below, at and
above the window. Two workers and three rings let a worker take a second ring
while the other is at its first, and leave one in the queue. A comparison
network sorts everything if it sorts zeros and ones. Heights up to 12 have
every combination of remainder and number of chunks that matters: none left
over, fewer and more left over than a chunk holds, one row per chunk, and none.
Three rings are the least for a duplicate to come back after a merge, and a unit
of 12 makes all averages of three exact. Four results make an image come back
after another one, with a block to grow and a table to double twice; index 4
leaves the table of one. A queue of one buffer is the tightest, and three images
let the short branch of the join run a full queue ahead of the long one while
the stack is made; larger queues only add room. Two runs of a scheduler are the
first and every later one.

The inputs of `process ()` in `tasks`: stacks of up to five planes (first, last and three in
between) of two pixels; every image of 3x4 pixels for the fills, with rectangles
of the wrong size and shape in all positions; a border around 3x2 pixels with
three values, over two images, for localmaxima; every blob in 3x4 and 4x3
pixels and 256 images of 7x4 in which three pairs of numbers meet, which is the
least for them to meet in an unlucky order; every histogram of five values with
up to five pixels each between two extremes; every centre at, near and off the border with radii up
to 16; every profile of nine bins and four
heights, the last two bins alike.

Deadlock is checked in every run; a finished task stutters in an action of its
own.

Fairness. The host thread, the task threads and the threads of the pool are
threads of the operating system, and a launched kernel is executed: weak
fairness of each. Work-items are given weak fairness one by one: every
work-item of a launched kernel is executed to its end, and outside the barrier,
which `LikelihoodTile` checks for safety only, none waits for another.
Sequential tasks need only that a thread runs (`WF` of their next-state
relation; `MCResults` has it for the merge alone). A graph needs only that some
thread that can run does: each of its behaviours is finite, so `TaskGraph` asks
for `WF` of `Next` and not of every thread.

### Findings

* **A mask may be wider than the halo** (`likelihood_tile_mask`). `masksize`
  ranges to 21, the halo of `kernels/hough.cl` is fixed at 6: from 15 on
  work-items read other rows of the tile.
* **The default data set reports radii that are a pixel too large**
  (`ring_radii_sample_c`). Its `ring_start` is odd; the generator gets it
  divided by the scale in integers, candidate-filter divides in floats.
* **Duplicates remain** (`dup_circ_unique`). A ring that moves by merging is
  compared only with later ones.
* **One blob may get two numbers** (`filter_particle_joined`). Equivalent
  numbers are handed on in one pass over the pairs; with three pairs in an
  unlucky order one is not reached. With up to two pairs all blobs are whole
  (`BlobsLabelled`).
* **A second setup gives the new mask away** (`task_object_releases`). Where
  hough-likelihood means to release the old counter
  (`src_hough/ufo-hough-likelihood-task.c:115`) it releases the mask it has just
  made; the release of the mask in finalize then finds no reference, though
  every release is wrapped in a check that it succeeds.

Met while modelling, without a sentence of the repository to hold the code
against, and therefore exemptions in the properties that say where they bite:

* finalize of fftconvolution gives back two buffers and a plan without a test
  whether `get_requisition` ever made them
  (`src_hough/ufo-fftconvolution-task.c:503`), and `setup` clears the plan (101),
  so that a task that has seen no image since its setup releases NULL.
  `ReferencesSound` admits exactly that: an object made on demand, not asked for
  since the last setup. It also exempts hough-likelihood from its second setup
  on, where `ReleasesSucceed` has the violation above;
* localmaxima writes its count only beside a maximum, so that an image without
  one shows the list of the image before (`src_hough/ufo-localmaxima-task.c:216`;
  `MaximaOfThisImage`);
* concatenate-result stores through a pointer nobody sets
  (`src_ordfilt/ufo-concatenate-result-task.c:199`), so that any first ring may
  end in `Undefined`; what `ListsComplete` and `CopyInsideBlock` say is about
  builds and inputs in which it does not;
* candidate-filter keeps more than "local peaks": in a chain 3, 2, 1 the 2
  removes nothing after it was removed itself, so the 1 stays.

## 4. The proofs

Eight modules hold the theorems. For each component there is an inductive
invariant (`IInv`, `SortInv`, `HoldInv`, ...), a lemma that the initial states
have it, one that every action keeps it, and from it the properties.

| module | assumptions beyond the `ASSUME`s | properties proved for all constants |
|---|---|---|
| `HoughLikelihoodProofs` | | `PublishedExact`, `OverrunVisible`, `TypeOK`, `SlotsUnique`, `HeaderAfterKernel`; refinement of `CandidateList` |
| `CandidateFilterProofs` | | `SurvivorsApart`, `StrictPeaksSurvive`, `StrongestSurvives`, `TypeOK`, `RemovedForAReason` |
| `AzimuthalTestProofs` | | `FilterReadsTestedRings`, `OutputIsDeterministic`, `StrongerRingKept`, `TypeOK`, `RingChangedByOwner`, `OneWorkerPerRing`, `PoolDrainedBeforeFilter` |
| `ResultsProofs` | for `ConcatenateResult`: `Admitted`, images and counts are numbers. None for `GetDupCirc` | `EachRingOnce`, `ResidualOnlyByMoving`; `ListsComplete`, `CopyInsideBlock`, `TableLargeEnough` |
| `KernelsProofs` | `MaskFits`: sizes are numbers, `Half <= Shift`. `Inputs`: heights and row sizes are positive numbers, limits are numbers. `TileSizes`: values below the padding, and more pixels than half the tile, as rounding up to a power of two gives | `WindowExact`; `EveryRowComputed`, `RowsStayRight`; `PairUntouched`, `SortedAtEnd`, `ResultIsOrdinal` |
| `HoughGraphProofs` | for `RingRadii`: `Admitted`, parameters in the range of the properties; `NoWrap`, the counter stays a step below its width; `KnownScales`, 1 or 2, for `LineIsTheRing`. None for `TaskGraph` | `RadiiExact`, `StackIsFilled`, `LineIsTheRing`; `ImagesNeverMix`, `DimensionsAccepted` |
| `TaskProofs` | none; see below for the `ASSUME`s of `TaskProcess` and `TaskObject` | `CombineExact`, `LabelsSound`, `BlobsLabelled`, `MaximaOfThisImage`, `BackgroundDefined`, `RingsExact`, `PeaksFound`; `ReferencesSound`, `OneKernelPerRun`, `PropertiesIndependent` |
| `InductionLemmas` | | no property: induction and recursion over numbers, cited by the others |

The `ASSUME`s say what inputs the code is written for. `InputsAssumption`:
stacks have two planes or more; an image of label-cluster is not wider than high
(its loops run over a square as wide as the image) and has pixels of the image
only, as one of filter-particle has; images of localmaxima have two rows and
columns or more and its output has room for every inner pixel; the first radius
is positive, and the window of the score is the five bins of the code.
`SizesAssumption`: the largest size given is not above `2^(Width-1)`; above it
`ceil_power_of_two` doubles until it wraps to 0 and never returns. The ranges
declared in `class_init` reach `G_MAXUINT`, so that this is an assumption about
the users of the tasks; every configuration of the repository keeps far below.
`LargeAssumption` places the end of the unbounded ranges above all the bounds
written into the code, and `WidthAssumption` is the width of a `guint`, or less.

The arguments, and why the invariants are needed:

* `HoughLikelihood`: that two slots differ needs that every slot is below the
  counter; that the header is complete needs that the counter is the number of
  work-items past their claim; that a published record is intact needs that
  each stored field lies where its owner's slot puts it, and that no one else
  stores there, which is the arithmetic fact that `Index` is injective. In the
  refinement `ResetCount` is the abstract `Take`, `WriteHeader` the abstract
  `Deliver`, everything else a stutter.
* `AzimuthalTest`: the invariant says of each ring where it stands: as given,
  scaled, or tested, according to the loop index while the task thread scales,
  and afterwards according to whether its job is queued, held by a worker, or
  done. It needs that no two workers hold one ring (else the second would search
  around an already moved ring), and how many jobs are pushed at each point of
  `process ()`. `StrongerRingKept` follows from the lemma that the condition is
  monotone off the thresholds and the invariant of the filter loop.
  `OutputIsDeterministic` adds that the output so far is the sequential selection
  from as many rings as the loop has passed, and unrolls that selection by one
  ring with the equations of its recursion (`KeptEquations`).
* `CandidateFilter`: `SurvivorsApart` needs that the list is sorted in x (so
  that the early `break` misses no neighbour), which pairs the loops have
  passed, and that a contrast is only ever set to 0. That peaks and a ring at
  least as strong as every candidate stay rests on one lemma, `Removal`: a step
  that removes ring d has in hand a neighbour m that is still in the list and at
  least as strong.
* `GetDupCirc`: the rings given are at any moment parted among those emitted,
  the one in hand, and those still in the private list: `origin` of the places
  of the output and `members` of the rest are disjoint sets that cover the input,
  and a ring marked as merged stands for nothing. A ring that stands for itself
  alone is where it was given, and the rings the last search went past without a
  merge are no neighbours of the ring in hand, which has not moved since: so two
  rings of the output that are neighbours became so by a move of the later one.
* `BitonicSort`: three arguments, one on the other. First, the rounds of any two
  work-items are at most one apart, and in round k a cell is in the pair of one
  item only (`ItemOfCell`); so nobody stores into a pair that is in hand, and
  every cell holds what the network, computed round by round as a whole, has for
  it at the stage its item has reached (`SortInv`). Second, the network sorts
  (`NetworkSorts`): after the round with counters s and t every block of `2^t`
  keys rises and falls at most once, and such blocks are in order inside their
  block of `2^s` (`Merged`). That a block rises and falls at most once is said of
  any four of its places, so that one comparison of its halves is a fact about
  eight integers (`HalvesStraight`); the zero-one principle, on which the bounds of
  the run rest, is not used. Third, a round is a bijection of the cells, so
  every value is in the tile as often as before (`NetworkKeepsKeys`); with the
  padding above all of them, the pixels are the first ones of the sorted tile,
  which is what the ordinals are counted in.
* `OrdfiltChunks`: offset, number of rows of a pass and what lies in the buffer
  add up to the image; the rows computed are those before the offset. That the
  last pass ends with the image is the division of the height with remainder.
* `LikelihoodTile`: a work-item has taken the loads before its `next`, and what
  a filled cell holds is the pixel at its place, whoever loaded it; the barrier
  turns the first into "every cell of every window is filled", by a case
  distinction over the nine regions of the tile.
* `RingRadii`: before the generator runs, `ring_current` follows `start` in
  whatever order the setters come; then radius number k is
  `start + (k - 1) * step`, in integers of `Bits` bits, which is where `NoWrap`
  enters. That the stack fills compares the number of terms before the reduced
  end with the script's quotient of the full-size parameters.
* `TaskGraph`: buffer number k behind a task is of image k or of none. What a
  task has taken and made is not in the state: `StepInv` says that there are such
  counts, which account for the length of every queue, and that a task which
  makes one buffer of one from each input has made as many as it has taken. So
  the two buffers that meet at a join have the same number. It needs that no
  edge of the graphs leads from a task to itself (`Loops`). `DimensionsAccepted`
  needs the number of dimensions each task of each graph makes (`DimsOf`), that
  this fits what the tasks behind it declare (`Sound`, which also has the shape
  of the graphs), and that all buffers in a queue have it (`DimsInv`); a task
  whose output is like its input hands it on.
* `ConcatenateResult`: as long as images are grouped, the block of the current
  image is as long as the shared index and no longer than the shared room, and
  blocks of other images no longer change. An image number is below the size of
  the table for every result so far, so the next one is below its double.
  `ListsComplete` needs no grouping: a count is what the accepted results of its
  image add up to (`Accepted`, unrolled by one result in `AcceptedAppend`), and
  the lists given out are those of the first images in order (`ListedInv`).
* `TaskProcess`: a behaviour is one or two calls, so each property is a lemma
  about an operator. The loops are functions recursive in their turns; each lemma
  takes an invariant of the loop through them. combine-test: the plane carried
  on is the combination of the last two (`PlanesCombined`). localmaxima: the scan
  of the inner pixels lists those seen, each once, because the raster order meets
  each pixel once (`RasterMeetsOnce`), and two pixels above all their neighbours
  are no neighbours (`MaximaApart`). azimuthal-test: the two loops of a search stop
  at p exactly if p is a tent (`LoopsFindTent`), so the list holds the tents from
  left to right and the scan over it takes the first of the highest. Rings: a
  pixel has one rounded distance (`RootIs`), and a pixel in the skipped square can
  reach the first radius only in a corner (`CornersOnly`), for which 0.7 has to be
  compared with half the root of two for every radius. Background: the weighted
  squares of the distances from the mean add up to the variance
  (`SquaresAddUp`), so two values or more leave one within two deviations
  (`SomePixelKept`), and no round is left without pixels.
* label-cluster: what one call of `explore` may assume and leaves is `Filling` and
  `Follows`: the depth counts the pixels with the label and the rectangle is the
  least around them; a call labels only what hangs together with its pixel, and
  whatever it has labelled has all its neighbours labelled unless the depth is
  used up. Four calls in a row compose; the limit on calls inside
  each other is never what stops one, as each has labelled a pixel. A fill is
  then a whole cluster (`ClusterFilled`), and `LabelInv` carries through the
  loop over the seeds that a label is on one cluster of an accepted shape, from
  which rectangles only take pixels away.
* filter-particle: `FirstInv` is the invariant of the first pass: the pixels met
  are numbered as the pixels they copy from, a number and a pair stand for pixels
  of one blob, and every number is somewhere. The sort permutes the pairs and the
  joins replace numbers by numbers of the same blob (`SortedRows`, `JoinedRows`),
  for any number of pairs. The ranks of the numbers left have no gap
  (`RanksAreFull`). For two pairs the joins are run through (`JoinsOfTwo`), which
  needs that the sort has put the pair first that begins first, and
  `LabelsAgree` goes from column to column: a pixel and the one above it agree if
  those on their left do, or a pair says so.
* `TaskObject`: `HoldInv` says that a task that is ready or running has in hand,
  by a reference of its own or lent, every object its setup is for, and once
  asked those made on demand; that a field that is set has a reference behind it
  wherever finalize releases it; and that so far nothing was overdrawn. The rows
  are needed only as far as `SetupRows` and `GivesBackOnce` say: a setup that
  finds all kernels gathers every object (`SetupTakesAll`), `get_requisition`
  makes either all of its objects or, with the plan still there, none
  (`AskedMakesAll`), and finalize releases each object at most once
  (`FinalizeReturns`). Each step is run through from any state of its field
  (`OneStep`, `Performed`), so that missing kernels need no case of their own.
  `KernelInv` ties the flag of the generator to the kernels made in this run.
  `PropInv` is what each property must read as: for the rounded ones it needs
  that the loop reaches the least power of two in as many turns as that has zeros
  (`DoublingRounds`), that the five shifts fill all bits below the highest one
  (`FillingRounds`), and that there is one least power of two (`LeastIsOne`), so
  that the setup of a second run, which rounds what is rounded, changes nothing.

`TypeOK` of the three detection modules, `SlotsUnique`, `RemovedForAReason`,
`RingChangedByOwner`, `HeaderAfterKernel`, `OneWorkerPerRing` and
`PoolDrainedBeforeFilter` are proved and in no run: the runs check what follows
from them.

Only model-checked:

* everything about liveness (`EveryImagePublished`, `Terminates`, `Returns`,
  `MergeTerminates`, `ImagesWritten`): fairness and ENABLED are out of the
  prover's reach. Of `ImplementsCandidateList` the safety part is proved
  (`RefinesCandidateList`). Every invariant that a passing run checks is a theorem.
* The runs that expect a violation refute their property on one instance; there
  is nothing to prove for all.

The library states induction with an operator as parameter, which the
installed provers cannot instantiate. `InductionLemmas` therefore states
induction, least and greatest numbers, and the existence, equations and
invariants of recursive functions with sets and functions in the place of the
operator, and derives them from the library's theorem that < on the natural
numbers is well-founded. A fold of the community modules takes an operator and is
out of reach for the same reason, so the loops that are proved about are written
as recursive functions.

## 5. Not modelled

* Floating-point arithmetic per pixel: the likelihood score and the mask, the
  gray values of a ring pattern, contrast, brightness-cut, bilateral, log, sum,
  blob-test, the threshold kernel of local-maxima, Hessian values and
  eigenvalues, signal-to-noise ratios and averages in `gaussian_thread`,
  `part_cen_radius` of filter-particle, the centre loop and the fits (GSL) of
  multi-search, the histogram of piv-contrast. They keep no state and branch
  only on the values computed.
* The transforms of fftconvolution (external). Its plan is created for the
  first image and used for all; no script sends images of two sizes.
* Leaks. `ReferencesSound` says that nothing is used or given back that is not
  held, not that all is given back in the end, which the code does not do:
  fftconvolution forgets the plan and the buffers of an earlier run,
  hough-likelihood the old counter; most tasks
  never release the context or the kernels they retain, and those of an earlier
  setup are released by none. The model has these steps (a field written anew
  has only the references taken since), no property speaks of them. The
  `tmp_buffer` of a `process ()` of localmaxima, never given back, is not in it.
* A query of `get_num_inputs` while the generator of hessian-kernel runs: the
  model asks once per run, before it starts.
* Error returns of OpenCL (left to a macro of ufo-core), and the inside of the
  scheduler.
* A directory with fewer images than `number`: the loop over the ring stack
  would keep repetitions nobody takes. `TaskGraph` delivers what is asked for.
* The wrap of the generator's counter when `end` is within a step of the largest
  value of its type (`src_hough/ufo-ring-pattern-task.c:197`): in `RingRadii`
  (`Bits`), but the run and the theorem stay below, as every configuration does.
  `RadiiExact` is false there, the generator would not end.
* The order of candidates at one pixel, which follows the order in which
  work-items claimed slots: two executions would have to be compared.
* Images large enough for the 100000 label equivalences of filter-particle.
* The text formats of ring files and print-outs, build files, sample data, and
  the vendored `tifffile`, which no script of `src/bin` uses.
