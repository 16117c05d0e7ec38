------------------------------ MODULE TaskTable ------------------------------
(***************************************************************************)
(* What every task of the two plugin directories declares of itself: its   *)
(* inputs and its output, its properties with their ranges and defaults,   *)
(* and the OpenCL objects and files it acquires and gives back.  The rows  *)
(* are read from get_num_inputs, get_num_dimensions, get_mode and          *)
(* get_requisition (Interface, and Requisition where it creates objects),  *)
(* from setup (Setup), and from set_property, get_property, class_init and *)
(* init (Properties) with finalize (Finalize).  The command queue and the  *)
(* profiler belong to the node a task runs on and are left out.            *)
(*                                                                         *)
(* Floats are counted in hundredths.  G_MINFLOAT is the least of them,     *)
(* G_MAXUINT and G_MAXFLOAT are Large.                                     *)
(***************************************************************************)
EXTENDS Integers

CONSTANT Large

ASSUME LargeAssumption == Large \in Nat /\ Large >= 2 ^ 16

-----------------------------------------------------------------------------
(* The vocabulary of the rows. *)

AnyDim == -1                \* get_num_dimensions returns -1

\* An output of d dimensions, or one like that of input i.
Dims(d) == [like |-> 0, dims |-> d]
Like(i) == [like |-> i, dims |-> 0]

\* inputs[i] is the number of dimensions declared for input i.
Processor(inputs, output) == [mode |-> "processor", inputs |-> inputs, output |-> output]
Generator(output)         == [mode |-> "generator", inputs |-> <<>>, output |-> output]
Reductor(inputs, output)  == [mode |-> "reductor", inputs |-> inputs, output |-> output]
Sink(inputs)              == [mode |-> "sink", inputs |-> inputs, output |-> Dims(0)]

\* A property: its range and declared default (class_init), its value in a new
\* object (init), and what set_property makes of a value before it stores it.
Property(lo, hi, declared, initial, stored) ==
    [lo |-> lo, hi |-> hi, declared |-> declared, initial |-> initial, stored |-> stored]
Plain(lo, hi, declared, initial)      == Property(lo, hi, declared, initial, "as given")
CurrentToo(lo, hi, declared, initial) == Property(lo, hi, declared, initial, "also current")
OddOnly(lo, hi, declared, initial)    == Property(lo, hi, declared, initial, "odd")
PowerOfTwo(lo, hi, declared, initial) == Property(lo, hi, declared, initial, "power of two")
PowerOfTwoInSetup(lo, hi, declared, initial) ==
    Property(lo, hi, declared, initial, "power of two in setup")
Ignored(lo, hi, declared, initial)    == Property(lo, hi, declared, initial, "not at all")

\* The property "test" of the template: set_property does nothing.
OnlyTest == [test |-> Ignored(0, Large, 0, 0)]

\* Steps of setup, get_requisition and finalize: the object one is about, and
\* the pointers that must be set, or not be set, for it to be done.
\* take: an object of the resources is fetched and, if there is one, retained.
\* borrow: it is fetched and not retained.  create: it is made, or opened.
\* clear: its pointer becomes NULL.  release: a reference is given back; that
\* finalize clears the pointer after it is left out, as nothing reads it then.
Always(do, o) == [do |-> do, object |-> o, on |-> {}, off |-> {}]
Take(o)       == Always("take", o)
Borrow(o)     == Always("borrow", o)
Create(o)     == Always("create", o)
Clear(o)      == Always("clear", o)
GiveBack(o)   == Always("release", o)
CreateUnless(p, o) == [Create(o) EXCEPT !.off = {p}]
ReleaseIf(p, o)    == [GiveBack(o) EXCEPT !.on = {p}]
Release(o)         == ReleaseIf(o, o)

-----------------------------------------------------------------------------
(* The Hough graph. *)

RingPatternInterface == Generator(Dims(2))
RingPatternProperties == [
    start     |-> CurrentToo(1, Large, 5, 5),
    step      |-> Plain(1, Large, 2, 2),
    end       |-> Plain(1, Large, 5, 5),
    thickness |-> Plain(1, Large, 13, 13),
    width     |-> PowerOfTwo(1, Large, 1024, 1024),
    height    |-> PowerOfTwo(1, Large, 1024, 1024),
    method    |-> Plain(0, 3, 0, 0)]

PivContrastInterface == Processor(<<2>>, Like(1))
PivContrastSetup == <<Take("sigmoid_kernel"), Take("context")>>
PivContrastProperties == [
    c1    |-> Plain(-500, 500, 50, 50),
    c2    |-> Plain(0, 10000, 1000, 1000),
    c3    |-> Plain(0, 2000, 300, 400),
    c4    |-> Plain(0, 1000, 150, 200),
    gamma |-> Plain(0, 100, 30, 30)]
PivContrastFinalize == <<Release("sigmoid_kernel")>>

ComplexMultInterface == Processor(<<AnyDim, AnyDim>>, Like(2))
\* The kernel that process uses is never retained.
ComplexMultSetup == <<Take("context"), Borrow("k_mult")>>
ComplexMultProperties == OnlyTest

MaskSize == OddOnly(3, 21, 9, 9)
MaskInnerSize == Plain(100, 1000, 100, 200)

HoughLikelihoodInterface == Processor(<<AnyDim>>, Dims(1))
\* A mask or a counter of an earlier setup is released first; line 115 names
\* the mask for both.
HoughLikelihoodSetup == <<
    Take("context"), Take("kernel"),
    Release("mask_mem"), Create("mask_mem"),
    ReleaseIf("count_mem", "mask_mem"), Create("count_mem")>>
HoughLikelihoodProperties == [
    masksize      |-> MaskSize,
    maskinnersize |-> MaskInnerSize,
    threshold     |-> Plain(1, Large, 30000, 30000)]
HoughLikelihoodFinalize == <<
    Release("kernel"), Release("context"), Release("mask_mem"), Release("count_mem")>>

HoughLikelihoodImageInterface == Processor(<<AnyDim>>, Like(1))
HoughLikelihoodImageSetup == <<
    Take("context"), Take("kernel"), Release("mask_mem"), Create("mask_mem")>>
HoughLikelihoodImageProperties == [masksize |-> MaskSize, maskinnersize |-> MaskInnerSize]

CandidateFilterInterface == Processor(<<AnyDim>>, Dims(1))
CandidateFilterSetup == <<Take("kernel"), Borrow("context")>>
CandidateFilterProperties == [
    ring_start |-> CurrentToo(1, Large, 5, 5),
    ring_step  |-> Plain(1, Large, 2, 2),
    ring_end   |-> Plain(1, Large, 5, 5),
    scale      |-> Plain(1, 2, 1, 1)]
CandidateFilterFinalize == <<Release("kernel")>>

AzimuthalTestInterface == Processor(<<2, 1>>, Like(2))
AzimuthalTestProperties == [
    thread          |-> Plain(1, 100, 8, 8),
    azimu_thld      |-> Plain(1, Large, 500, 500),
    likelihood_thld |-> Plain(1, Large, 35000, 35000)]

RingWriterInterface == Sink(<<1>>)
RingWriterSetup == <<Create("fp")>>
\* A file name is a number that stands for it.
RingWriterProperties == [filename |-> Plain(0, Large, 0, 0)]
RingWriterFinalize == <<Release("fp")>>

-----------------------------------------------------------------------------
(* The graph of ordinal filters. *)

OfRingPatternInterface == Generator(Dims(2))
OfRingPatternProperties == [
    start     |-> CurrentToo(1, Large, 5, 5),
    step      |-> Plain(1, Large, 2, 2),
    end       |-> Plain(1, Large, 5, 5),
    thickness |-> Plain(1, Large, 13, 13),
    width     |-> PowerOfTwo(1, Large, 1024, 1024),
    height    |-> PowerOfTwo(1, Large, 1024, 1024),
    method    |-> Plain(0, 3, 0, 0)]

ContrastInterface == Processor(<<2>>, Like(1))
ContrastProperties == [remove_high |-> Plain(0, 1, 0, 0)]

OrdfiltInterface == Processor(<<2, 2>>, Like(1))
OrdfiltSetup == <<
    Borrow("context"), Take("k_bitonic_ordfilt"), Take("k_load_elements_from_patern")>>
OrdfiltProperties == <<>>

FilterParticleInterface == Processor(<<2>>, Dims(1))
FilterParticleProperties == [min |-> Plain(0, 1000, 125, 125), threshold |-> Plain(0, 1000, 800, 800)]

ConcatenateResultInterface == Reductor(<<2>>, Dims(1))
\* What ring_count allocates is modelled in ConcatenateResult.
ConcatenateResultProperties == [
    max_count  |-> Plain(1, Large, 60, 60),
    ring_count |-> Plain(0, Large, 0, 0)]

GetDupCircInterface == Processor(<<1>>, Like(1))
GetDupCircProperties == [threshold |-> Plain(100, Large, 1000, 1000)]

MultiSearchInterface == Processor(<<2, 1>>, Like(2))
MultiSearchProperties == [
    radii_range  |-> Plain(0, Large, 3, 10),
    threshold    |-> Plain(0, Large, 1, 50),
    displacement |-> Plain(0, Large, 2, 1)]

-----------------------------------------------------------------------------
(* Tasks that no current script uses, but earlier and experimental graphs. *)

LocalmaximaInterface == Processor(<<2>>, Dims(1))
LocalmaximaSetup == <<Borrow("context")>>
LocalmaximaProperties == [
    ring_start    |-> Plain(1, Large, 5, 5),
    ring_step     |-> Plain(1, Large, 2, 2),
    ring_end      |-> Plain(1, Large, 5, 5),
    max_detection |-> Plain(1, Large, 100, 100)]

LocalMaximaInterface == Processor(<<2>>, Like(1))
LocalMaximaSetup == <<Take("locmax_kernel")>>
LocalMaximaProperties == [sigma |-> Plain(0, 1000, 500, 500)]
LocalMaximaFinalize == <<Release("locmax_kernel")>>

LabelClusterInterface == Processor(<<2>>, Like(1))
LabelClusterProperties == OnlyTest

CombineTestInterface == Processor(<<3>>, Like(1))
CombineTestProperties == OnlyTest

BlobTestInterface == Processor(<<2, 2>>, Like(1))
BlobTestProperties == [alpha |-> Plain(0, 1000, 200, 200)]

BrightnessCutInterface == Processor(<<2>>, Like(1))
BrightnessCutProperties == [low |-> Plain(0, 1000, 100, 100), high |-> Plain(0, 1000, 500, 300)]

HessianKernelInterface == Generator(Dims(3))
HessianKernelProperties == [
    test   |-> Ignored(0, Large, 0, 0),
    width  |-> PowerOfTwoInSetup(256, 4096, 1024, 1024),
    height |-> PowerOfTwoInSetup(256, 4096, 1024, 1024),
    sigma  |-> Plain(50, 600, 200, 200)]

HessianAnalysisInterface == Processor(<<3>>, Dims(3))
HessianAnalysisSetup == <<Take("context"), Take("kernel_det"), Take("kernel_eigval")>>
HessianAnalysisProperties == OnlyTest
HessianAnalysisFinalize == <<Release("kernel_det"), Release("kernel_eigval")>>

FftconvolutionInterface == Processor(<<2, 3>>, Dims(3))
\* No kernel is retained, and an earlier plan is forgotten; plan and buffers are
\* made when the output is asked for and there is no plan.
FftconvolutionSetup == <<
    Borrow("kernel_padzero"), Borrow("kernel_fftpack"), Borrow("kernel_fftmult"),
    Borrow("kernel_fillzero"), Clear("fft_plan"), Take("context")>>
FftconvolutionRequisition == <<
    CreateUnless("fft_plan", "fft_buffer_1"), CreateUnless("fft_plan", "fft_buffer_2"),
    CreateUnless("fft_plan", "fft_plan")>>
FftconvolutionProperties == OnlyTest
\* Without a test whether they were ever made.
FftconvolutionFinalize == <<
    GiveBack("fft_buffer_1"), GiveBack("fft_buffer_2"), GiveBack("fft_plan")>>

SumInterface == Processor(<<3>>, Dims(2))
SumProperties == OnlyTest

LogInterface == Processor(<<2>>, Like(1))
LogProperties == OnlyTest

BilateralInterface == Processor(<<2>>, Like(1))
BilateralProperties == OnlyTest

DeviceInfoInterface == Processor(<<2>>, Dims(1))
DeviceInfoProperties == OnlyTest

-----------------------------------------------------------------------------

RowOnDemand(interface, setup, requisition, properties, finalize) ==
    [interface |-> interface, setup |-> setup, requisition |-> requisition,
     properties |-> properties, finalize |-> finalize]
Row(interface, setup, properties, finalize) ==
    RowOnDemand(interface, setup, <<>>, properties, finalize)

\* The plugins, by the names the scripts ask for.
Tasks == [
    ring_pattern |-> Row(RingPatternInterface, <<>>, RingPatternProperties, <<>>),
    piv_contrast |-> Row(PivContrastInterface, PivContrastSetup, PivContrastProperties, PivContrastFinalize),
    complex_mult |-> Row(ComplexMultInterface, ComplexMultSetup, ComplexMultProperties, <<>>),
    hough_likelihood |-> Row(HoughLikelihoodInterface, HoughLikelihoodSetup,
                             HoughLikelihoodProperties, HoughLikelihoodFinalize),
    hough_likelihood_image |-> Row(HoughLikelihoodImageInterface, HoughLikelihoodImageSetup,
                                   HoughLikelihoodImageProperties, <<>>),
    candidate_filter |-> Row(CandidateFilterInterface, CandidateFilterSetup,
                             CandidateFilterProperties, CandidateFilterFinalize),
    azimuthal_test |-> Row(AzimuthalTestInterface, <<>>, AzimuthalTestProperties, <<>>),
    ring_writer |-> Row(RingWriterInterface, RingWriterSetup, RingWriterProperties, RingWriterFinalize),
    of_ring_pattern |-> Row(OfRingPatternInterface, <<>>, OfRingPatternProperties, <<>>),
    contrast |-> Row(ContrastInterface, <<>>, ContrastProperties, <<>>),
    ordfilt |-> Row(OrdfiltInterface, OrdfiltSetup, OrdfiltProperties, <<>>),
    filter_particle |-> Row(FilterParticleInterface, <<>>, FilterParticleProperties, <<>>),
    concatenate_result |-> Row(ConcatenateResultInterface, <<>>, ConcatenateResultProperties, <<>>),
    get_dup_circ |-> Row(GetDupCircInterface, <<>>, GetDupCircProperties, <<>>),
    multi_search |-> Row(MultiSearchInterface, <<>>, MultiSearchProperties, <<>>),
    localmaxima |-> Row(LocalmaximaInterface, LocalmaximaSetup, LocalmaximaProperties, <<>>),
    local_maxima |-> Row(LocalMaximaInterface, LocalMaximaSetup, LocalMaximaProperties, LocalMaximaFinalize),
    label_cluster |-> Row(LabelClusterInterface, <<>>, LabelClusterProperties, <<>>),
    combine_test |-> Row(CombineTestInterface, <<>>, CombineTestProperties, <<>>),
    blob_test |-> Row(BlobTestInterface, <<>>, BlobTestProperties, <<>>),
    brightness_cut |-> Row(BrightnessCutInterface, <<>>, BrightnessCutProperties, <<>>),
    hessian_kernel |-> Row(HessianKernelInterface, <<>>, HessianKernelProperties, <<>>),
    hessian_analysis |-> Row(HessianAnalysisInterface, HessianAnalysisSetup,
                             HessianAnalysisProperties, HessianAnalysisFinalize),
    fftconvolution |-> RowOnDemand(FftconvolutionInterface, FftconvolutionSetup, FftconvolutionRequisition,
                                   FftconvolutionProperties, FftconvolutionFinalize),
    sum |-> Row(SumInterface, <<>>, SumProperties, <<>>),
    log |-> Row(LogInterface, <<>>, LogProperties, <<>>),
    bilateral |-> Row(BilateralInterface, <<>>, BilateralProperties, <<>>),
    device_info |-> Row(DeviceInfoInterface, <<>>, DeviceInfoProperties, <<>>)]

=============================================================================
