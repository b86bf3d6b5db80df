------------------------------ MODULE Program ------------------------------
(***************************************************************************)
(* Program and Kernel: what the constructor accepts of a SPIR-V module and  *)
(* reads of its reflection, the Vulkan objects each kernel's first request  *)
(* creates, a request that fails half way and is made again, what a launch  *)
(* accepts of its arguments and grid, and what ~Program destroys.           *)
(*                                                                          *)
(* A module is a sequence of instructions.  Ids and words are numbers, names *)
(* strings or model values; an instruction whose size is wrong is one of op *)
(* "Malformed", and every instruction no pass looks at is one of op "Code". *)
(***************************************************************************)
EXTENDS Integers, Sequences, FiniteSetsExt

CONSTANTS Modules,      \* the SPIR-V modules a program may be made from
          Launches,     \* [args, grid] a caller may launch with
          Names,        \* kernel names a caller may ask for
          PushLimit,    \* maxPushConstantsSize
          MaxGroups,    \* maxComputeWorkGroupCount, each axis
          MaxArgs,      \* DescriptorCache::kMaxBindings
          MaxAttempts,  \* bound: pipeline builds
          Null

\* What the compiler that wrote a module keeps to and Program relies on without a
\* look: constants are words, an extended instruction's set is imported before
\* it, and a required workgroup size, which launches divide by, is not zero.
SpirV(m) ==
  /\ IsFiniteSet(DOMAIN m) /\ DOMAIN m \subseteq Nat
  /\ \A i \in DOMAIN m : m[i].op = "OpConstant" => m[i].value \in Nat
  /\ \A i \in DOMAIN m : m[i].op = "OpExtInst" =>
       /\ m[i].words \in Seq(Nat)
       /\ \E j \in DOMAIN m : j < i /\ m[j].op = "OpExtInstImport" /\ m[j].id = m[i].id
       /\ m[i].inst = "PropertyRequiredWorkgroupSize" =>
            \A n \in DOMAIN m[i].words, j \in DOMAIN m : 
              n > 1 /\ m[j].op = "OpConstant" /\ m[j].id = m[i].words[n] => m[j].value # 0

\* The Vulkan objects there can be.  The attempt is the build that made one.
Shaders    == [kind : {"shader"}, code : SUBSET Nat]
SetLayouts == [kind : {"set"}, kernel : Nat, set : Nat, attempt : Nat, bindings : SUBSET Nat]
PipelineLayouts == [kind : {"layout"}, kernel : Nat, attempt : Nat,
                    sets : Seq(SetLayouts), push : Nat]
Pipelines  == [kind : {"pipeline"}, kernel : Nat, attempt : Nat,
               layout : PipelineLayouts, local : [1..3 -> Nat]]

ASSUME ProgramAssumption ==
  /\ PushLimit \in Nat /\ MaxArgs \in Nat /\ MaxGroups \in Nat /\ MaxAttempts \in Nat
  /\ \A m \in Modules : SpirV(m)
  /\ \A l \in Launches : l.grid \in [1..3 -> Nat]
  /\ Null \notin Shaders \cup SetLayouts \cup PipelineLayouts \cup Pipelines

VARIABLES code,         \* the module
          kernels,      \* impl_->kernels, <<>> until the constructor returns
          shader,       \* impl_->shader_module
          objects,      \* the Vulkan objects that exist
          tries,        \* the builds tried: kernel, and whether it was built
          launched      \* the last launch: what was recorded, or Null

pvars == <<code, kernels, shader, objects, tries, launched>>

-----------------------------------------------------------------------------
(* Pass 1: the strings, the 32-bit constants, the reflection set.           *)

Named(op, id) == {i \in DOMAIN code : code[i].op = op /\ code[i].id = id}

IsText(id) == Named("OpString", id) # {}
IsValue(id) == Named("OpConstant", id) # {}
Text(id) == code[Max(Named("OpString", id))].text
Value(id) == code[Max(Named("OpConstant", id))].value

Imports == {i \in DOMAIN code : code[i].op = "OpExtInstImport"}
ReflectionImports == {i \in Imports : code[i].set = "ClspvReflection"}

-----------------------------------------------------------------------------
(* Pass 2: the reflection instructions, in order.                           *)

Reflection == {i \in DOMAIN code : /\ code[i].op = "OpExtInst"
                                   /\ code[i].id = code[Max(ReflectionImports)].id}

ArgInst == {"ArgumentStorageBuffer", "ArgumentPodPushConstant"}
PerKernel == ArgInst \cup {"PropertyRequiredWorkgroupSize"}

\* The operands every instruction of a kind must have.
Operands == [Kernel |-> 2, ArgumentInfo |-> 0, ArgumentStorageBuffer |-> 4,
             ArgumentPodPushConstant |-> 4, SpecConstantWorkgroupSize |-> 3,
             PropertyRequiredWorkgroupSize |-> 4]

\* kernel_by_id: the latest earlier kernel whose instruction has that id.
KernelsNamed(i) == {j \in Reflection : /\ j < i /\ code[j].inst = "Kernel"
                                       /\ code[j].result = code[i].words[1]}

WellFormed(i) ==
  LET w == code[i].words inst == code[i].inst
  IN  /\ inst \in DOMAIN Operands
      /\ Len(w) >= Operands[inst]
      /\ inst = "Kernel" => IsText(w[2])
      /\ inst = "ArgumentInfo" /\ w # <<>> => IsText(w[1])
      /\ inst = "SpecConstantWorkgroupSize" => \A n \in 1..3 : IsValue(w[n])
      /\ inst \in PerKernel => /\ \A n \in 2..4 : IsValue(w[n])
                               /\ KernelsNamed(i) # {}

KernelAt == {i \in Reflection : code[i].inst = "Kernel"}
OfKernel(k, insts) == {i \in Reflection : /\ code[i].inst \in insts
                                          /\ Max(KernelsNamed(i)) = k}

Ordinal(i) == Value(code[i].words[2])
Contiguous(k) == LET args == OfKernel(k, ArgInst)
                 IN  {Ordinal(i) : i \in args} = 0..(Cardinality(args) - 1)

Parses == /\ \A i \in DOMAIN code : code[i].op # "Malformed"
          /\ ReflectionImports # {}
          /\ \A i \in Reflection : WellFormed(i)
          /\ KernelAt # {}
          /\ \A k \in KernelAt : Contiguous(k)

\* KernelArg: (set, binding) of a buffer, (offset, size) of a value.
Arg(i) == LET w == code[i].words
          IN  IF code[i].inst = "ArgumentStorageBuffer"
              THEN [kind |-> "buffer", set |-> Value(w[3]), binding |-> Value(w[4])]
              ELSE [kind |-> "pod", offset |-> Value(w[3]), size |-> Value(w[4])]

Args(k) == LET args == OfKernel(k, ArgInst)
           IN  [n \in 1..Cardinality(args) |->
                  Arg(CHOOSE i \in args : Ordinal(i) = n - 1)]

RoundUp4(n) == ((n + 3) \div 4) * 4

PushSize(args) ==
  RoundUp4(Max({0} \cup {args[n].offset + args[n].size :
                         n \in {m \in DOMAIN args : args[m].kind = "pod"}}))

LocalSize(k) ==
  LET sizes == OfKernel(k, {"PropertyRequiredWorkgroupSize"})
  IN  IF sizes = {} THEN <<64, 1, 1>>
      ELSE [a \in 1..3 |-> Value(code[Max(sizes)].words[a + 1])]

KernelState(k) ==
  [name |-> Text(code[k].words[2]), args |-> Args(k), push |-> PushSize(Args(k)),
   required |-> LocalSize(k), local |-> <<1, 1, 1>>, layouts |-> <<>>,
   pipelineLayout |-> Null, pipeline |-> Null, built |-> FALSE]

\* Kernels in module order.
InOrder == [n \in 1..Cardinality(KernelAt) |->
              CHOOSE k \in KernelAt : Cardinality({j \in KernelAt : j <= k}) = n]

\* strip_non_semantic: what the driver is not shown.
NonSemantic == {"ClspvReflection", "NonSemanticOther"}
Dropped(i) ==
  \/ code[i].op = "OpExtension" /\ code[i].text = "SPV_KHR_non_semantic_info"
  \/ i \in Imports /\ code[i].set \in NonSemantic
  \/ /\ code[i].op = "OpExtInst"
     /\ \E j \in Imports : /\ j < i /\ code[j].set \in NonSemantic
                           /\ code[j].id = code[i].id

Stripped == {i \in DOMAIN code : ~Dropped(i)}

-----------------------------------------------------------------------------
(* The constructor; the first request of a kernel.                          *)

ProgramInit ==
  /\ code \in Modules
  /\ kernels = <<>> /\ shader = Null /\ objects = {}
  /\ tries = <<>> /\ launched = Null

\* Program::Program.  Refused, or without a shader module, nothing is left.
Load == /\ kernels = <<>> /\ shader = Null /\ tries = <<>>
        /\ Parses
        /\ shader' = [kind |-> "shader", code |-> Stripped]
        /\ kernels' = [n \in DOMAIN InOrder |-> KernelState(InOrder[n])]
        /\ objects' = {shader'}
        /\ UNCHANGED <<code, tries, launched>>

\* ProgramImpl::find.
Find(name) == {n \in DOMAIN kernels : /\ kernels[n].name = name
                                      /\ \A m \in 1..(n - 1) : kernels[m].name # name}

SetNumbers(args) == {args[n].set : n \in {m \in DOMAIN args : args[m].kind = "buffer"}}
SetCount(args) == IF args = <<>> THEN 0 ELSE Max({0} \cup SetNumbers(args)) + 1

Bindings(args, set) == {args[n].binding : n \in {m \in DOMAIN args :
                                args[m].kind = "buffer" /\ args[m].set = set}}

SetLayout(n, set) == [kind |-> "set", kernel |-> n, set |-> set, attempt |-> Len(tries) + 1,
                      bindings |-> Bindings(kernels[n].args, set)]

\* build_pipeline: set layouts, push-constant limit, pipeline layout,
\* pipeline.  The done-th creation is the last to succeed; the one that fails
\* leaves its output as it was or Null, a pipeline's Null; nothing made before
\* it is destroyed, and the next build starts over.
BuildPipeline(n, done, left) ==
  LET k == kernels[n]
      sets == SetCount(k.args)
      fits == k.push <= PushLimit
      old(s) == IF s \in DOMAIN k.layouts THEN k.layouts[s] ELSE Null
      layouts == [s \in 1..sets |-> IF s <= done THEN SetLayout(n, s - 1)
                                    ELSE IF s = done + 1 /\ ~left THEN Null ELSE old(s)]
      layout == IF done > sets
                THEN [kind |-> "layout", kernel |-> n, attempt |-> Len(tries) + 1,
                      sets |-> layouts, push |-> k.push]
                ELSE IF done = sets /\ fits /\ ~left THEN Null ELSE k.pipelineLayout
      pipeline == IF done = sets + 2
                  THEN [kind |-> "pipeline", kernel |-> n, attempt |-> Len(tries) + 1,
                        layout |-> layout, local |-> k.required]
                  ELSE IF done = sets + 1 THEN Null ELSE k.pipeline
      made == {layouts[s] : s \in 1..sets} \cup {layout, pipeline}
  IN  /\ done \in 0..(IF fits THEN sets + 2 ELSE sets)
      /\ kernels' = [kernels EXCEPT ![n] =
           [k EXCEPT !.layouts = layouts, !.pipelineLayout = layout,
                     !.pipeline = pipeline, !.built = (done = sets + 2),
                     !.local = IF done > sets THEN k.required ELSE @]]
      /\ objects' = objects \cup (made \ {Null})
      /\ tries' = Append(tries, [kernel |-> n, built |-> done = sets + 2])

\* Program::kernel.  An unknown name is refused, a built kernel handed out.
GetKernel(name) ==
  /\ Len(tries) < MaxAttempts
  /\ \E n \in Find(name), done \in 0..(MaxArgs + 2), left \in BOOLEAN :
       ~kernels[n].built /\ BuildPipeline(n, done, left)
  /\ UNCHANGED <<code, shader, launched>>

-----------------------------------------------------------------------------
(* A launch: record_into's checks and what it records.                      *)

\* Mutant of GroupCount: rounds down.
GroupCountDown(global, local) == IF global < local THEN 1 ELSE global \div local

GroupCount(global, local) == (global + local - 1) \div local

Fits(global, local) == global # 0 /\ GroupCount(global, local) <= MaxGroups

\* An argument is a Buffer or the bytes of a value.
Accepts(ka, la) ==
  IF ka.kind = "buffer" THEN la.kind = "buffer" /\ la.valid
  ELSE la.kind = "pod" /\ la.size = ka.size

Accepted(k, l) ==
  /\ Len(l.args) = Len(k.args)
  /\ \A n \in DOMAIN k.args : Accepts(k.args[n], l.args[n])
  /\ Cardinality({n \in DOMAIN k.args : k.args[n].kind = "buffer"}) <= MaxArgs
  /\ \A a \in 1..3 : Fits(l.grid[a], k.local[a])
  /\ Len(k.layouts) <= 8

Recorded(n, l) ==
  LET k == kernels[n]
      of(kind) == {m \in DOMAIN k.args : k.args[m].kind = kind}
  IN  [kernel |-> n, pipeline |-> k.pipeline, layout |-> k.pipelineLayout,
       bound |-> {<<k.args[m].set, k.args[m].binding>> : m \in of("buffer")},
       written |-> {<<k.args[m].offset, l.args[m].size>> : m \in of("pod")},
       pushed |-> k.push, grid |-> l.grid,
       groups |-> [a \in 1..3 |-> GroupCount(l.grid[a], k.local[a])]]

\* A Kernel handle is only handed out once its pipeline is built.
Launch(n) == /\ kernels[n].built
             /\ \E l \in Launches :
                  launched' = IF Accepted(kernels[n], l) THEN Recorded(n, l) ELSE Null
             /\ UNCHANGED <<code, kernels, shader, objects, tries>>

-----------------------------------------------------------------------------
(* ~ProgramImpl.                                                            *)

Held(k) == ({k.layouts[s] : s \in DOMAIN k.layouts} \cup {k.pipelineLayout, k.pipeline})
             \ {Null}
HeldByProgram == (UNION {Held(kernels[n]) : n \in DOMAIN kernels}) \cup ({shader} \ {Null})

\* Mutant of Destroy: the layouts are forgotten.
DestroyPipelines == /\ shader # Null
                    /\ objects' = objects \ {o \in HeldByProgram : o.kind # "layout"}
                    /\ kernels' = <<>> /\ shader' = Null /\ launched' = Null
                    /\ UNCHANGED <<code, tries>>

\* After it, no handle may be used: the lifetime contract.
Destroy == /\ shader # Null
           /\ objects' = objects \ HeldByProgram
           /\ kernels' = <<>> /\ shader' = Null /\ launched' = Null
           /\ UNCHANGED <<code, tries>>

ProgramNext == \/ Load
               \/ \E name \in Names : GetKernel(name)
               \/ \E n \in DOMAIN kernels : Launch(n)
               \/ Destroy

-----------------------------------------------------------------------------
(* What holds.                                                              *)

\* No object is lost but by a build that failed and was tried again: the
\* program holds every other one exactly once and destroys it, and it holds
\* none that does not exist (Program::~Program, build_pipeline).
OnlyFailedBuildsLeak ==
  /\ HeldByProgram \subseteq objects
  /\ \A o \in objects \ HeldByProgram :
       /\ o.kind # "shader" /\ ~tries[o.attempt].built
       /\ shader # Null => \E p \in (o.attempt + 1)..Len(tries) : tries[p].kernel = o.kernel
  /\ \A n \in DOMAIN kernels : kernels[n].built =>
       \A o \in Held(kernels[n]) : o.attempt = kernels[n].pipeline.attempt

\* A recorded dispatch is one the pipeline can take: every buffer has its
\* binding in the layout the pipeline was made with, every value lies in the
\* pushed block, the block is within the limit, and the groups cover the grid
\* without a spare group (record_into against build_pipeline).
LaunchesFit ==
  launched # Null =>
    LET d == launched k == kernels[d.kernel]
    IN  /\ d.pipeline \in objects /\ d.layout = d.pipeline.layout
        /\ d.layout.sets = k.layouts
        /\ \A b \in d.bound : b[2] \in d.layout.sets[b[1] + 1].bindings
        /\ \A w \in d.written : w[1] + w[2] <= d.pushed
        /\ d.pushed <= PushLimit /\ d.pushed = d.layout.push
        /\ \A a \in 1..3 :
             /\ d.groups[a] * d.pipeline.local[a] >= d.grid[a]
             /\ (d.groups[a] - 1) * d.pipeline.local[a] < d.grid[a]
        /\ \A i \in shader.code : code[i].op = "OpExtInst" =>
             \E j \in shader.code : code[j].op = "OpExtInstImport" /\ code[j].id = code[i].id
=============================================================================
