---------------------------- MODULE AlgorithmProofs ----------------------------
(***************************************************************************)
(* Proofs about the parts of Algorithms.  The first is Program, for any set  *)
(* of SPIR-V modules, launches and limits and any number of builds: the      *)
(* invariant says for which kernel and in which build every Vulkan object    *)
(* was made, who holds it, and what a pipeline that was built consists of.   *)
(* The second is Plan, for any shape, policy and number of layers: a logic   *)
(* of dispatches one after the other (Runs), and their count (Counts).  The  *)
(* third are the parts that only answer a question, from QuestionProofs.     *)
(* The last is Tokenizer: its symbols as a list, its queue with stale        *)
(* entries, and what the symbols and the tokens of a text stand for          *)
(* (Spelling, Gives).                                                        *)
(***************************************************************************)
EXTENDS Algorithms, QuestionProofs

ArgTypes == [kind : {"buffer"}, set : Nat, binding : Nat]
              \cup [kind : {"pod"}, offset : Nat, size : Nat]
Tries   == [kernel : Nat, built : BOOLEAN]
Objects == SetLayouts \cup PipelineLayouts \cup Pipelines

IsKernel(k) ==
  /\ k = [name |-> k.name, args |-> k.args, push |-> k.push, required |-> k.required,
          local |-> k.local, layouts |-> k.layouts, pipelineLayout |-> k.pipelineLayout,
          pipeline |-> k.pipeline, built |-> k.built]
  /\ k.built \in BOOLEAN

\* What reflection says of a kernel.
Described(k) ==
  /\ k.args \in Seq(ArgTypes) /\ k.push \in Nat /\ k.push = PushSize(k.args)
  /\ k.required \in [1..3 -> Nat \ {0}]

\* A pipeline that was built: everything in it is of one build and fits.
Whole(k) ==
  /\ k.push <= PushLimit /\ k.local = k.required
  /\ DOMAIN k.layouts = 1..SetCount(k.args)
  /\ \A s \in DOMAIN k.layouts : k.layouts[s].bindings = Bindings(k.args, s - 1)
  /\ k.pipeline \in Pipelines /\ k.pipelineLayout \in PipelineLayouts
  /\ k.pipeline.layout = k.pipelineLayout /\ k.pipeline.local = k.required
  /\ k.pipelineLayout.sets = k.layouts /\ k.pipelineLayout.push = k.push
  /\ \A o \in Held(k) : o.attempt = k.pipeline.attempt

KernelsInv ==
  /\ kernels = [n \in DOMAIN kernels |-> kernels[n]] /\ DOMAIN kernels \subseteq Nat
  /\ \A n \in DOMAIN kernels : /\ IsKernel(kernels[n]) /\ Described(kernels[n])
                               /\ kernels[n].built => Whole(kernels[n])

\* The constructor either returned, and the shader module is there, or not.
LoadedInv ==
  /\ SpirV(code) /\ tries \in Seq(Tries)
  /\ shader = Null => kernels = <<>> /\ launched = Null
  /\ shader # Null => /\ shader \in Shaders /\ shader \in objects
                      /\ shader = [kind |-> "shader", code |-> Stripped]

\* A program holds only what exists, each object for the kernel it was made for.
HoldsInv ==
  \A n \in DOMAIN kernels : \A o \in Held(kernels[n]) :
    /\ o \in objects /\ o \in Objects /\ o.kernel = n
    /\ o.attempt \in DOMAIN tries /\ tries[o.attempt].kernel = n

\* What it no longer holds is of a build that failed, and was tried again.
LostInv ==
  \A o \in objects \ HeldByProgram :
    /\ o \in Objects /\ o.attempt \in DOMAIN tries /\ ~tries[o.attempt].built
    /\ shader # Null => \E p \in (o.attempt + 1)..Len(tries) : tries[p].kernel = o.kernel

\* A kernel is built once.
BuiltInv ==
  shader # Null => \A t \in DOMAIN tries : /\ tries[t].kernel \in DOMAIN kernels
                                           /\ tries[t].built => kernels[tries[t].kernel].built

\* The last launch was recorded for a built kernel, as it still is.
LaunchedInv ==
  launched # Null => \E n \in DOMAIN kernels, l \in Launches :
    kernels[n].built /\ Accepted(kernels[n], l) /\ launched = Recorded(n, l)

PInv == KernelsInv /\ LoadedInv /\ HoldsInv /\ LostInv /\ BuiltInv /\ LaunchedInv

-----------------------------------------------------------------------------
(* What reflection yields.                                                  *)

LEMMA Values ==
  ASSUME SpirV(code), NEW id, IsValue(id)
  PROVE  /\ Value(id) \in Nat
         /\ \E j \in DOMAIN code : /\ code[j].op = "OpConstant" /\ code[j].id = id
                                   /\ Value(id) = code[j].value
<1> DEFINE S == Named("OpConstant", id)
<1>1. S \subseteq DOMAIN code /\ \A j \in S : code[j].op = "OpConstant" /\ code[j].id = id
  BY DEF Named
<1>2. S \in SUBSET Int /\ IsFiniteSet(S) /\ S # {}
  BY <1>1, FS_Subset DEF SpirV, IsValue
<1> HIDE DEF S
<1>3. Max(S) \in S
  BY <1>2, Greatest
<1>4. Value(id) = code[Max(S)].value
  BY DEF Value, S
<1>. QED
  BY <1>1, <1>3, <1>4 DEF SpirV

LEMMA SetsOfInstructions ==
  ASSUME SpirV(code), NEW S, S \subseteq DOMAIN code
  PROVE  S \in SUBSET Int /\ IsFiniteSet(S) /\ Cardinality(S) \in Nat
<1>1. IsFiniteSet(S)
  BY FS_Subset DEF SpirV
<1>. QED
  BY <1>1, FS_CardinalityType DEF SpirV

LEMMA Reflected ==
  ASSUME SpirV(code), Parses, NEW i \in Reflection, code[i].inst \in PerKernel
  PROVE  /\ i \in DOMAIN code /\ code[i].op = "OpExtInst" /\ code[i].words \in Seq(Nat)
         /\ \A n \in 2..4 : IsValue(code[i].words[n]) /\ Value(code[i].words[n]) \in Nat
         /\ code[i].inst # "ArgumentInfo" => Len(code[i].words) >= 4
<1>1. i \in DOMAIN code /\ code[i].op = "OpExtInst"
  BY DEF Reflection
<1>2. WellFormed(i)
  BY DEF Parses
<1>3. \A n \in 2..4 : IsValue(code[i].words[n])
  BY <1>2 DEF WellFormed
<1>4. code[i].words \in Seq(Nat)
  BY <1>1 DEF SpirV
<1>5. Len(code[i].words) >= 4
  BY <1>2 DEF WellFormed, Operands, PerKernel, ArgInst
<1>. QED
  BY <1>1, <1>3, <1>4, <1>5, Values

\* A kernel's arguments are a sequence, by ordinal.
LEMMA ArgsTyped ==
  ASSUME SpirV(code), Parses, NEW k \in KernelAt
  PROVE  Args(k) \in Seq(ArgTypes)
<1> DEFINE args == OfKernel(k, ArgInst)  c == Cardinality(args)
<1>1. args \subseteq Reflection /\ args \subseteq DOMAIN code /\ \A i \in args : code[i].inst \in ArgInst
  BY DEF OfKernel, Reflection
<1>2. c \in Nat
  BY <1>1, SetsOfInstructions
<1>3. {Ordinal(i) : i \in args} = 0..(c - 1)
  BY DEF Parses, Contiguous
<1>4. ASSUME NEW i \in args PROVE Arg(i) \in ArgTypes
  <2>1. \A n \in 2..4 : Value(code[i].words[n]) \in Nat
    BY <1>1, Reflected DEF PerKernel
  <2>2. Value(code[i].words[3]) \in Nat /\ Value(code[i].words[4]) \in Nat
    BY <2>1
  <2>. QED
    BY <2>2 DEF Arg, ArgTypes
<1>5. Args(k) = [n \in 1..c |-> Arg(CHOOSE i \in args : Ordinal(i) = n - 1)]
  BY DEF Args
<1> HIDE DEF args, c
<1>6. ASSUME NEW n \in 1..c PROVE Arg(CHOOSE i \in args : Ordinal(i) = n - 1) \in ArgTypes
  <2>1. n - 1 \in 0..(c - 1)
    BY <1>2
  <2>2. \E i \in args : Ordinal(i) = n - 1
    BY <1>3, <2>1
  <2>3. (CHOOSE i \in args : Ordinal(i) = n - 1) \in args
    BY <2>2
  <2>. QED
    BY <1>4, <2>3
<1>7. Args(k) \in [1..c -> ArgTypes]
  BY <1>5, <1>6
<1>. QED
  BY <1>2, <1>7

LEMMA SizeTyped ==
  ASSUME SpirV(code), Parses, NEW k \in KernelAt
  PROVE  LocalSize(k) \in [1..3 -> Nat \ {0}]
<1> DEFINE sizes == OfKernel(k, {"PropertyRequiredWorkgroupSize"})
<1>1. CASE sizes = {}
  <2>1. <<64, 1, 1>> \in [1..3 -> Nat \ {0}]
    OBVIOUS
  <2>. QED
    BY <1>1, <2>1 DEF LocalSize
<1>2. CASE sizes # {}
  <2>1. /\ sizes \subseteq Reflection /\ sizes \subseteq DOMAIN code
        /\ \A i \in sizes : code[i].inst = "PropertyRequiredWorkgroupSize"
    BY DEF OfKernel, Reflection
  <2> DEFINE i == Max(sizes)  w == code[i].words
  <2>2. LocalSize(k) = [a \in 1..3 |-> Value(w[a + 1])]
    BY <1>2 DEF LocalSize
  <2> HIDE DEF sizes
  <2>3. i \in sizes
    BY <1>2, <2>1, SetsOfInstructions, Greatest
  <2>4. /\ i \in DOMAIN code /\ code[i].op = "OpExtInst" /\ w \in Seq(Nat) /\ Len(w) >= 4
        /\ code[i].inst = "PropertyRequiredWorkgroupSize"
        /\ \A n \in 2..4 : IsValue(w[n])
    BY <2>1, <2>3, Reflected DEF PerKernel
  <2> HIDE DEF i
  <2>5. ASSUME NEW n \in 2..4 PROVE Value(w[n]) \in Nat \ {0}
    <3>1. n \in DOMAIN w /\ n > 1
      BY <2>4
    <3>2. PICK j \in DOMAIN code : /\ code[j].op = "OpConstant" /\ code[j].id = w[n]
                                   /\ Value(w[n]) = code[j].value /\ Value(w[n]) \in Nat
      BY <2>4, Values
    <3>. QED
      BY <2>4, <3>1, <3>2 DEF SpirV
  <2>6. \A a \in 1..3 : a + 1 \in 2..4
    OBVIOUS
  <2>7. \A a \in 1..3 : Value(w[a + 1]) \in Nat \ {0}
    BY <2>5, <2>6
  <2>. QED
    BY <2>2, <2>7
<1>. QED
  BY <1>1, <1>2

\* Every set number has a layout.
LEMMA SetsCounted ==
  ASSUME NEW args \in Seq(ArgTypes)
  PROVE  /\ SetCount(args) \in Nat
         /\ \A n \in DOMAIN args : args[n].kind = "buffer" => args[n].set + 1 \in 1..SetCount(args)
<1> DEFINE D == {m \in DOMAIN args : args[m].kind = "buffer"}
           f == [n \in D |-> args[n].set]
           S == {0} \cup {f[n] : n \in D}
<1>1. /\ Len(args) \in Nat /\ DOMAIN args = 1..Len(args)
      /\ \A n \in DOMAIN args : args[n] \in ArgTypes
  OBVIOUS
<1>2. D \in SUBSET (1..Len(args)) /\ \A n \in D : f[n] = args[n].set /\ f[n] \in Nat
  BY <1>1 DEF ArgTypes
<1>3. {0} \cup SetNumbers(args) = S
  BY DEF SetNumbers
<1>4. Max(S) \in Nat /\ \A n \in D : f[n] <= Max(S)
  <2> HIDE DEF D, f
  <2>. QED
    BY <1>1, <1>2, GreatestValue
<1> HIDE DEF S
<1>5. CASE args = <<>>
  BY <1>5 DEF SetCount
<1>6. CASE args # <<>>
  <2>1. SetCount(args) = Max(S) + 1
    BY <1>3, <1>6 DEF SetCount
  <2>2. SetCount(args) \in Nat
    BY <1>4, <2>1
  <2>3. ASSUME NEW n \in DOMAIN args, args[n].kind = "buffer"
        PROVE  args[n].set + 1 \in 1..SetCount(args)
    <3>1. n \in D /\ args[n].set \in Nat /\ args[n].set <= Max(S)
      BY <1>2, <1>4, <2>3
    <3>. QED
      BY <1>4, <2>1, <3>1
  <2>. QED
    BY <2>2, <2>3
<1>. QED
  BY <1>5, <1>6

\* The pushed block holds every value.
LEMMA ValuesPushed ==
  ASSUME NEW args \in Seq(ArgTypes)
  PROVE  /\ PushSize(args) \in Nat
         /\ \A n \in DOMAIN args : args[n].kind = "pod" => args[n].offset + args[n].size <= PushSize(args)
<1> DEFINE D == {m \in DOMAIN args : args[m].kind = "pod"}
           f == [n \in D |-> args[n].offset + args[n].size]
           S == {0} \cup {f[n] : n \in D}
<1>1. /\ Len(args) \in Nat /\ DOMAIN args = 1..Len(args)
      /\ \A n \in DOMAIN args : args[n] \in ArgTypes
  OBVIOUS
<1>2. D \in SUBSET (1..Len(args)) /\ \A n \in D : f[n] = args[n].offset + args[n].size /\ f[n] \in Nat
  <2>1. \A n \in D : args[n].offset \in Nat /\ args[n].size \in Nat
    BY <1>1 DEF ArgTypes
  <2>. QED
    BY <1>1, <2>1
<1>3. PushSize(args) = RoundUp4(Max(S))
  <2>1. S = {0} \cup {args[n].offset + args[n].size : n \in D}
    OBVIOUS
  <2>. QED
    BY <2>1 DEF PushSize
<1>4. Max(S) \in Nat /\ \A n \in D : f[n] <= Max(S)
  <2> HIDE DEF D, f
  <2>. QED
    BY <1>1, <1>2, GreatestValue
<1> HIDE DEF S
<1>5. RoundUp4(Max(S)) \in Nat /\ Max(S) <= RoundUp4(Max(S))
  BY <1>4 DEF RoundUp4
<1>6. ASSUME NEW n \in DOMAIN args, args[n].kind = "pod"
      PROVE  args[n].offset + args[n].size <= PushSize(args)
  <2>1. n \in D /\ f[n] = args[n].offset + args[n].size /\ f[n] \in Nat /\ f[n] <= Max(S)
    BY <1>2, <1>4, <1>6
  <2> HIDE DEF f
  <2>. QED
    BY <1>3, <1>4, <1>5, <2>1
<1>. QED
  BY <1>3, <1>5, <1>6

LEMMA Describes ==
  ASSUME SpirV(code), Parses, NEW k \in KernelAt
  PROVE  /\ IsKernel(KernelState(k)) /\ Described(KernelState(k))
         /\ ~KernelState(k).built /\ Held(KernelState(k)) = {}
<1>1. Args(k) \in Seq(ArgTypes) /\ PushSize(Args(k)) \in Nat /\ LocalSize(k) \in [1..3 -> Nat \ {0}]
  BY ArgsTyped, SizeTyped, ValuesPushed
<1>. QED
  BY <1>1 DEF KernelState, IsKernel, Described, Held

-----------------------------------------------------------------------------
(* A build.                                                                 *)

\* The kernel a build leaves.
Rebuilt(k, layouts, layout, pipeline, built, local) ==
  [k EXCEPT !.layouts = layouts, !.pipelineLayout = layout,
            !.pipeline = pipeline, !.built = built, !.local = local]

LEMMA Replaced ==
  ASSUME NEW k, IsKernel(k), NEW layouts, NEW layout, NEW pipeline, NEW built, NEW local
  PROVE  Rebuilt(k, layouts, layout, pipeline, built, local)
         = [name |-> k.name, args |-> k.args, push |-> k.push, required |-> k.required,
            local |-> local, layouts |-> layouts, pipelineLayout |-> layout,
            pipeline |-> pipeline, built |-> built]
<1> DEFINE name == k.name  args == k.args  push == k.push  required == k.required
           local0 == k.local  layouts0 == k.layouts  layout0 == k.pipelineLayout
           pipeline0 == k.pipeline  built0 == k.built
<1>1. k = [name |-> name, args |-> args, push |-> push, required |-> required,
           local |-> local0, layouts |-> layouts0, pipelineLayout |-> layout0,
           pipeline |-> pipeline0, built |-> built0]
  BY DEF IsKernel
<1> HIDE DEF name, args, push, required, local0, layouts0, layout0, pipeline0, built0
<1> DEFINE k1 == [k EXCEPT !.layouts = layouts]
           k2 == [k1 EXCEPT !.pipelineLayout = layout]
           k3 == [k2 EXCEPT !.pipeline = pipeline]
           k4 == [k3 EXCEPT !.built = built]
           k5 == [k4 EXCEPT !.local = local]
<1>2. Rebuilt(k, layouts, layout, pipeline, built, local) = k5
  BY DEF Rebuilt
<1>3. k1 = [name |-> name, args |-> args, push |-> push, required |-> required,
            local |-> local0, layouts |-> layouts, pipelineLayout |-> layout0,
            pipeline |-> pipeline0, built |-> built0]
  BY <1>1
<1> HIDE DEF k1
<1>4. k2 = [name |-> name, args |-> args, push |-> push, required |-> required,
            local |-> local0, layouts |-> layouts, pipelineLayout |-> layout,
            pipeline |-> pipeline0, built |-> built0]
  BY <1>3
<1> HIDE DEF k2
<1>5. k3 = [name |-> name, args |-> args, push |-> push, required |-> required,
            local |-> local0, layouts |-> layouts, pipelineLayout |-> layout,
            pipeline |-> pipeline, built |-> built0]
  BY <1>4
<1> HIDE DEF k3
<1>6. k4 = [name |-> name, args |-> args, push |-> push, required |-> required,
            local |-> local0, layouts |-> layouts, pipelineLayout |-> layout,
            pipeline |-> pipeline, built |-> built]
  BY <1>5
<1> HIDE DEF k4
<1>7. k5 = [name |-> name, args |-> args, push |-> push, required |-> required,
            local |-> local, layouts |-> layouts, pipelineLayout |-> layout,
            pipeline |-> pipeline, built |-> built]
  BY <1>6
<1>. QED
  BY <1>2, <1>7 DEF name, args, push, required, k1, k2, k3, k4

\* What a build of kernel n makes of it.
LEMMA Builds ==
  ASSUME KernelsInv, tries \in Seq(Tries), NEW n \in DOMAIN kernels, NEW done \in Nat,
         NEW left, BuildPipeline(n, done, left)
  PROVE  \E k :
           /\ kernels' = [kernels EXCEPT ![n] = k]
           /\ IsKernel(k) /\ Described(k) /\ (k.built => Whole(k))
           /\ objects' = objects \cup Held(k)
           /\ tries' = Append(tries, [kernel |-> n, built |-> k.built])
           /\ \A o \in Held(k) : \/ o \in Held(kernels[n]) /\ ~k.built
                                 \/ o \in Objects /\ o.kernel = n /\ o.attempt = Len(tries) + 1
<1> DEFINE k == kernels[n]
           now == Len(tries) + 1
           sets == SetCount(k.args)
           fits == k.push <= PushLimit
           old(s) == IF s \in DOMAIN k.layouts THEN k.layouts[s] ELSE Null
           layouts == [s \in 1..sets |-> IF s <= done THEN SetLayout(n, s - 1)
                                         ELSE IF s = done + 1 /\ ~left THEN Null ELSE old(s)]
           layout == IF done > sets
                     THEN [kind |-> "layout", kernel |-> n, attempt |-> now,
                           sets |-> layouts, push |-> k.push]
                     ELSE IF done = sets /\ fits /\ ~left THEN Null ELSE k.pipelineLayout
           pipeline == IF done = sets + 2
                       THEN [kind |-> "pipeline", kernel |-> n, attempt |-> now,
                             layout |-> layout, local |-> k.required]
                       ELSE IF done = sets + 1 THEN Null ELSE k.pipeline
           made == {layouts[s] : s \in 1..sets} \cup {layout, pipeline}
           built == done = sets + 2
           local == IF done > sets THEN k.required ELSE k.local
           b == Rebuilt(k, layouts, layout, pipeline, built, local)
<1>1. /\ done \in 0..(IF fits THEN sets + 2 ELSE sets)
      /\ kernels' = [kernels EXCEPT ![n] = b]
      /\ objects' = objects \cup (made \ {Null})
      /\ tries' = Append(tries, [kernel |-> n, built |-> built])
  BY DEF BuildPipeline, Rebuilt
<1>2. /\ IsKernel(k) /\ Described(k) /\ n \in Nat /\ now \in Nat
      /\ k.args \in Seq(ArgTypes) /\ k.push \in Nat /\ k.required \in [1..3 -> Nat \ {0}]
  BY DEF KernelsInv, Described
<1>3. sets \in Nat
  BY <1>2, SetsCounted
<1>4. \A s \in 1..sets : SetLayout(n, s - 1) \in SetLayouts /\ SetLayout(n, s - 1).kernel = n
                         /\ SetLayout(n, s - 1).attempt = now
                         /\ SetLayout(n, s - 1).bindings = Bindings(k.args, s - 1)
  <2>1. ASSUME NEW s \in Nat PROVE Bindings(k.args, s) \subseteq Nat
    <3>1. \A m \in DOMAIN k.args : k.args[m] \in ArgTypes
      BY <1>2
    <3>2. \A m \in DOMAIN k.args : k.args[m].kind = "buffer" => k.args[m].binding \in Nat
      BY <3>1 DEF ArgTypes
    <3>. QED
      BY <3>2 DEF Bindings
  <2>2. \A s \in 1..sets : s - 1 \in Nat
    BY <1>3
  <2> HIDE DEF sets
  <2>. QED
    BY <1>2, <2>1, <2>2 DEF SetLayout, SetLayouts
<1> HIDE DEF sets, now
<1>5. /\ DOMAIN layouts = 1..sets
      /\ \A s \in 1..sets : \/ layouts[s] = SetLayout(n, s - 1)
                            \/ layouts[s] = Null /\ ~(s <= done)
                            \/ (layouts[s] \in {k.layouts[t] : t \in DOMAIN k.layouts}) /\ ~(s <= done)
  OBVIOUS
<1>6. done > sets => /\ \A s \in 1..sets : layouts[s] = SetLayout(n, s - 1)
                     /\ layouts \in Seq(SetLayouts) /\ fits
  <2> SUFFICES ASSUME done > sets
               PROVE  /\ \A s \in 1..sets : layouts[s] = SetLayout(n, s - 1)
                      /\ layouts \in Seq(SetLayouts) /\ fits
    OBVIOUS
  <2>1. \A s \in 1..sets : s <= done
    BY <1>3
  <2>2. \A s \in 1..sets : layouts[s] = SetLayout(n, s - 1)
    BY <2>1
  <2>3. layouts \in [1..sets -> SetLayouts]
    BY <1>4, <2>2
  <2>4. fits
    BY <1>1, <1>3
  <2>5. layouts \in Seq(SetLayouts)
    BY <1>3, <2>3
  <2>. QED
    BY <2>2, <2>4, <2>5
<1> HIDE DEF layouts
<1>7. /\ done > sets => layout \in PipelineLayouts /\ layout.kernel = n /\ layout.attempt = now
                        /\ layout.sets = layouts /\ layout.push = k.push
      /\ done <= sets => layout = Null \/ layout = k.pipelineLayout
  BY <1>2, <1>3, <1>6 DEF PipelineLayouts
<1> HIDE DEF layout
<1>8. /\ built => pipeline \in Pipelines /\ pipeline.kernel = n /\ pipeline.attempt = now
                  /\ pipeline.layout = layout /\ pipeline.local = k.required
      /\ ~built => pipeline = Null \/ pipeline = k.pipeline
  <2>1. k.required \in [1..3 -> Nat]
    BY <1>2
  <2>. QED
    BY <1>2, <1>3, <1>7, <2>1 DEF Pipelines
<1> HIDE DEF pipeline
<1>9. built \in BOOLEAN
  OBVIOUS
<1>10. built => done > sets
  BY <1>3
<1> HIDE DEF built, local, k
<1>11. b = [name |-> k.name, args |-> k.args, push |-> k.push, required |-> k.required,
            local |-> local, layouts |-> layouts, pipelineLayout |-> layout,
            pipeline |-> pipeline, built |-> built]
  <2>1. IsKernel(k)
    BY <1>2
  <2>. QED
    BY <2>1, Replaced
<1> HIDE DEF b
<1>12. IsKernel(b) /\ Described(b)
  BY <1>2, <1>9, <1>11 DEF IsKernel, Described
<1>13. Held(b) = made \ {Null}
  BY <1>5, <1>11 DEF Held
<1>14. ASSUME NEW o \in Held(b)
       PROVE  \/ o \in Held(k) /\ ~built
              \/ o \in Objects /\ o.kernel = n /\ o.attempt = now
  <2>1. o # Null /\ (o = layout \/ o = pipeline \/ \E s \in 1..sets : o = layouts[s])
    BY <1>13
  <2>2. CASE o = layout
    BY <1>3, <1>7, <1>10, <2>1, <2>2 DEF Objects, Held
  <2>3. CASE o = pipeline
    BY <1>8, <2>1, <2>3 DEF Objects, Held
  <2>4. ASSUME NEW s \in 1..sets, o = layouts[s]
        PROVE  \/ o \in Held(k) /\ ~built
               \/ o \in Objects /\ o.kernel = n /\ o.attempt = now
    <3>1. CASE layouts[s] = SetLayout(n, s - 1)
      BY <1>4, <2>4, <3>1 DEF Objects
    <3>2. CASE layouts[s] # SetLayout(n, s - 1)
      <4>1. o \in {k.layouts[t] : t \in DOMAIN k.layouts}
        BY <1>5, <2>1, <2>4, <3>2
      <4>2. ~built
        BY <1>6, <1>10, <3>2
      <4>. QED
        BY <2>1, <4>1, <4>2 DEF Held
    <3>. QED
      BY <3>1, <3>2
  <2>. QED
    BY <2>1, <2>2, <2>3, <2>4
<1>15. built => Whole(b)
  <2> SUFFICES ASSUME built PROVE Whole(b)
    OBVIOUS
  <2>1. done > sets
    BY <1>10
  <2>2. /\ b.push <= PushLimit /\ b.local = b.required
        /\ DOMAIN b.layouts = 1..SetCount(b.args)
        /\ \A s \in DOMAIN b.layouts : b.layouts[s].bindings = Bindings(b.args, s - 1)
    BY <1>4, <1>5, <1>6, <1>11, <2>1 DEF local, sets
  <2>3. /\ b.pipeline \in Pipelines /\ b.pipelineLayout \in PipelineLayouts
        /\ b.pipeline.layout = b.pipelineLayout /\ b.pipeline.local = b.required
        /\ b.pipelineLayout.sets = b.layouts /\ b.pipelineLayout.push = b.push
        /\ b.pipeline.attempt = now
    BY <1>7, <1>8, <1>11, <2>1
  <2>4. \A o \in Held(b) : o.attempt = b.pipeline.attempt
    BY <1>14, <2>3
  <2>. QED
    BY <2>2, <2>3, <2>4 DEF Whole
<1>16. b.built = built /\ kernels'[n] = b
  BY <1>1, <1>11 DEF KernelsInv
<1>. QED
  BY <1>1, <1>12, <1>13, <1>14, <1>15, <1>16 DEF k, now

-----------------------------------------------------------------------------
(* The steps.                                                               *)

LEMMA InitP == Init => PInv
<1>. SUFFICES ASSUME Init PROVE PInv
  OBVIOUS
<1>1. /\ SpirV(code) /\ kernels = <<>> /\ shader = Null /\ objects = {}
      /\ tries = <<>> /\ launched = Null
  <2>1. ASSUME code = <<>> PROVE SpirV(code)
    <3>1. DOMAIN code = {}
      BY <2>1
    <3>. QED
      BY <3>1, FS_EmptySet DEF SpirV
  <2>. QED
    BY <2>1, ProgramAssumption DEF Init, ProgramInit, ProgramRests
<1>2. DOMAIN kernels = {}
  BY <1>1
<1>3. KernelsInv
  BY <1>1, <1>2 DEF KernelsInv
<1>4. LoadedInv /\ LostInv /\ BuiltInv /\ LaunchedInv
  BY <1>1 DEF LoadedInv, LostInv, BuiltInv, LaunchedInv
<1>5. HoldsInv
  BY <1>2 DEF HoldsInv
<1>. QED
  BY <1>3, <1>4, <1>5 DEF PInv

LEMMA LoadP == ASSUME PInv, Load PROVE PInv'
<1>1. /\ SpirV(code) /\ Parses /\ tries = <<>> /\ shader = Null /\ launched = Null
      /\ code' = code /\ tries' = tries /\ launched' = launched /\ objects' = {shader'}
      /\ shader' = [kind |-> "shader", code |-> Stripped]
      /\ kernels' = [n \in DOMAIN InOrder |-> KernelState(InOrder[n])]
  BY DEF Load, PInv, LoadedInv
<1>2. shader' \in Shaders /\ shader' # Null
  <2>1. Stripped \in SUBSET Nat
    BY <1>1 DEF Stripped, SpirV
  <2>2. shader' \in Shaders
    BY <1>1, <2>1 DEF Shaders
  <2>. QED
    BY <2>2, ProgramAssumption
<1> DEFINE c == Cardinality(KernelAt)
<1>3. DOMAIN InOrder = 1..c /\ c \in Nat
  <2>1. KernelAt \subseteq DOMAIN code
    BY DEF KernelAt, Reflection
  <2>. QED
    BY <1>1, <2>1, SetsOfInstructions DEF InOrder
<1>4. ASSUME NEW n \in 1..c PROVE InOrder[n] \in KernelAt
  <2>1. KernelAt \subseteq DOMAIN code
    BY DEF KernelAt, Reflection
  <2>2. KernelAt \in SUBSET Int /\ IsFiniteSet(KernelAt)
    BY <1>1, <2>1, SetsOfInstructions
  <2>3. \E k \in KernelAt : Cardinality({j \in KernelAt : j <= k}) = n
    BY <2>2, Ranked
  <2>. QED
    BY <2>3 DEF InOrder
<1>5. ASSUME NEW n \in DOMAIN kernels'
      PROVE  /\ n \in Nat /\ IsKernel(kernels'[n]) /\ Described(kernels'[n])
             /\ ~kernels'[n].built /\ Held(kernels'[n]) = {}
  <2>1. n \in 1..c /\ kernels'[n] = KernelState(InOrder[n])
    BY <1>1, <1>3, <1>5
  <2>2. InOrder[n] \in KernelAt
    BY <1>4, <2>1
  <2>. QED
    BY <1>1, <1>3, <2>1, <2>2, Describes
<1>6. kernels' = [n \in DOMAIN kernels' |-> kernels'[n]]
  BY <1>1
<1>7. KernelsInv'
  BY <1>5, <1>6 DEF KernelsInv
<1>8. LoadedInv'
  <2>1. Stripped' = Stripped /\ SpirV(code)'
    BY <1>1 DEF Stripped, Dropped, Imports
  <2>. QED
    BY <1>1, <1>2, <2>1 DEF LoadedInv
<1>9. HoldsInv'
  BY <1>5 DEF HoldsInv
<1>10. LostInv'
  BY <1>1, <1>2 DEF LostInv, HeldByProgram
<1>11. BuiltInv' /\ LaunchedInv'
  BY <1>1 DEF BuiltInv, LaunchedInv
<1>. QED
  BY <1>7, <1>8, <1>9, <1>10, <1>11 DEF PInv

LEMMA GetKernelP == ASSUME PInv, NEW name \in Names, GetKernel(name) PROVE PInv'
<1>1. PICK n \in Find(name), done \in 0..(MaxArgs + 2), left \in BOOLEAN :
        ~kernels[n].built /\ BuildPipeline(n, done, left)
  BY DEF GetKernel
<1>2. n \in DOMAIN kernels /\ done \in Nat /\ ~kernels[n].built
  BY <1>1, ProgramAssumption DEF Find
<1>3. code' = code /\ shader' = shader /\ launched' = launched
  BY DEF GetKernel
<1>4. /\ kernels = [m \in DOMAIN kernels |-> kernels[m]] /\ DOMAIN kernels \subseteq Nat
      /\ \A m \in DOMAIN kernels : /\ IsKernel(kernels[m]) /\ Described(kernels[m])
                                   /\ kernels[m].built => Whole(kernels[m])
      /\ SpirV(code) /\ tries \in Seq(Tries)
  BY DEF PInv, KernelsInv, LoadedInv
<1>5. shader # Null
  BY <1>2 DEF PInv, LoadedInv
<1>6. PICK k :
        /\ kernels' = [kernels EXCEPT ![n] = k]
        /\ IsKernel(k) /\ Described(k) /\ (k.built => Whole(k))
        /\ objects' = objects \cup Held(k)
        /\ tries' = Append(tries, [kernel |-> n, built |-> k.built])
        /\ \A o \in Held(k) : \/ o \in Held(kernels[n]) /\ ~k.built
                              \/ o \in Objects /\ o.kernel = n /\ o.attempt = Len(tries) + 1
  <2>1. KernelsInv /\ BuildPipeline(n, done, left)
    BY <1>1 DEF PInv
  <2>. QED
    BY <1>2, <1>4, <2>1, Builds, Zenon
<1>7. /\ DOMAIN kernels' = DOMAIN kernels /\ kernels'[n] = k
      /\ kernels' = [m \in DOMAIN kernels' |-> kernels'[m]]
      /\ \A m \in DOMAIN kernels \ {n} : kernels'[m] = kernels[m]
  BY <1>2, <1>4, <1>6
<1>8. /\ Len(tries) \in Nat /\ Len(tries') = Len(tries) + 1 /\ DOMAIN tries = 1..Len(tries)
      /\ tries' \in Seq(Tries) /\ DOMAIN tries' = 1..Len(tries')
      /\ \A t \in DOMAIN tries : t \in DOMAIN tries' /\ tries'[t] = tries[t]
      /\ tries'[Len(tries')] = [kernel |-> n, built |-> k.built]
      /\ \A t \in DOMAIN tries : t \in Nat
  <2>1. [kernel |-> n, built |-> k.built] \in Tries
    BY <1>2, <1>4, <1>6 DEF IsKernel, Tries
  <2> DEFINE t0 == [kernel |-> n, built |-> k.built]
  <2> HIDE DEF t0
  <2>2. tries' = Append(tries, t0) /\ t0 \in Tries
    BY <1>6, <2>1 DEF t0
  <2>3. /\ Len(tries) \in Nat /\ Len(tries') = Len(tries) + 1 /\ DOMAIN tries = 1..Len(tries)
        /\ tries' \in Seq(Tries) /\ DOMAIN tries' = 1..Len(tries')
        /\ \A t \in 1..Len(tries) : tries'[t] = tries[t]
        /\ tries'[Len(tries')] = t0
    BY <1>4, <2>2
  <2>. QED
    BY <2>3 DEF t0
<1>9. KernelsInv'
  <2>1. ASSUME NEW m \in DOMAIN kernels'
        PROVE  /\ IsKernel(kernels'[m]) /\ Described(kernels'[m])
               /\ kernels'[m].built => Whole(kernels'[m])
    BY <1>4, <1>6, <1>7
  <2>2. DOMAIN kernels' \subseteq Nat
    BY <1>4, <1>7
  <2>. QED
    BY <1>7, <2>1, <2>2 DEF KernelsInv
<1>10. LoadedInv'
  <2>1. Stripped' = Stripped /\ SpirV(code)'
    BY <1>3, <1>4 DEF Stripped, Dropped, Imports
  <2>. QED
    BY <1>3, <1>5, <1>6, <1>8, <2>1 DEF LoadedInv, PInv
<1>11. HoldsInv'
  <2>1. ASSUME NEW m \in DOMAIN kernels', NEW o \in Held(kernels'[m])
        PROVE  /\ o \in objects' /\ o \in Objects /\ o.kernel = m
               /\ o.attempt \in DOMAIN tries' /\ tries'[o.attempt].kernel = m
    <3>1. CASE o \in Held(kernels[m])
      <4>1. /\ o \in objects /\ o \in Objects /\ o.kernel = m
            /\ o.attempt \in DOMAIN tries /\ tries[o.attempt].kernel = m
        BY <1>7, <2>1, <3>1 DEF PInv, HoldsInv
      <4>. QED
        BY <1>6, <1>8, <4>1
    <3>2. CASE o \notin Held(kernels[m])
      <4>1. m = n /\ o \in Held(k)
        BY <1>7, <2>1, <3>2
      <4>2. o \in Objects /\ o.kernel = n /\ o.attempt = Len(tries')
        BY <1>6, <1>8, <3>2, <4>1
      <4>3. Len(tries') \in DOMAIN tries' /\ tries'[Len(tries')].kernel = n
        BY <1>8
      <4>. QED
        BY <1>6, <4>1, <4>2, <4>3
    <3>. QED
      BY <3>1, <3>2
  <2>. QED
    BY <2>1 DEF HoldsInv
<1>12. LostInv'
  <2>1. ASSUME NEW o \in objects', o \notin HeldByProgram'
        PROVE  /\ o \in Objects /\ o.attempt \in DOMAIN tries' /\ ~tries'[o.attempt].built
               /\ \E p \in (o.attempt + 1)..Len(tries') : tries'[p].kernel = o.kernel
    <3>1. \A m \in DOMAIN kernels : o \notin Held(kernels'[m])
      BY <1>7, <2>1 DEF HeldByProgram
    <3>2. o \in objects /\ o \notin Held(k) /\ (o # shader)
      BY <1>2, <1>3, <1>5, <1>6, <1>7, <2>1, <3>1 DEF HeldByProgram
    <3>3. CASE o \in HeldByProgram
      <4>1. PICK m \in DOMAIN kernels : o \in Held(kernels[m])
        BY <3>2, <3>3 DEF HeldByProgram
      <4>2. m = n
        BY <1>7, <3>1, <4>1
      <4>3. /\ o \in Objects /\ o.kernel = n /\ o.attempt \in DOMAIN tries
            /\ tries[o.attempt].kernel = n
        BY <1>2, <4>1, <4>2 DEF PInv, HoldsInv
      <4>4. ~tries[o.attempt].built
        BY <1>2, <1>5, <4>3 DEF PInv, BuiltInv
      <4>5. o.attempt \in 1..Len(tries) /\ tries'[o.attempt] = tries[o.attempt]
            /\ o.attempt \in DOMAIN tries'
        BY <1>8, <4>3
      <4>6. Len(tries') \in (o.attempt + 1)..Len(tries') /\ tries'[Len(tries')].kernel = o.kernel
        BY <1>8, <4>3, <4>5
      <4>. QED
        BY <4>3, <4>4, <4>5, <4>6
    <3>4. CASE o \notin HeldByProgram
      <4>1. /\ o \in Objects /\ o.attempt \in DOMAIN tries /\ ~tries[o.attempt].built
            /\ \E p \in (o.attempt + 1)..Len(tries) : tries[p].kernel = o.kernel
        BY <1>5, <3>2, <3>4 DEF PInv, LostInv
      <4>2. PICK p \in (o.attempt + 1)..Len(tries) : tries[p].kernel = o.kernel
        BY <4>1
      <4>3. o.attempt \in 1..Len(tries) /\ p \in 1..Len(tries) /\ p \in (o.attempt + 1)..Len(tries')
        BY <1>8, <4>1, <4>2
      <4>4. tries'[o.attempt] = tries[o.attempt] /\ tries'[p] = tries[p] /\ o.attempt \in DOMAIN tries'
        BY <1>8, <4>3
      <4>. QED
        BY <4>1, <4>2, <4>3, <4>4
    <3>. QED
      BY <3>3, <3>4
  <2>. QED
    BY <2>1 DEF LostInv
<1>13. BuiltInv'
  <2>1. ASSUME NEW t \in DOMAIN tries'
        PROVE  /\ tries'[t].kernel \in DOMAIN kernels'
               /\ tries'[t].built => kernels'[tries'[t].kernel].built
    <3>1. CASE t \in DOMAIN tries
      <4>1. /\ tries'[t] = tries[t] /\ tries[t].kernel \in DOMAIN kernels
            /\ tries[t].built => kernels[tries[t].kernel].built
        BY <1>5, <1>8, <3>1 DEF PInv, BuiltInv
      <4>. QED
        BY <1>2, <1>7, <4>1
    <3>2. CASE t \notin DOMAIN tries
      <4>1. t = Len(tries')
        BY <1>8, <3>2
      <4>2. tries'[t].kernel = n /\ tries'[t].built = k.built
        BY <1>8, <4>1
      <4>. QED
        BY <1>2, <1>7, <4>2
    <3>. QED
      BY <3>1, <3>2
  <2>. QED
    BY <2>1 DEF BuiltInv
<1>14. LaunchedInv'
  <2> SUFFICES ASSUME launched' # Null
               PROVE  \E m \in DOMAIN kernels', l \in Launches :
                        /\ kernels'[m].built /\ Accepted(kernels'[m], l)
                        /\ launched' = Recorded(m, l)'
    BY DEF LaunchedInv
  <2>1. PICK m \in DOMAIN kernels, l \in Launches :
          kernels[m].built /\ Accepted(kernels[m], l) /\ launched = Recorded(m, l)
    BY <1>3 DEF PInv, LaunchedInv
  <2>2. m # n /\ kernels'[m] = kernels[m]
    BY <1>2, <1>7, <2>1
  <2>3. Recorded(m, l)' = Recorded(m, l)
    BY <2>2 DEF Recorded
  <2>. QED
    BY <1>3, <1>7, <2>1, <2>2, <2>3
<1>. QED
  BY <1>9, <1>10, <1>11, <1>12, <1>13, <1>14 DEF PInv

LEMMA LaunchP == ASSUME PInv, NEW n \in DOMAIN kernels, Launch(n) PROVE PInv'
<1>1. PICK l \in Launches :
        launched' = IF Accepted(kernels[n], l) THEN Recorded(n, l) ELSE Null
  BY DEF Launch
<1>2. /\ code' = code /\ kernels' = kernels /\ shader' = shader /\ objects' = objects
      /\ tries' = tries /\ kernels[n].built
  BY DEF Launch
<1>3. shader # Null
  BY DEF PInv, LoadedInv
<1>4. KernelsInv' /\ HoldsInv' /\ BuiltInv'
  BY <1>2 DEF PInv, KernelsInv, HoldsInv, BuiltInv
<1>5. LoadedInv'
  <2>1. Stripped' = Stripped /\ SpirV(code)'
    BY <1>2 DEF Stripped, Dropped, Imports, PInv, LoadedInv
  <2>. QED
    BY <1>2, <1>3, <2>1 DEF PInv, LoadedInv
<1>6. LostInv'
  BY <1>2 DEF PInv, LostInv, HeldByProgram
<1>7. LaunchedInv'
  <2>1. Recorded(n, l)' = Recorded(n, l)
    BY <1>2 DEF Recorded
  <2>. QED
    BY <1>1, <1>2, <2>1 DEF LaunchedInv
<1>. QED
  BY <1>4, <1>5, <1>6, <1>7 DEF PInv

LEMMA DestroyP == ASSUME PInv, Destroy PROVE PInv'
<1>1. /\ code' = code /\ kernels' = <<>> /\ shader' = Null /\ launched' = Null
      /\ tries' = tries /\ objects' = objects \ HeldByProgram
  BY DEF Destroy
<1>2. DOMAIN kernels' = {}
  BY <1>1
<1>3. KernelsInv' /\ HoldsInv' /\ BuiltInv' /\ LaunchedInv'
  BY <1>1, <1>2 DEF KernelsInv, HoldsInv, BuiltInv, LaunchedInv
<1>4. LoadedInv'
  BY <1>1 DEF PInv, LoadedInv
<1>5. LostInv'
  BY <1>1 DEF PInv, LostInv
<1>. QED
  BY <1>3, <1>4, <1>5 DEF PInv

LEMMA StepP == PInv /\ [Next]_avars => PInv'
<1>. SUFFICES ASSUME PInv, [Next]_avars PROVE PInv'
  OBVIOUS
<1>1. CASE Load
  BY <1>1, LoadP
<1>2. ASSUME NEW name \in Names, GetKernel(name) PROVE PInv'
  BY <1>2, GetKernelP
<1>3. ASSUME NEW n \in DOMAIN kernels, Launch(n) PROVE PInv'
  BY <1>3, LaunchP
<1>4. CASE Destroy
  BY <1>4, DestroyP
<1>5. CASE UNCHANGED pvars
  <2>. USE <1>5 DEF pvars
  <2>1. KernelsInv' /\ HoldsInv' /\ BuiltInv'
    BY DEF PInv, KernelsInv, HoldsInv, BuiltInv
  <2>2. LoadedInv'
    <3>1. Stripped' = Stripped /\ SpirV(code)'
      BY DEF Stripped, Dropped, Imports, PInv, LoadedInv
    <3>. QED
      BY <3>1 DEF PInv, LoadedInv
  <2>3. LostInv'
    BY DEF PInv, LostInv, HeldByProgram
  <2>4. LaunchedInv'
    <3>1. ASSUME NEW n, NEW l PROVE Recorded(n, l)' = Recorded(n, l)
      BY DEF Recorded
    <3>. QED
      BY <3>1 DEF PInv, LaunchedInv
  <2>. QED
    BY <2>1, <2>2, <2>3, <2>4 DEF PInv
<1>. QED
  BY <1>1, <1>2, <1>3, <1>4, <1>5 DEF Next, ProgramNext, avars, pvars

\* Every state satisfies the invariant.
THEOREM ProgramInductive == Spec => []PInv
<1>1. Init => PInv
  BY InitP
<1>2. PInv /\ [Next]_avars => PInv'
  BY StepP
<1>. QED
  BY <1>1, <1>2, PTL DEF Spec

-----------------------------------------------------------------------------
(* What follows.                                                            *)

\* No Vulkan object is lost but by a build that failed and was tried again, of
\* any number of kernels and builds (OnlyFailedBuildsLeak): build_pipeline and
\* ~ProgramImpl.
THEOREM OnlyFailedBuildsLost == Spec => []OnlyFailedBuildsLeak
<1>1. PInv => OnlyFailedBuildsLeak
  <2>. SUFFICES ASSUME PInv PROVE OnlyFailedBuildsLeak
    OBVIOUS
  <2>1. HeldByProgram \subseteq objects
    BY DEF HeldByProgram, PInv, HoldsInv, LoadedInv
  <2>2. ASSUME NEW o \in Objects PROVE o.kind # "shader"
    BY DEF Objects, SetLayouts, PipelineLayouts, Pipelines
  <2>3. \A o \in objects \ HeldByProgram :
          /\ o.kind # "shader" /\ ~tries[o.attempt].built
          /\ shader # Null => \E p \in (o.attempt + 1)..Len(tries) : tries[p].kernel = o.kernel
    BY <2>2 DEF PInv, LostInv
  <2>4. \A n \in DOMAIN kernels : kernels[n].built =>
          \A o \in Held(kernels[n]) : o.attempt = kernels[n].pipeline.attempt
    BY DEF PInv, KernelsInv, Whole
  <2>. QED
    BY <2>1, <2>3, <2>4 DEF OnlyFailedBuildsLeak
<1>2. Spec => []PInv
  BY ProgramInductive
<1>. QED
  BY <1>1, <1>2, PTL

\* Rounding up: groups of that size cover the grid, one group less does not.
LEMMA GroupsCover ==
  ASSUME NEW g \in Nat, NEW l \in Nat \ {0}
  PROVE  GroupCount(g, l) * l >= g /\ (GroupCount(g, l) - 1) * l < g
<1> DEFINE c == (g + l - 1) \div l
<1>1. g + l - 1 \in Nat
  OBVIOUS
<1>2. c \in Int /\ g + l - 1 = l * c + ((g + l - 1) % l) /\ (g + l - 1) % l \in 0..(l - 1)
  BY <1>1
<1> HIDE DEF c
<1>3. /\ l * c \in Int /\ c * l = l * c /\ (c - 1) * l = l * c - l
  BY <1>2
<1>4. c * l >= g /\ (c - 1) * l < g
  BY <1>2, <1>3
<1>. QED
  BY <1>4 DEF GroupCount, c

\* Every dispatch that is recorded is one its pipeline can take, for any module,
\* arguments and grid (LaunchesFit): record_into's checks are enough.
THEOREM EveryLaunchFits == Spec => []LaunchesFit
<1>1. PInv => LaunchesFit
  <2>. SUFFICES ASSUME PInv, launched # Null PROVE LaunchesFit
    BY DEF LaunchesFit
  <2>1. PICK n \in DOMAIN kernels, l \in Launches :
          kernels[n].built /\ Accepted(kernels[n], l) /\ launched = Recorded(n, l)
    BY DEF PInv, LaunchedInv
  <2> DEFINE k == kernels[n]  d == launched
  <2>2. /\ Described(k) /\ Whole(k)
        /\ k.args \in Seq(ArgTypes) /\ k.push = PushSize(k.args) /\ k.push <= PushLimit
        /\ k.local = k.required /\ k.required \in [1..3 -> Nat \ {0}]
    BY <2>1 DEF PInv, KernelsInv, Described, Whole
  <2>3. /\ d.kernel = n /\ d.pipeline = k.pipeline /\ d.layout = k.pipelineLayout
        /\ d.pushed = k.push /\ d.grid = l.grid
        /\ d.bound = {<<k.args[m].set, k.args[m].binding>> :
                         m \in {i \in DOMAIN k.args : k.args[i].kind = "buffer"}}
        /\ d.written = {<<k.args[m].offset, l.args[m].size>> :
                           m \in {i \in DOMAIN k.args : k.args[i].kind = "pod"}}
        /\ d.groups = [a \in 1..3 |-> GroupCount(l.grid[a], k.local[a])]
    BY <2>1 DEF Recorded
  <2>4. d.pipeline \in objects
    <3>1. k.pipeline \in Pipelines
      BY <2>2 DEF Whole
    <3>2. k.pipeline # Null
      BY <3>1, ProgramAssumption
    <3>3. k.pipeline \in Held(k)
      BY <3>2 DEF Held
    <3>. QED
      BY <2>3, <3>3 DEF PInv, HoldsInv
  <2>5. /\ d.layout = d.pipeline.layout /\ d.layout.sets = k.layouts
        /\ d.pushed <= PushLimit /\ d.pushed = d.layout.push
    BY <2>2, <2>3 DEF Whole
  <2>6. ASSUME NEW b \in d.bound PROVE b[2] \in d.layout.sets[b[1] + 1].bindings
    <3>1. PICK m \in DOMAIN k.args : k.args[m].kind = "buffer" /\ b = <<k.args[m].set, k.args[m].binding>>
      BY <2>3
    <3>2. k.args[m].set \in Nat
      BY <2>2, <3>1 DEF ArgTypes
    <3>3. k.args[m].set + 1 \in 1..SetCount(k.args)
      BY <2>2, <3>1, SetsCounted
    <3>4. \A s \in 1..SetCount(k.args) : d.layout.sets[s].bindings = Bindings(k.args, s - 1)
      <4>1. \A s \in 1..SetCount(k.args) : k.layouts[s].bindings = Bindings(k.args, s - 1)
        BY <2>2 DEF Whole
      <4>. QED
        BY <2>5, <4>1
    <3> DEFINE s == k.args[m].set + 1
    <3>5. s \in 1..SetCount(k.args) /\ s - 1 = k.args[m].set /\ b[1] + 1 = s
      BY <3>1, <3>2, <3>3
    <3> HIDE DEF s
    <3>6. k.args[m].binding \in Bindings(k.args, s - 1)
      BY <3>1, <3>5 DEF Bindings
    <3>. QED
      BY <3>1, <3>4, <3>5, <3>6
  <2>7. ASSUME NEW w \in d.written PROVE w[1] + w[2] <= d.pushed
    <3>1. PICK m \in DOMAIN k.args : k.args[m].kind = "pod" /\ w = <<k.args[m].offset, l.args[m].size>>
      BY <2>3
    <3>2. l.args[m].size = k.args[m].size
      BY <2>1, <3>1 DEF Accepted, Accepts
    <3>3. k.args[m].offset + k.args[m].size <= PushSize(k.args)
      BY <2>2, <3>1, ValuesPushed
    <3>. QED
      BY <2>2, <2>3, <3>1, <3>2, <3>3
  <2>8. ASSUME NEW a \in 1..3
        PROVE  /\ d.groups[a] * d.pipeline.local[a] >= d.grid[a]
               /\ (d.groups[a] - 1) * d.pipeline.local[a] < d.grid[a]
    <3>1. d.grid[a] \in Nat /\ k.required[a] \in Nat \ {0}
      BY <2>2, <2>3, ProgramAssumption
    <3>2. d.groups[a] = GroupCount(d.grid[a], k.required[a]) /\ d.pipeline.local = k.required
      BY <2>2, <2>3 DEF Whole
    <3>. QED
      BY <3>1, <3>2, GroupsCover
  <2>9. ASSUME NEW i \in shader.code, code[i].op = "OpExtInst"
        PROVE  \E j \in shader.code : code[j].op = "OpExtInstImport" /\ code[j].id = code[i].id
    <3>1. shader.code = Stripped
      BY DEF PInv, LoadedInv
    <3>2. i \in DOMAIN code /\ ~Dropped(i)
      BY <2>9, <3>1 DEF Stripped
    <3>3. PICK j \in DOMAIN code : j < i /\ code[j].op = "OpExtInstImport" /\ code[j].id = code[i].id
      BY <2>9, <3>2 DEF PInv, LoadedInv, SpirV
    <3>4. ~Dropped(j)
      BY <2>9, <3>2, <3>3 DEF Dropped, Imports
    <3>. QED
      BY <3>1, <3>3, <3>4 DEF Stripped
  <2>. QED
    BY <2>3, <2>4, <2>5, <2>6, <2>7, <2>8, <2>9 DEF LaunchesFit
<1>2. Spec => []PInv
  BY ProgramInductive
<1>. QED
  BY <1>1, <1>2, PTL

-----------------------------------------------------------------------------
(* Dispatches one after the other.                                          *)

\* What holds a value where the stretches of a set have been written.
FilledBy(c, pos, s, K) ==
  \/ Covers(Of("x", c.hidden), s)
  \/ \E w \in K : Covers(w, s)
  \/ /\ s.buffer \in {"kcache", "vcache"}
     /\ Rows(s.buffer, s.layer, KvDim(c), pos, 1) \in K
     /\ Covers(Rows(s.buffer, s.layer, KvDim(c), 0, pos + 1), s)

\* A dispatch (a kernel) that is right after the stretches of a set are written.
DispatchFits(c, pos, threads, k, K) ==
  /\ threads >= k.need
  /\ \A w \in k.writes : w.from + w.n <= Size(c)[w.buffer]
  /\ \A s \in k.reads : FilledBy(c, pos, s, K)
  /\ \A w \in k.writes, s \in k.reads : w.buffer = s.buffer /\ w.layer = s.layer => w = s

Before(ds, i) == UNION {ds[j].writes : j \in 1..(i - 1)}
\* Dispatches that are right in their order, given what was written before
\* them, and write certain stretches.
Runs(c, pos, ds, K, W) ==
  /\ IsSequence(ds)
  /\ \A i \in 1..Len(ds) : DispatchFits(c, pos, ds[i].threads, ds[i], K \cup Before(ds, i))
  /\ W \subseteq Before(ds, Len(ds) + 1)

LEMMA FilledByMore ==
  ASSUME NEW c, NEW pos, NEW s, NEW K, NEW L, K \subseteq L, FilledBy(c, pos, s, K)
  PROVE  FilledBy(c, pos, s, L)
BY DEF FilledBy

LEMMA FitsMore ==
  ASSUME NEW c, NEW pos, NEW t, NEW k, NEW K, NEW L, K \subseteq L, DispatchFits(c, pos, t, k, K)
  PROVE  DispatchFits(c, pos, t, k, L)
BY FilledByMore DEF DispatchFits

LEMMA Alone ==
  ASSUME NEW c, NEW pos, NEW t, NEW k, NEW K, DispatchFits(c, pos, t, k, K)
  PROVE  Runs(c, pos, Add(t, k), K, k.writes)
<1> DEFINE d == [threads |-> t, need |-> k.need, writes |-> k.writes, reads |-> k.reads]
<1>1. Add(t, k) = <<d>> /\ Len(Add(t, k)) = 1 /\ Add(t, k)[1] = d
  BY DEF Add
<1>2. IsSequence(Add(t, k))
  <2>1. <<d>> \in Seq({d})
    OBVIOUS
  <2>. QED
    BY <1>1, <2>1 DEF IsSequence
<1>3. DispatchFits(c, pos, d.threads, d, K)
  BY DEF DispatchFits
<1> DEFINE a == Add(t, k)
<1>4. k.writes \subseteq Before(a, 2)
  <2>1. k.writes = a[1].writes /\ 1 \in 1..(2 - 1)
    BY <1>1
  <2>. QED
    BY <2>1 DEF Before
<1>5. DispatchFits(c, pos, a[1].threads, a[1], K \cup Before(a, 1))
  <2>1. DispatchFits(c, pos, a[1].threads, a[1], K)
    BY <1>1, <1>3
  <2>. QED
    BY <2>1, FitsMore
<1> HIDE DEF a, d
<1>. QED
  BY <1>1, <1>2, <1>4, <1>5 DEF Runs, a

LEMMA InTurn ==
  ASSUME NEW a, NEW b, IsSequence(a), IsSequence(b)
  PROVE  /\ IsSequence(a \o b) /\ Len(a) \in Nat /\ Len(b) \in Nat /\ Len(a \o b) = Len(a) + Len(b)
         /\ \A i \in 1..Len(a) : (a \o b)[i] = a[i]
         /\ \A i \in (Len(a) + 1)..(Len(a) + Len(b)) : (a \o b)[i] = b[i - Len(a)]
<1>1. PICK D : a \in Seq(D)
  BY DEF IsSequence
<1>2. PICK E : b \in Seq(E)
  BY DEF IsSequence
<1>3. a \in Seq(D \cup E) /\ b \in Seq(D \cup E)
  BY <1>1, <1>2
<1>4. a \o b \in Seq(D \cup E)
  BY <1>3
<1>5. IsSequence(a \o b)
  BY <1>4 DEF IsSequence
<1>6. Len(a \o b) = Len(a) + Len(b) /\ Len(a) \in Nat /\ Len(b) \in Nat
  BY <1>3
<1>7. \A i \in 1..Len(a) : (a \o b)[i] = a[i]
  BY <1>3
<1>8. \A i \in (Len(a) + 1)..(Len(a) + Len(b)) : (a \o b)[i] = b[i - Len(a)]
  BY <1>3
<1>. QED
  BY <1>5, <1>6, <1>7, <1>8

\* One sequence of dispatches after another that needs no more than there is.
LEMMA Then ==
  ASSUME NEW c, NEW pos, NEW a, NEW b, NEW K, NEW L, NEW V, NEW W,
         Runs(c, pos, a, K, V), Runs(c, pos, b, L, W), L \subseteq K \cup V
  PROVE  Runs(c, pos, a \o b, K, V \cup W)
<1> DEFINE s == a \o b
<1>1. IsSequence(a) /\ IsSequence(b)
  BY DEF Runs
<1>2. /\ IsSequence(s) /\ Len(a) \in Nat /\ Len(b) \in Nat /\ Len(s) = Len(a) + Len(b)
      /\ \A i \in 1..Len(a) : s[i] = a[i]
      /\ \A i \in (Len(a) + 1)..(Len(a) + Len(b)) : s[i] = b[i - Len(a)]
  BY <1>1, InTurn
<1> HIDE DEF s
<1>3. \A i \in 1..(Len(a) + 1) : Before(a, i) \subseteq Before(s, i)
  <2>1. \A i \in 1..(Len(a) + 1) : \A j \in 1..(i - 1) : j \in 1..Len(a) /\ s[j] = a[j]
    BY <1>2
  <2>. QED
    BY <2>1 DEF Before
<1>4. \A i \in 1..(Len(b) + 1) :
        Before(a, Len(a) + 1) \cup Before(b, i) \subseteq Before(s, Len(a) + i)
  <2>1. ASSUME NEW i \in 1..(Len(b) + 1) PROVE Before(a, Len(a) + 1) \subseteq Before(s, Len(a) + i)
    <3>1. \A j \in 1..Len(a) : j \in 1..(Len(a) + i - 1) /\ s[j] = a[j]
      BY <1>2
    <3>. QED
      BY <1>2, <3>1 DEF Before
  <2>2. ASSUME NEW i \in 1..(Len(b) + 1) PROVE Before(b, i) \subseteq Before(s, Len(a) + i)
    <3>1. ASSUME NEW x \in Before(b, i) PROVE x \in Before(s, Len(a) + i)
      <4>1. PICK j \in 1..(i - 1) : x \in b[j].writes
        BY DEF Before
      <4>2. Len(a) + j \in 1..(Len(a) + i - 1) /\ s[Len(a) + j] = b[j]
        BY <1>2
      <4>. QED
        BY <4>1, <4>2 DEF Before
    <3>. QED
      BY <3>1
  <2>. QED
    BY <2>1, <2>2
<1>5. ASSUME NEW i \in 1..Len(s)
      PROVE  DispatchFits(c, pos, s[i].threads, s[i], K \cup Before(s, i))
  <2>1. CASE i \in 1..Len(a)
    <3>1. DispatchFits(c, pos, a[i].threads, a[i], K \cup Before(a, i))
      BY <2>1 DEF Runs
    <3>2. s[i] = a[i] /\ Before(a, i) \subseteq Before(s, i)
      BY <1>2, <1>3, <2>1
    <3>3. K \cup Before(a, i) \subseteq K \cup Before(s, i)
      BY <3>2
    <3>. QED
      BY <3>1, <3>2, <3>3, FitsMore
  <2>2. CASE i \notin 1..Len(a)
    <3>1. PICK k \in 1..Len(b) : i = Len(a) + k
      <4>1. i - Len(a) \in 1..Len(b) /\ i = Len(a) + (i - Len(a))
        BY <1>2, <2>2
      <4>. QED
        BY <4>1
    <3>2. DispatchFits(c, pos, b[k].threads, b[k], L \cup Before(b, k))
      BY DEF Runs
    <3>3. s[i] = b[k]
      BY <1>2, <3>1
    <3>4. Before(a, Len(a) + 1) \cup Before(b, k) \subseteq Before(s, i)
      BY <1>2, <1>4, <3>1
    <3>5. V \subseteq Before(a, Len(a) + 1)
      BY DEF Runs
    <3>6. L \cup Before(b, k) \subseteq K \cup Before(s, i)
      BY <3>4, <3>5
    <3>. QED
      BY <3>2, <3>3, <3>6, FitsMore
  <2>. QED
    BY <2>1, <2>2
<1>6. V \cup W \subseteq Before(s, Len(s) + 1)
  <2>1. Before(a, Len(a) + 1) \cup Before(b, Len(b) + 1) \subseteq Before(s, Len(a) + (Len(b) + 1))
    BY <1>2, <1>4
  <2>2. Len(a) + (Len(b) + 1) = Len(s) + 1
    BY <1>2
  <2>. QED
    BY <2>1, <2>2 DEF Runs
<1>. QED
  BY <1>2, <1>5, <1>6 DEF Runs, s

\* Less written, more to start from.
LEMMA Weaker ==
  ASSUME NEW c, NEW pos, NEW a, NEW K, NEW L, NEW V, NEW W,
         Runs(c, pos, a, K, V), K \subseteq L, W \subseteq V
  PROVE  Runs(c, pos, a, L, W)
<1>1. ASSUME NEW i \in 1..Len(a) PROVE DispatchFits(c, pos, a[i].threads, a[i], L \cup Before(a, i))
  <2>1. DispatchFits(c, pos, a[i].threads, a[i], K \cup Before(a, i)) /\ K \cup Before(a, i) \subseteq L \cup Before(a, i)
    BY DEF Runs
  <2>. QED
    BY <2>1, FitsMore
<1>. QED
  BY <1>1 DEF Runs

-----------------------------------------------------------------------------
(* Numbers of a session.                                                    *)

\* A session's configuration, as the constructor leaves it.
IsConfig(c) ==
  /\ \A f \in Numbers : c[f] \in Nat
  /\ c.maxParts <= 1024 /\ c.hidden <= c.ffn /\ QDim(c) <= c.ffn
  /\ c.mq4 => c.heads = 4 /\ c.kvHeads = 1
  /\ c.harvest => c.temperature /\ ~c.fullVocab
  /\ c.mq4 \in BOOLEAN

LEMMA IsEffective ==
  ASSUME NEW ask \in Configs
  PROVE  IsConfig(Effective(ask))
<1>1. /\ DOMAIN ask = Numbers \cup Switches
      /\ \A f \in Numbers : ask[f] \in Nat
      /\ ask.maxParts <= 1024 /\ ask.hidden <= ask.ffn /\ QDim(ask) <= ask.ffn
  BY PlanAssumption DEF PlanAssumption, QDim
<1> DEFINE c == Effective(ask)
<1>2. \A f \in Numbers \ {"window"} : c[f] = ask[f]
  BY <1>1 DEF Effective, Numbers, Switches
<1>3. c.window \in Nat
  BY <1>1 DEF Effective, Numbers, Switches, DefaultWindow
<1>4. /\ c.mq4 \in BOOLEAN
      /\ c.mq4 => ask.heads = 4 /\ ask.kvHeads = 1
      /\ c.harvest => ask.temperature /\ ~ask.fullVocab
      /\ c.temperature = ask.temperature /\ c.fullVocab = ask.fullVocab
  BY <1>1 DEF Effective, Numbers, Switches
<1> HIDE DEF c
<1>. QED
  BY <1>1, <1>2, <1>3, <1>4 DEF IsConfig, QDim, Numbers, c

LEMMA Dims ==
  ASSUME NEW c, IsConfig(c)
  PROVE  QDim(c) \in Nat /\ KvDim(c) \in Nat
<1>1. c.heads \in Nat /\ c.headDim \in Nat /\ c.kvHeads \in Nat
  BY DEF IsConfig, Numbers
<1>2. \A a, b \in Nat : a * b \in Nat
  OBVIOUS
<1>. QED
  BY <1>1, <1>2 DEF QDim, KvDim

\* The least of a set of natural numbers: Min's value.
LEMMA Least ==
  ASSUME NEW S \in SUBSET Nat, S # {}
  PROVE  Min(S) \in S /\ \A x \in S : Min(S) <= x
<1>1. \E m \in S : \A x \in S : m <= x
  BY LeastNumber
<1>. QED
  BY <1>1 DEF Min

\* The splits that keep within the groups.
Splits(c, rows, cols) ==
  {1} \cup {s \in 1..Min({c.split, rows \div QuantBlock}) : CeilDiv(cols * s, 64) <= c.maxGroups}

LEMMA SplitsFinite ==
  ASSUME NEW c, IsConfig(c), NEW rows \in Nat, NEW cols
  PROVE  /\ Min({c.split, rows \div QuantBlock}) \in Nat
         /\ Min({c.split, rows \div QuantBlock}) <= c.split
         /\ Min({c.split, rows \div QuantBlock}) <= rows \div QuantBlock
         /\ Splits(c, rows, cols) \in SUBSET Nat /\ IsFiniteSet(Splits(c, rows, cols))
         /\ Max(Splits(c, rows, cols)) \in Splits(c, rows, cols)
         /\ \A s \in Splits(c, rows, cols) : s >= 1 /\ s <= Max(Splits(c, rows, cols))
<1> DEFINE m == Min({c.split, rows \div QuantBlock})
           S == Splits(c, rows, cols)
<1>1. c.split \in Nat /\ rows \div QuantBlock \in Nat
  BY DEF IsConfig, Numbers, QuantBlock
<1>2. m \in Nat /\ m <= c.split /\ m <= rows \div QuantBlock
  <2> DEFINE T == {c.split, rows \div QuantBlock}
  <2>1. T \in SUBSET Nat /\ T # {} /\ c.split \in T /\ rows \div QuantBlock \in T
    BY <1>1
  <2> HIDE DEF T
  <2>2. Min(T) \in T /\ \A x \in T : Min(T) <= x
    BY <2>1, Least
  <2>. QED
    BY <2>1, <2>2 DEF T
<1> HIDE DEF m
<1>3. S \subseteq {1} \cup 1..m
  BY DEF Splits, m
<1>4. S \in SUBSET Nat /\ S \in SUBSET Int /\ 1 \in S /\ \A s \in S : s >= 1
  BY <1>2, <1>3 DEF Splits
<1>5. IsFiniteSet(S)
  <2>1. IsFiniteSet(1..m)
    BY <1>2, FS_Interval
  <2>2. IsFiniteSet((1..m) \cup {1})
    BY <2>1, FS_AddElement
  <2>. QED
    BY <1>3, <2>2, FS_Subset
<1> HIDE DEF S
<1>6. Max(S) \in S /\ \A s \in S : s <= Max(S)
  BY <1>4, <1>5, Greatest
<1>. QED
  BY <1>2, <1>4, <1>5, <1>6 DEF S, m

\* A matvec has one part or more, and no more when its rows are fewer.
LEMMA SplitTyped ==
  ASSUME NEW c, IsConfig(c), NEW rows \in Nat, NEW cols
  PROVE  SplitFor(c, rows, cols) \in Nat /\ SplitFor(c, rows, cols) >= 1
<1>1. SplitFor(c, rows, cols) = 1 \/ SplitFor(c, rows, cols) = Max(Splits(c, rows, cols))
  BY DEF SplitFor, Splits
<1>2. Max(Splits(c, rows, cols)) \in Nat /\ Max(Splits(c, rows, cols)) >= 1
  BY SplitsFinite
<1>. QED
  BY <1>1, <1>2

LEMMA SplitLess ==
  ASSUME NEW c, IsConfig(c), NEW rows \in Nat, rows <= c.ffn, NEW cols
  PROVE  SplitFor(c, rows, cols) <= SplitFor(c, c.ffn, cols)
<1>1. c.ffn \in Nat /\ c.split \in Nat
  BY DEF IsConfig, Numbers
<1>2. CASE c.split <= 1 \/ cols >= c.splitBelow
  BY <1>2 DEF SplitFor
<1>3. CASE ~(c.split <= 1 \/ cols >= c.splitBelow)
  <2>1. /\ SplitFor(c, rows, cols) = Max(Splits(c, rows, cols))
        /\ SplitFor(c, c.ffn, cols) = Max(Splits(c, c.ffn, cols))
    BY <1>3 DEF SplitFor, Splits
  <2> DEFINE m == Min({c.split, rows \div QuantBlock})  n == Min({c.split, c.ffn \div QuantBlock})
  <2>2. m \in Nat /\ m <= c.split /\ m <= rows \div QuantBlock
    BY SplitsFinite
  <2>3. n = c.split \/ n = c.ffn \div QuantBlock
    <3>1. {c.split, c.ffn \div QuantBlock} \in SUBSET Nat
      BY <1>1 DEF QuantBlock
    <3>2. n \in {c.split, c.ffn \div QuantBlock}
      BY <3>1, Least
    <3>. QED
      BY <3>2
  <2>4. rows \div QuantBlock <= c.ffn \div QuantBlock
    BY <1>1 DEF QuantBlock
  <2>5. rows \div QuantBlock \in Nat /\ c.ffn \div QuantBlock \in Nat
    BY <1>1 DEF QuantBlock
  <2> HIDE DEF m, n
  <2>6. m <= n
    BY <1>1, <2>2, <2>3, <2>4, <2>5
  <2>7. Splits(c, rows, cols) \subseteq Splits(c, c.ffn, cols)
    <3>1. n \in Nat
      BY <1>1, <2>3, <2>5
    <3>2. 1..m \subseteq 1..n
      BY <2>2, <2>6, <3>1
    <3>. QED
      BY <3>2 DEF Splits, m, n
  <2>8. Max(Splits(c, rows, cols)) \in Splits(c, c.ffn, cols)
    BY <2>7, SplitsFinite
  <2>. QED
    BY <1>1, <2>1, <2>8, SplitsFinite
<1>. QED
  BY <1>2, <1>3

\* The partials of every matvec find room.
LEMMA PartialFits ==
  ASSUME NEW c, IsConfig(c), NEW rows \in Nat, rows <= c.ffn,
         NEW n \in {QDim(c), KvDim(c), c.hidden, c.ffn, c.vocab}
  PROVE  n * SplitFor(c, rows, n) <= PartialSize(c)
<1> DEFINE T == {QDim(c), KvDim(c), c.hidden, c.ffn, c.vocab}
           f == [k \in T |-> k * SplitFor(c, c.ffn, k)]
           V == {f[k] : k \in T}
<1>1. T \in SUBSET Nat /\ c.ffn \in Nat /\ n \in T
  BY Dims DEF IsConfig, Numbers
<1>2. IsFiniteSet(T)
  <2>1. IsFiniteSet({QDim(c)})
    BY FS_Singleton
  <2>2. IsFiniteSet({QDim(c)} \cup {KvDim(c)})
    BY <2>1, FS_AddElement
  <2>3. IsFiniteSet({QDim(c)} \cup {KvDim(c)} \cup {c.hidden})
    BY <2>2, FS_AddElement
  <2>4. IsFiniteSet({QDim(c)} \cup {KvDim(c)} \cup {c.hidden} \cup {c.ffn})
    BY <2>3, FS_AddElement
  <2>5. IsFiniteSet({QDim(c)} \cup {KvDim(c)} \cup {c.hidden} \cup {c.ffn} \cup {c.vocab})
    BY <2>4, FS_AddElement
  <2>6. T = {QDim(c)} \cup {KvDim(c)} \cup {c.hidden} \cup {c.ffn} \cup {c.vocab}
    OBVIOUS
  <2>. QED
    BY <2>5, <2>6
<1>3. PartialSize(c) = Max({1} \cup V)
  <2>1. V = {k * SplitFor(c, c.ffn, k) : k \in T}
    OBVIOUS
  <2>. QED
    BY <2>1 DEF PartialSize
<1>4. \A k \in T : f[k] = k * SplitFor(c, c.ffn, k) /\ SplitFor(c, c.ffn, k) \in Nat
  BY <1>1, SplitTyped
<1> HIDE DEF T, f
<1>5. IsFiniteSet({1} \cup V)
  <2>1. IsFiniteSet(V)
    BY <1>2, FiniteImage
  <2>2. IsFiniteSet(V \cup {1})
    BY <2>1, FS_AddElement
  <2>3. V \cup {1} = {1} \cup V
    OBVIOUS
  <2>. QED
    BY <2>2, <2>3
<1>6. {1} \cup V \in SUBSET Int
  BY <1>1, <1>4
<1>7. f[n] <= Max({1} \cup V) /\ Max({1} \cup V) \in Int
  <2>1. f[n] \in {1} \cup V /\ {1} \cup V # {}
    BY <1>1
  <2>. QED
    BY <1>5, <1>6, <2>1, Greatest
<1>8. SplitFor(c, rows, n) <= SplitFor(c, c.ffn, n) /\ SplitFor(c, rows, n) \in Nat
  BY SplitLess, SplitTyped
<1>9. \A a, b, k \in Nat : a <= b => k * a <= k * b
  OBVIOUS
<1>10. n * SplitFor(c, rows, n) <= n * SplitFor(c, c.ffn, n)
  BY <1>1, <1>4, <1>8, <1>9
<1>11. n * SplitFor(c, rows, n) \in Int /\ n * SplitFor(c, c.ffn, n) \in Int
  BY <1>1, <1>4, <1>8
<1>. QED
  BY <1>1, <1>3, <1>4, <1>7, <1>10, <1>11

\* The parts of a softmax are between 1 and the most there is room for.
LEMMA PartsFit ==
  ASSUME NEW c, IsConfig(c), NEW span \in Nat, span >= 1
  PROVE  /\ SoftmaxParts(c, span) \in Nat /\ SoftmaxParts(c, span) >= 1
         /\ c.maxParts \in PartCounts => SoftmaxParts(c, span) <= c.maxParts
<1> DEFINE P == {q \in PartCounts : q * q >= span \/ q >= c.maxParts}
           p == Min(P)
<1>1. c.maxParts \in Nat /\ c.maxParts <= 1024
  BY DEF IsConfig, Numbers
<1>2. PartCounts \subseteq Nat /\ 1024 \in PartCounts /\ \A q \in PartCounts : q >= 1
  BY DEF PartCounts
<1>3. P \in SUBSET Nat /\ 1024 \in P /\ (c.maxParts \in PartCounts => c.maxParts \in P)
  <2>1. P \in SUBSET Nat
    BY <1>2
  <2>2. 1024 \in P
    BY <1>1, <1>2
  <2>3. c.maxParts \in PartCounts => c.maxParts \in P
    BY <1>1
  <2>. QED
    BY <2>1, <2>2, <2>3
<1>4. \A q \in P : q >= 1
  BY <1>2
<1> HIDE DEF P
<1>5. p \in P /\ \A q \in P : p <= q
  BY <1>3, Least
<1>6. p \in Nat /\ p >= 1 /\ (c.maxParts \in PartCounts => p <= c.maxParts)
  BY <1>3, <1>4, <1>5
<1>7. Min({p, span}) \in {p, span} /\ \A x \in {p, span} : Min({p, span}) <= x
  <2>1. {p, span} \in SUBSET Nat
    BY <1>6
  <2> HIDE DEF p
  <2>. QED
    BY <2>1, Least
<1>8. SoftmaxParts(c, span) = 1 \/ SoftmaxParts(c, span) = Min({p, span})
  BY DEF SoftmaxParts, P
<1> HIDE DEF p
<1>9. c.maxParts \in PartCounts => 1 <= c.maxParts
  BY <1>2
<1>. QED
  BY <1>1, <1>6, <1>7, <1>8, <1>9
\* A span of several has several parts, where there may be several.
LEMMA SeveralParts ==
  ASSUME NEW c, IsConfig(c), c.parSoftmax, NEW span \in Nat, span >= 2, span >= c.minSpan,
         c.maxParts > 1
  PROVE  SoftmaxParts(c, span) > 1
<1> DEFINE P == {q \in PartCounts : q * q >= span \/ q >= c.maxParts}
           p == Min(P)
<1>1. c.maxParts \in Nat /\ c.maxParts <= 1024 /\ c.minSpan \in Nat
  BY DEF IsConfig, Numbers
<1>2. PartCounts \subseteq Nat /\ 1024 \in PartCounts /\ \A q \in PartCounts : q # 1 => q >= 2
  BY DEF PartCounts
<1>3. P \in SUBSET Nat /\ 1024 \in P
  <2>1. P \in SUBSET Nat
    BY <1>2
  <2>2. 1024 \in P
    BY <1>1, <1>2
  <2>. QED
    BY <2>1, <2>2
<1>4. 1 \notin P
  BY <1>1
<1>5. \A q \in P : q >= 2
  BY <1>2, <1>4
<1> HIDE DEF P
<1>6. p \in Nat /\ p >= 2
  BY <1>3, <1>5, Least
<1> HIDE DEF p
<1>7. Min({p, span}) \in {p, span}
  <2>1. {p, span} \in SUBSET Nat
    BY <1>6
  <2>. QED
    BY <2>1, Least
<1>8. SoftmaxParts(c, span) = Min({p, span})
  BY <1>1 DEF SoftmaxParts, P, p
<1>. QED
  BY <1>6, <1>7, <1>8

-----------------------------------------------------------------------------
(* The blocks of record_token.                                              *)

\* What there is room for.
LEMMA Sizes ==
  ASSUME NEW c
  PROVE  /\ \A b \in {"x", "xb", "xb2"} : Size(c)[b] = c.hidden
         /\ \A b \in {"q_raw", "q", "att"} : Size(c)[b] = QDim(c)
         /\ \A b \in {"k_raw", "k", "v"} : Size(c)[b] = KvDim(c)
         /\ \A b \in {"hb_gate", "hb_up", "hb"} : Size(c)[b] = c.ffn
         /\ \A b \in {"sm_pmax", "sm_psum"} : Size(c)[b] = c.heads * c.maxParts
         /\ Size(c)["scores"] = c.heads * c.maxSeq /\ Size(c)["sm_stats"] = c.heads * 2
         /\ Size(c)["att_partial"] = QDim(c) * c.applySplit /\ Size(c)["logits"] = c.vocab
         /\ Size(c)["sample_out"] = 2 /\ Size(c)["norm_partial"] = c.normParts
         /\ Size(c)["mv_partial"] = PartialSize(c)
         /\ \A b \in {"am_val", "am_idx"} : Size(c)[b] = c.amParts
         /\ \A b \in {"am_val2", "am_idx2"} : Size(c)[b] = c.amParts2
         /\ Size(c)["am_out_idx"] = 1
         /\ \A b \in {"cand_val", "cand_idx"} : Size(c)[b] = 4 * c.topkParts
         /\ \A b \in {"kcache", "vcache"} : Size(c)[b] = c.maxSeq * KvDim(c)
<1> DEFINE s == Size(c)
<1>1. s.x = c.hidden /\ s.xb = c.hidden /\ s.xb2 = c.hidden /\ s.q_raw = QDim(c) /\ s.q = QDim(c) /\ s.att = QDim(c)
  BY DEF Size
<1>2. s.k_raw = KvDim(c) /\ s.k = KvDim(c) /\ s.v = KvDim(c) /\ s.hb_gate = c.ffn /\ s.hb_up = c.ffn /\ s.hb = c.ffn
  BY DEF Size
<1>3. /\ s.sm_pmax = c.heads * c.maxParts /\ s.sm_psum = c.heads * c.maxParts
      /\ s.scores = c.heads * c.maxSeq /\ s.sm_stats = c.heads * 2
      /\ s.att_partial = QDim(c) * c.applySplit /\ s.logits = c.vocab
  BY DEF Size
<1>4. /\ s.sample_out = 2 /\ s.norm_partial = c.normParts /\ s.mv_partial = PartialSize(c)
      /\ s.am_val = c.amParts /\ s.am_idx = c.amParts
      /\ s.am_val2 = c.amParts2 /\ s.am_idx2 = c.amParts2
  BY DEF Size
<1>5. /\ s.am_out_idx = 1 /\ s.cand_val = 4 * c.topkParts /\ s.cand_idx = 4 * c.topkParts
      /\ s.kcache = c.maxSeq * KvDim(c) /\ s.vcache = c.maxSeq * KvDim(c)
  BY DEF Size
<1> HIDE DEF s
<1>. QED
  BY <1>1, <1>2, <1>3, <1>4, <1>5 DEF s

\* What was written covers itself.
LEMMA Written ==
  ASSUME NEW c, NEW pos, NEW K, NEW b, NEW n \in Int, Of(b, n) \in K
  PROVE  FilledBy(c, pos, Of(b, n), K)
<1>1. Covers(Of(b, n), Of(b, n))
  BY DEF Covers, Of
<1>. QED
  BY <1>1 DEF FilledBy

LEMMA NormRuns ==
  ASSUME NEW c, IsConfig(c), NEW pos, NEW K, NEW to, NEW in, NEW n \in Nat,
         FilledBy(c, pos, Of(in, n), K), n <= Size(c)[to],
         to # in, to # "norm_partial", in # "norm_partial"
  PROVE  Runs(c, pos, Norm(c, to, in, n), K, {Of(to, n)})
<1> DEFINE p == Of("norm_partial", c.normParts)
<1>1. c.normParts \in Nat /\ Size(c)["norm_partial"] = c.normParts
  BY Sizes DEF IsConfig, Numbers
<1>2. DispatchFits(c, pos, c.normParts, SumSq("norm_partial", in, n, c.normParts), K)
  BY <1>1 DEF DispatchFits, SumSq, Kernel, Of
<1>3. Runs(c, pos, Add(c.normParts, SumSq("norm_partial", in, n, c.normParts)), K, {p})
  BY <1>2, Alone DEF SumSq, Kernel
<1>4. DispatchFits(c, pos, n, ApplyNorm(to, in, "norm_partial", n, c.normParts), K \cup {p})
  <2>1. FilledBy(c, pos, p, K \cup {p}) /\ FilledBy(c, pos, Of(in, n), K \cup {p})
    BY <1>1, Written, FilledByMore
  <2>. QED
    BY <2>1 DEF DispatchFits, ApplyNorm, Kernel, Of
<1>5. Runs(c, pos, Add(n, ApplyNorm(to, in, "norm_partial", n, c.normParts)), K \cup {p}, {Of(to, n)})
  BY <1>4, Alone DEF ApplyNorm, Kernel
<1>6. Runs(c, pos, Norm(c, to, in, n), K, {p} \cup {Of(to, n)})
  BY <1>3, <1>5, Then DEF Norm
<1>. QED
  BY <1>6, Weaker

LEMMA MatvecRuns ==
  ASSUME NEW c, IsConfig(c), NEW pos, NEW K, NEW to, NEW in, NEW rows \in Nat, rows <= c.ffn,
         NEW cols \in {QDim(c), KvDim(c), c.hidden, c.ffn, c.vocab},
         FilledBy(c, pos, Of(in, rows), K), cols <= Size(c)[to],
         to # in, to # "mv_partial", in # "mv_partial"
  PROVE  Runs(c, pos, Matvec(c, to, in, rows, cols), K, {Of(to, cols)})
<1> DEFINE sp == SplitFor(c, rows, cols)
           p == Of("mv_partial", cols * sp)
<1>1. cols \in Nat /\ sp \in Nat /\ cols * sp \in Int
  BY Dims, SplitTyped DEF IsConfig, Numbers
<1>2. cols * sp <= Size(c)["mv_partial"]
  BY PartialFits, Sizes
<1> HIDE DEF sp
<1>3. CASE sp > 1
  <2>1. DispatchFits(c, pos, cols * sp, MatvecSplit("mv_partial", in, rows, cols, sp), K)
    BY <1>1, <1>2 DEF DispatchFits, MatvecSplit, Kernel, Of
  <2>2. Runs(c, pos, Add(cols * sp, MatvecSplit("mv_partial", in, rows, cols, sp)), K, {p})
    BY <2>1, Alone DEF MatvecSplit, Kernel
  <2>3. DispatchFits(c, pos, cols, SumParts(to, "mv_partial", cols, sp), K \cup {p})
    <3>1. FilledBy(c, pos, p, K \cup {p})
      BY <1>1, Written
    <3>. QED
      BY <1>1, <3>1 DEF DispatchFits, SumParts, Kernel, Of
  <2>4. Runs(c, pos, Add(cols, SumParts(to, "mv_partial", cols, sp)), K \cup {p}, {Of(to, cols)})
    BY <2>3, Alone DEF SumParts, Kernel
  <2>5. Runs(c, pos, Matvec(c, to, in, rows, cols), K, {p} \cup {Of(to, cols)})
    BY <1>3, <2>2, <2>4, Then DEF Matvec, sp
  <2>. QED
    BY <2>5, Weaker
<1>4. CASE ~(sp > 1)
  <2>1. DispatchFits(c, pos, cols, MatvecWhole(to, in, rows, cols), K)
    BY <1>1 DEF DispatchFits, MatvecWhole, Kernel, Of
  <2>2. Matvec(c, to, in, rows, cols) = Add(cols, MatvecWhole(to, in, rows, cols))
    BY <1>4 DEF Matvec, sp
  <2>. QED
    BY <2>1, <2>2, Alone DEF MatvecWhole, Kernel
<1>. QED
  BY <1>3, <1>4

\* The scores of a span, made one of their soft maximum.
LEMMA SoftmaxRuns ==
  ASSUME NEW c, IsConfig(c), c.maxParts \in PartCounts, NEW pos, NEW K,
         NEW span \in Nat, span >= 1, span <= c.maxSeq, Of("scores", c.heads * span) \in K
  PROVE  Runs(c, pos, Softmax(c, span), K, {Of("scores", c.heads * span)})
<1> DEFINE parts == SoftmaxParts(c, span)
           n == c.heads * span
           m == c.heads * parts
<1>1. c.heads \in Nat /\ c.maxSeq \in Nat /\ c.maxParts \in Nat
  BY DEF IsConfig, Numbers
<1>2. parts \in Nat /\ parts <= c.maxParts
  BY PartsFit
<1>3. \A a, b, k \in Nat : a <= b => k * a <= k * b
  OBVIOUS
<1>4. n <= Size(c)["scores"] /\ m <= Size(c)["sm_pmax"] /\ m <= Size(c)["sm_psum"]
  BY <1>1, <1>2, <1>3, Sizes
<1>5. Size(c)["sm_stats"] = c.heads * 2
  BY Sizes
<1>6. n \in Int /\ m \in Int
  BY <1>1, <1>2
<1>7. FilledBy(c, pos, Of("scores", n), K)
  BY <1>6, Written
<1> HIDE DEF parts, n, m
<1>8. CASE c.parSoftmax /\ parts > 1
  <2> DEFINE a == Add(m, SoftmaxPartial(c.heads, span, parts))
             b == Add(c.heads, SoftmaxFinish(c.heads, parts))
             d == Add(n, SoftmaxScale(c.heads, span))
             P == {Of("sm_pmax", m), Of("sm_psum", m)}
             S == {Of("sm_stats", 2 * c.heads)}
  <2>1. DispatchFits(c, pos, m, SoftmaxPartial(c.heads, span, parts), K)
    BY <1>4, <1>6, <1>7 DEF DispatchFits, SoftmaxPartial, Kernel, Of, n, m
  <2>2. Runs(c, pos, a, K, P)
    BY <2>1, Alone DEF SoftmaxPartial, Kernel, m
  <2>3. DispatchFits(c, pos, c.heads, SoftmaxFinish(c.heads, parts), K \cup P)
    <3>1. FilledBy(c, pos, Of("sm_pmax", m), K \cup P) /\ FilledBy(c, pos, Of("sm_psum", m), K \cup P)
      BY <1>6, Written
    <3>. QED
      BY <1>1, <1>5, <3>1 DEF DispatchFits, SoftmaxFinish, Kernel, Of, m
  <2>4. Runs(c, pos, b, K \cup P, S)
    BY <2>3, Alone DEF SoftmaxFinish, Kernel
  <2>5. Runs(c, pos, a \o b, K, P \cup S)
    BY <2>2, <2>4, Then
  <2>6. DispatchFits(c, pos, n, SoftmaxScale(c.heads, span), K \cup S)
    <3>1. FilledBy(c, pos, Of("sm_stats", 2 * c.heads), K \cup S)
      BY <1>1, Written
    <3>2. FilledBy(c, pos, Of("scores", n), K \cup S)
      BY <1>7, FilledByMore
    <3>. QED
      BY <1>4, <1>6, <3>1, <3>2 DEF DispatchFits, SoftmaxScale, Kernel, Of, n
  <2>7. Runs(c, pos, d, K \cup S, {Of("scores", n)})
    BY <2>6, Alone DEF SoftmaxScale, Kernel, n
  <2>8. Runs(c, pos, (a \o b) \o d, K, P \cup S \cup {Of("scores", n)})
    <3>1. K \cup S \subseteq K \cup (P \cup S)
      OBVIOUS
    <3> HIDE DEF a, b, d, P, S
    <3>. QED
      BY <2>5, <2>7, <3>1, Then
  <2>9. Softmax(c, span) = (a \o b) \o d
    BY <1>8 DEF Softmax, parts, n, m
  <2> HIDE DEF a, b, d, P, S
  <2>. QED
    BY <2>8, <2>9, Weaker DEF n
<1>9. CASE ~(c.parSoftmax /\ parts > 1)
  <2>1. DispatchFits(c, pos, c.heads, SoftmaxRows(c.heads, span), K)
    BY <1>1, <1>4, <1>6, <1>7 DEF DispatchFits, SoftmaxRows, Kernel, Of, n
  <2>2. Softmax(c, span) = Add(c.heads, SoftmaxRows(c.heads, span))
    BY <1>9 DEF Softmax, parts
  <2>. QED
    BY <2>1, <2>2, Alone DEF SoftmaxRows, Kernel
<1>. QED
  BY <1>8, <1>9

\* The keys of a layer that a position looks at.
LEMMA Looked ==
  ASSUME NEW c, IsConfig(c), NEW l, NEW pos \in Nat
  PROVE  /\ FirstKey(c, l, pos + 1) \in Nat /\ FirstKey(c, l, pos + 1) <= pos
         /\ FirstKey(c, l, pos + 1) = 0 \/ FirstKey(c, l, pos + 1) = pos + 1 - c.window
<1>1. c.window \in Nat
  BY DEF IsConfig, Numbers
<1>. QED
  BY <1>1 DEF FirstKey

\* Once its row is appended, a cache holds what a position looks at.
LEMMA CacheHolds ==
  ASSUME NEW c, IsConfig(c), NEW l, NEW pos \in Nat, NEW cache \in {"kcache", "vcache"},
         NEW K, Rows(cache, l, KvDim(c), pos, 1) \in K,
         NEW start \in Nat, NEW span \in Nat, start + span = pos + 1
  PROVE  FilledBy(c, pos, Rows(cache, l, KvDim(c), start, span), K)
<1> DEFINE k == KvDim(c)
<1>1. k \in Nat
  BY Dims
<1> HIDE DEF k
<1>2. k * 0 <= k * start /\ k * start + k * span <= k * 0 + k * (pos + 1)
  <2>1. k * start \in Nat /\ k * 0 = 0
    BY <1>1
  <2>2. k * start + k * span = k * (start + span)
    BY <1>1
  <2>3. k * (start + span) \in Nat
    BY <1>1
  <2>. QED
    BY <2>1, <2>2, <2>3
<1>3. Covers(Rows(cache, l, k, 0, pos + 1), Rows(cache, l, k, start, span))
  BY <1>2 DEF Covers, Rows
<1>. QED
  BY <1>3 DEF FilledBy, Rows, k

\* Attention over what a position looks at: from the query and the two caches.
LEMMA AttendRuns ==
  ASSUME NEW c, IsConfig(c), c.maxParts \in PartCounts, NEW l, NEW pos \in Nat, pos < c.maxSeq,
         NEW K, Of("q", QDim(c)) \in K,
         Rows("kcache", l, KvDim(c), pos, 1) \in K, Rows("vcache", l, KvDim(c), pos, 1) \in K
  PROVE  Runs(c, pos, Attend(c, l, pos), K, {Of("att", QDim(c))})
<1> DEFINE start == FirstKey(c, l, pos + 1)
           span == pos + 1 - start
           sp == c.applySplit
           mq4 == c.mq4 /\ span >= c.minSpan
           S == {Of("scores", c.heads * span)}
           A == {Of("att", QDim(c))}
           first == IF mq4 THEN Add(span, ScoresMq4("q", c, l, span, start))
                    ELSE Add(c.heads * span, AttentionScores("q", c, l, span, start))
           last == IF mq4 THEN Add(c.headDim * sp, ApplyMq4(c, l, span, start, sp))
                                 \o Add(QDim(c), SumParts("att", "att_partial", QDim(c), sp))
                   ELSE Add(QDim(c), AttentionApply(c, l, span, start))
<1>1. /\ c.heads \in Nat /\ c.headDim \in Nat /\ c.maxSeq \in Nat /\ sp \in Nat
      /\ QDim(c) \in Nat /\ KvDim(c) \in Nat
  BY Dims DEF IsConfig, Numbers
<1>2. start \in Nat /\ start <= pos
  BY Looked
<1>3. span \in Nat /\ span >= 1 /\ span <= c.maxSeq /\ start + span = pos + 1
  BY <1>1, <1>2
<1>4. Attend(c, l, pos) = (first \o Softmax(c, span)) \o last
  BY DEF Attend
<1> HIDE DEF start, span, sp
<1>5. c.mq4 => /\ c.heads = 4 /\ KvDim(c) = c.headDim /\ QDim(c) = 4 * c.headDim
               /\ 4 * c.headDim * sp = QDim(c) * sp
  BY <1>1 DEF IsConfig, KvDim, QDim
<1>6. FilledBy(c, pos, Of("q", QDim(c)), K)
  BY <1>1, Written
<1>7. /\ FilledBy(c, pos, Rows("kcache", l, KvDim(c), start, span), K)
      /\ FilledBy(c, pos, Rows("vcache", l, KvDim(c), start, span), K)
  BY <1>2, <1>3, CacheHolds
<1>8. c.heads * span \in Int /\ c.heads * span <= Size(c)["scores"]
  <2>1. \A a, b, k \in Nat : a <= b => k * a <= k * b
    OBVIOUS
  <2>. QED
    BY <1>1, <1>3, <2>1, Sizes
<1>9. QDim(c) <= Size(c)["att"] /\ Size(c)["att_partial"] = QDim(c) * sp
  BY <1>1, Sizes DEF sp
<1>10. Runs(c, pos, first, K, S)
  <2>1. CASE mq4
    <3>1. DispatchFits(c, pos, span, ScoresMq4("q", c, l, span, start), K)
      BY <1>3, <1>5, <1>6, <1>7, <1>8, <2>1 DEF DispatchFits, ScoresMq4, Kernel, Of, Rows
    <3>2. ScoresMq4("q", c, l, span, start).writes = S
      BY <1>5, <2>1 DEF ScoresMq4, Kernel
    <3>3. first = Add(span, ScoresMq4("q", c, l, span, start))
      BY <2>1
    <3> HIDE DEF S
    <3>. QED
      BY <3>1, <3>2, <3>3, Alone
  <2>2. CASE ~mq4
    <3>1. DispatchFits(c, pos, c.heads * span, AttentionScores("q", c, l, span, start), K)
      BY <1>6, <1>7, <1>8 DEF DispatchFits, AttentionScores, Kernel, Of, Rows
    <3>2. AttentionScores("q", c, l, span, start).writes = S
      BY DEF AttentionScores, Kernel
    <3>3. first = Add(c.heads * span, AttentionScores("q", c, l, span, start))
      BY <2>2
    <3> HIDE DEF S
    <3>. QED
      BY <3>1, <3>2, <3>3, Alone
  <2>. QED
    BY <2>1, <2>2
<1>11. Runs(c, pos, Softmax(c, span), S, S)
  BY <1>3, SoftmaxRuns
<1>12. Runs(c, pos, last, K \cup S, A)
  <2>1. FilledBy(c, pos, Of("scores", c.heads * span), K \cup S)
    BY <1>8, Written
  <2>2. FilledBy(c, pos, Rows("vcache", l, KvDim(c), start, span), K \cup S)
    BY <1>7, FilledByMore
  <2>3. CASE mq4
    <3> DEFINE P == {Of("att_partial", QDim(c) * sp)}
               a == Add(c.headDim * sp, ApplyMq4(c, l, span, start, sp))
               b == Add(QDim(c), SumParts("att", "att_partial", QDim(c), sp))
    <3>1. QDim(c) * sp \in Int
      BY <1>1
    <3>2. DispatchFits(c, pos, c.headDim * sp, ApplyMq4(c, l, span, start, sp), K \cup S)
      BY <1>1, <1>5, <1>9, <2>1, <2>2, <2>3, <3>1 DEF DispatchFits, ApplyMq4, Kernel, Of, Rows
    <3>3. ApplyMq4(c, l, span, start, sp).writes = P
      BY <1>5, <2>3 DEF ApplyMq4, Kernel
    <3>4. Runs(c, pos, a, K \cup S, P)
      BY <3>2, <3>3, Alone
    <3>5. DispatchFits(c, pos, QDim(c), SumParts("att", "att_partial", QDim(c), sp), P)
      <4>1. FilledBy(c, pos, Of("att_partial", QDim(c) * sp), P)
        BY <3>1, Written
      <4>. QED
        BY <1>1, <1>9, <4>1 DEF DispatchFits, SumParts, Kernel, Of
    <3>6. Runs(c, pos, b, P, A)
      BY <3>5, Alone DEF SumParts, Kernel
    <3>7. last = a \o b
      BY <2>3
    <3> HIDE DEF a, b, P, A, S, last
    <3>8. Runs(c, pos, last, K \cup S, P \cup A)
      BY <3>4, <3>6, <3>7, Then
    <3>. QED
      BY <3>8, Weaker
  <2>4. CASE ~mq4
    <3>1. DispatchFits(c, pos, QDim(c), AttentionApply(c, l, span, start), K \cup S)
      BY <1>1, <1>9, <2>1, <2>2 DEF DispatchFits, AttentionApply, Kernel, Of, Rows
    <3>2. last = Add(QDim(c), AttentionApply(c, l, span, start))
      BY <2>4
    <3>3. AttentionApply(c, l, span, start).writes = A
      BY DEF AttentionApply, Kernel
    <3> HIDE DEF last, A, S
    <3>. QED
      BY <3>1, <3>2, <3>3, Alone
  <2>. QED
    BY <2>3, <2>4
<1> HIDE DEF first, last, S, A
<1>13. Runs(c, pos, first \o Softmax(c, span), K, S \cup S)
  BY <1>10, <1>11, Then
<1>14. Runs(c, pos, (first \o Softmax(c, span)) \o last, K, (S \cup S) \cup A)
  <2>1. K \cup S \subseteq K \cup (S \cup S)
    OBVIOUS
  <2>. QED
    BY <1>12, <1>13, <2>1, Then
<1>15. Runs(c, pos, Attend(c, l, pos), K, A)
  BY <1>4, <1>14, Weaker
<1>. QED
  BY <1>15 DEF A

\* Rope has a thread for half of every head.
LEMMA HalfHeads ==
  ASSUME NEW a \in Nat, NEW d \in Nat
  PROVE  a * (d \div 2) <= (a * d) \div 2
<1> DEFINE h == d \div 2  m == a * h  p == a * d
<1>1. h \in Nat /\ 2 * h <= d
  OBVIOUS
<1>2. \A x, y, k \in Nat : x <= y => k * x <= k * y
  OBVIOUS
<1>3. a * (2 * h) <= p
  BY <1>1, <1>2
<1>4. m \in Nat /\ p \in Nat /\ a * (2 * h) = 2 * m
  BY <1>1
<1> HIDE DEF m, p, h
<1>5. 2 * m <= p
  BY <1>3, <1>4
<1>6. m <= p \div 2
  BY <1>4, <1>5
<1>. QED
  BY <1>6 DEF m, p, h

\* The token's query, and its keys and values in the caches.
LEMMA ProjectRuns ==
  ASSUME NEW c, IsConfig(c), NEW l, NEW pos \in Nat, pos < c.maxSeq, NEW K
  PROVE  Runs(c, pos, Project(c, l, pos), K,
              {Of("q", QDim(c)), Rows("kcache", l, KvDim(c), pos, 1), Rows("vcache", l, KvDim(c), pos, 1)})
<1> DEFINE q == QDim(c)  k == KvDim(c)
           XB == Of("xb", c.hidden)
           QR == Of("q_raw", q)  KR == Of("k_raw", k)  V == Of("v", k)
           Q == Of("q", q)  KK == Of("k", k)
           CK == Rows("kcache", l, k, pos, 1)  CV == Rows("vcache", l, k, pos, 1)
           d1 == Norm(c, "xb", "x", c.hidden)
           d2 == Matvec(c, "q_raw", "xb", c.hidden, q)
           d3 == Matvec(c, "k_raw", "xb", c.hidden, k)
           d4 == Matvec(c, "v", "xb", c.hidden, k)
           d5 == Add(q, HeadsNorm("q", "q_raw", q))
           d6 == Add(k, HeadsNorm("k", "k_raw", k))
           d7 == Add(q \div 2, Rope("q", c.heads, c.headDim))
           d8 == Add(k \div 2, Rope("k", c.kvHeads, c.headDim))
           d9 == Add(k, KvAppend("kcache", l, "k", k, pos))
           d10 == Add(k, KvAppend("vcache", l, "v", k, pos))
<1>1. /\ q \in Nat /\ k \in Nat /\ c.hidden \in Nat /\ c.ffn \in Nat /\ c.maxSeq \in Nat
      /\ c.heads \in Nat /\ c.kvHeads \in Nat /\ c.headDim \in Nat /\ c.hidden <= c.ffn
  BY Dims DEF IsConfig, Numbers
<1>2. /\ Size(c)["xb"] = c.hidden /\ Size(c)["q_raw"] = q /\ Size(c)["k_raw"] = k /\ Size(c)["v"] = k
      /\ Size(c)["q"] = q /\ Size(c)["k"] = k
      /\ Size(c)["kcache"] = c.maxSeq * k /\ Size(c)["vcache"] = c.maxSeq * k
  BY Sizes
<1>3. c.heads * (c.headDim \div 2) <= q \div 2 /\ c.kvHeads * (c.headDim \div 2) <= k \div 2
  BY <1>1, HalfHeads DEF QDim, KvDim
<1>4. k * pos + k * 1 <= c.maxSeq * k
  <2>1. k * pos + k * 1 = k * (pos + 1)
    BY <1>1
  <2>2. \A a, b, m \in Nat : a <= b => m * a <= b * m
    OBVIOUS
  <2>3. pos + 1 \in Nat /\ pos + 1 <= c.maxSeq
    BY <1>1
  <2>. QED
    BY <1>1, <2>1, <2>2, <2>3
<1> HIDE DEF q, k
<1>5. Runs(c, pos, d1, K, {XB})
  <2>1. FilledBy(c, pos, Of("x", c.hidden), K)
    BY <1>1 DEF FilledBy, Covers, Of
  <2>. QED
    BY <1>1, <1>2, <2>1, NormRuns
<1>6. FilledBy(c, pos, XB, {XB})
  BY <1>1, Written
<1>7. Runs(c, pos, d2, {XB}, {QR})
  <2>1. q \in {QDim(c), KvDim(c), c.hidden, c.ffn, c.vocab} /\ q <= Size(c)["q_raw"]
    BY <1>1, <1>2 DEF q
  <2>. QED
    BY <1>1, <1>6, <2>1, MatvecRuns
<1>8. Runs(c, pos, d3, {XB}, {KR}) /\ Runs(c, pos, d4, {XB}, {V})
  <2>1. /\ k \in {QDim(c), KvDim(c), c.hidden, c.ffn, c.vocab}
        /\ k <= Size(c)["k_raw"] /\ k <= Size(c)["v"]
    BY <1>1, <1>2 DEF k
  <2>2. Runs(c, pos, d3, {XB}, {KR})
    BY <1>1, <1>6, <2>1, MatvecRuns
  <2>3. Runs(c, pos, d4, {XB}, {V})
    BY <1>1, <1>6, <2>1, MatvecRuns
  <2>. QED
    BY <2>2, <2>3
<1>9. Runs(c, pos, d5, {QR}, {Q})
  <2>1. FilledBy(c, pos, QR, {QR})
    BY <1>1, Written
  <2>2. DispatchFits(c, pos, q, HeadsNorm("q", "q_raw", q), {QR})
    BY <1>1, <1>2, <2>1 DEF DispatchFits, HeadsNorm, Kernel, Of
  <2>. QED
    BY <2>2, Alone DEF HeadsNorm, Kernel
<1>10. Runs(c, pos, d6, {KR}, {KK})
  <2>1. FilledBy(c, pos, KR, {KR})
    BY <1>1, Written
  <2>2. DispatchFits(c, pos, k, HeadsNorm("k", "k_raw", k), {KR})
    BY <1>1, <1>2, <2>1 DEF DispatchFits, HeadsNorm, Kernel, Of
  <2>. QED
    BY <2>2, Alone DEF HeadsNorm, Kernel
<1>11. Runs(c, pos, d7, {Q}, {Q})
  <2>1. FilledBy(c, pos, Q, {Q}) /\ c.heads * c.headDim = q
    BY <1>1, Written DEF q, QDim
  <2>2. DispatchFits(c, pos, q \div 2, Rope("q", c.heads, c.headDim), {Q})
    BY <1>1, <1>2, <1>3, <2>1 DEF DispatchFits, Rope, Kernel, Of
  <2>3. Rope("q", c.heads, c.headDim).writes = {Q}
    BY <2>1 DEF Rope, Kernel
  <2>. QED
    BY <2>2, <2>3, Alone
<1>12. Runs(c, pos, d8, {KK}, {KK})
  <2>1. FilledBy(c, pos, KK, {KK}) /\ c.kvHeads * c.headDim = k
    BY <1>1, Written DEF k, KvDim
  <2>2. DispatchFits(c, pos, k \div 2, Rope("k", c.kvHeads, c.headDim), {KK})
    BY <1>1, <1>2, <1>3, <2>1 DEF DispatchFits, Rope, Kernel, Of
  <2>3. Rope("k", c.kvHeads, c.headDim).writes = {KK}
    BY <2>1 DEF Rope, Kernel
  <2>. QED
    BY <2>2, <2>3, Alone
<1>13. Runs(c, pos, d9, {KK}, {CK})
  <2>1. FilledBy(c, pos, KK, {KK})
    BY <1>1, Written
  <2>2. DispatchFits(c, pos, k, KvAppend("kcache", l, "k", k, pos), {KK})
    BY <1>1, <1>2, <1>4, <2>1 DEF DispatchFits, KvAppend, Kernel, Of, Rows
  <2>. QED
    BY <2>2, Alone DEF KvAppend, Kernel
<1>14. Runs(c, pos, d10, {V}, {CV})
  <2>1. FilledBy(c, pos, V, {V})
    BY <1>1, Written
  <2>2. DispatchFits(c, pos, k, KvAppend("vcache", l, "v", k, pos), {V})
    BY <1>1, <1>2, <1>4, <2>1 DEF DispatchFits, KvAppend, Kernel, Of, Rows
  <2>. QED
    BY <2>2, Alone DEF KvAppend, Kernel
<1>15. Project(c, l, pos) = d1 \o d2 \o d3 \o d4 \o d5 \o d6 \o d7 \o d8 \o d9 \o d10
  BY DEF Project, q, k
<1> HIDE DEF XB, QR, KR, V, Q, KK, CK, CV, d1, d2, d3, d4, d5, d6, d7, d8, d9, d10
<1>16. Runs(c, pos, d1 \o d2, K, {XB} \cup {QR})
  BY <1>5, <1>7, Then
<1>17. Runs(c, pos, d1 \o d2 \o d3, K, {XB} \cup {QR} \cup {KR})
  BY <1>8, <1>16, Then
<1>18. Runs(c, pos, d1 \o d2 \o d3 \o d4, K, {XB} \cup {QR} \cup {KR} \cup {V})
  BY <1>8, <1>17, Then
<1>19. Runs(c, pos, d1 \o d2 \o d3 \o d4 \o d5, K, {XB} \cup {QR} \cup {KR} \cup {V} \cup {Q})
  BY <1>9, <1>18, Then
<1>20. Runs(c, pos, d1 \o d2 \o d3 \o d4 \o d5 \o d6, K, {XB} \cup {QR} \cup {KR} \cup {V} \cup {Q} \cup {KK})
  BY <1>10, <1>19, Then
<1> DEFINE a == d1 \o d2 \o d3 \o d4 \o d5 \o d6
<1>21. Runs(c, pos, a, K, {V, Q, KK})
  BY <1>20, Weaker
<1> HIDE DEF a
<1>22. Runs(c, pos, a \o d7, K, {V, Q, KK} \cup {Q})
  BY <1>11, <1>21, Then
<1>23. Runs(c, pos, a \o d7 \o d8, K, {V, Q, KK} \cup {Q} \cup {KK})
  BY <1>12, <1>22, Then
<1>24. Runs(c, pos, a \o d7 \o d8 \o d9, K, {V, Q, KK} \cup {Q} \cup {KK} \cup {CK})
  BY <1>13, <1>23, Then
<1>25. Runs(c, pos, a \o d7 \o d8 \o d9 \o d10, K, {V, Q, KK} \cup {Q} \cup {KK} \cup {CK} \cup {CV})
  BY <1>14, <1>24, Then
<1>26. Runs(c, pos, a \o d7 \o d8 \o d9 \o d10, K, {Q, CK, CV})
  BY <1>25, Weaker
<1>. QED
  BY <1>15, <1>26 DEF a, Q, CK, CV, q, k

\* One layer needs nothing the layers before it wrote but the residual in x.
LEMMA LayerRuns ==
  ASSUME NEW c, IsConfig(c), c.maxParts \in PartCounts, NEW l, NEW pos \in Nat, pos < c.maxSeq
  PROVE  Runs(c, pos, Layer(c, l, pos), {}, {})
<1> DEFINE h == c.hidden  f == c.ffn  q == QDim(c)
           X == Of("x", h)  XB == Of("xb", h)  XC == Of("xb2", h)
           AT == Of("att", q)  G == Of("hb_gate", f)  U == Of("hb_up", f)  H == Of("hb", f)
           P == {Of("q", q), Rows("kcache", l, KvDim(c), pos, 1), Rows("vcache", l, KvDim(c), pos, 1)}
           d1 == Project(c, l, pos)
           d2 == Attend(c, l, pos)
           d3 == Matvec(c, "xb", "att", q, h)
           d4 == Norm(c, "xb2", "xb", h)
           d5 == Add(h, AddResidual("x", "xb2", h))
           d6 == Norm(c, "xb", "x", h)
           d7 == Matvec(c, "hb_gate", "xb", h, f)
           d8 == Matvec(c, "hb_up", "xb", h, f)
           d9 == Add(f, Geglu("hb", "hb_gate", "hb_up", f))
           d10 == Matvec(c, "xb", "hb", f, h)
<1>1. h \in Nat /\ f \in Nat /\ q \in Nat /\ h <= f /\ q <= f /\ f <= f
  BY Dims DEF IsConfig, Numbers
<1>2. /\ Size(c)["x"] = h /\ Size(c)["xb"] = h /\ Size(c)["xb2"] = h
      /\ Size(c)["hb_gate"] = f /\ Size(c)["hb_up"] = f /\ Size(c)["hb"] = f
  BY Sizes
<1>3. /\ h \in {QDim(c), KvDim(c), c.hidden, c.ffn, c.vocab} /\ h <= Size(c)["xb"]
      /\ f \in {QDim(c), KvDim(c), c.hidden, c.ffn, c.vocab}
      /\ f <= Size(c)["hb_gate"] /\ f <= Size(c)["hb_up"]
  BY <1>1, <1>2
<1> HIDE DEF h, f, q
<1>4. Runs(c, pos, d1, {}, P)
  BY ProjectRuns DEF q
<1>5. Runs(c, pos, d2, P, {AT})
  BY AttendRuns DEF q
<1>6. Runs(c, pos, d3, {AT}, {XB})
  <2>1. FilledBy(c, pos, AT, {AT})
    BY <1>1, Written
  <2>. QED
    BY <1>1, <1>3, <2>1, MatvecRuns DEF f
<1>7. Runs(c, pos, d4, {XB}, {XC})
  <2>1. FilledBy(c, pos, XB, {XB})
    BY <1>1, Written
  <2>. QED
    BY <1>1, <1>2, <2>1, NormRuns
<1>8. \A K : FilledBy(c, pos, X, K)
  BY <1>1 DEF FilledBy, Covers, Of, h
<1>9. Runs(c, pos, d5, {XC}, {X})
  <2>1. FilledBy(c, pos, XC, {XC})
    BY <1>1, Written
  <2>2. DispatchFits(c, pos, h, AddResidual("x", "xb2", h), {XC})
    BY <1>1, <1>2, <1>8, <2>1 DEF DispatchFits, AddResidual, Kernel, Of
  <2>. QED
    BY <2>2, Alone DEF AddResidual, Kernel
<1>10. Runs(c, pos, d6, {X}, {XB})
  BY <1>1, <1>2, <1>8, NormRuns
<1>11. FilledBy(c, pos, XB, {XB})
  BY <1>1, Written
<1>12. Runs(c, pos, d7, {XB}, {G})
  BY <1>1, <1>3, <1>11, MatvecRuns DEF f
<1>13. Runs(c, pos, d8, {XB}, {U})
  BY <1>1, <1>3, <1>11, MatvecRuns DEF f
<1>14. Runs(c, pos, d9, {G, U}, {H})
  <2>1. FilledBy(c, pos, G, {G, U}) /\ FilledBy(c, pos, U, {G, U})
    BY <1>1, Written
  <2>2. DispatchFits(c, pos, f, Geglu("hb", "hb_gate", "hb_up", f), {G, U})
    BY <1>1, <1>2, <2>1 DEF DispatchFits, Geglu, Kernel, Of
  <2>. QED
    BY <2>2, Alone DEF Geglu, Kernel
<1>15. Runs(c, pos, d10, {H}, {XB})
  <2>1. FilledBy(c, pos, H, {H})
    BY <1>1, Written
  <2>. QED
    BY <1>1, <1>3, <2>1, MatvecRuns DEF f
<1>16. Layer(c, l, pos) = d1 \o d2 \o d3 \o d4 \o d5 \o d6 \o d7 \o d8 \o d9 \o d10 \o d4 \o d5
  BY DEF Layer, h, f, q
<1> HIDE DEF P, X, XB, XC, AT, G, U, H, d1, d2, d3, d4, d5, d6, d7, d8, d9, d10
<1>17. Runs(c, pos, d1 \o d2, {}, P \cup {AT})
  BY <1>4, <1>5, Then
<1>18. Runs(c, pos, d1 \o d2 \o d3, {}, P \cup {AT} \cup {XB})
  BY <1>6, <1>17, Then
<1>19. Runs(c, pos, d1 \o d2 \o d3 \o d4, {}, P \cup {AT} \cup {XB} \cup {XC})
  BY <1>7, <1>18, Then
<1>20. Runs(c, pos, d1 \o d2 \o d3 \o d4 \o d5, {}, P \cup {AT} \cup {XB} \cup {XC} \cup {X})
  BY <1>9, <1>19, Then
<1> DEFINE a == d1 \o d2 \o d3 \o d4 \o d5
<1>21. Runs(c, pos, a, {}, {X})
  BY <1>20, Weaker
<1> HIDE DEF a
<1>22. Runs(c, pos, a \o d6, {}, {X} \cup {XB})
  BY <1>10, <1>21, Then
<1>23. Runs(c, pos, a \o d6 \o d7, {}, {X} \cup {XB} \cup {G})
  BY <1>12, <1>22, Then
<1>24. Runs(c, pos, a \o d6 \o d7 \o d8, {}, {X} \cup {XB} \cup {G} \cup {U})
  BY <1>13, <1>23, Then
<1>25. Runs(c, pos, a \o d6 \o d7 \o d8 \o d9, {}, {X} \cup {XB} \cup {G} \cup {U} \cup {H})
  BY <1>14, <1>24, Then
<1>26. Runs(c, pos, a \o d6 \o d7 \o d8 \o d9 \o d10, {}, {X} \cup {XB} \cup {G} \cup {U} \cup {H} \cup {XB})
  BY <1>15, <1>25, Then
<1> DEFINE b == a \o d6 \o d7 \o d8 \o d9 \o d10
<1>27. Runs(c, pos, b, {}, {XB})
  BY <1>26, Weaker
<1> HIDE DEF b
<1>28. Runs(c, pos, b \o d4, {}, {XB} \cup {XC})
  BY <1>7, <1>27, Then
<1>29. Runs(c, pos, b \o d4 \o d5, {}, {XB} \cup {XC} \cup {X})
  BY <1>9, <1>28, Then
<1>30. Runs(c, pos, b \o d4 \o d5, {}, {})
  BY <1>29, Weaker
<1>. QED
  BY <1>16, <1>30 DEF a, b

\* What the sampler reads of a session.
Sampled(c) == IF ~c.temperature THEN {Of("sample_out", 2)}
              ELSE IF c.harvest THEN {Of("cand_val", 4 * c.topkParts), Of("cand_idx", 4 * c.topkParts)}
              ELSE {Of("logits", c.vocab)}

\* The sampling epilogue leaves what the sampler reads.
LEMMA PickRuns ==
  ASSUME NEW c, IsConfig(c), NEW pos
  PROVE  Runs(c, pos, PickToken(c), {Of("logits", c.vocab)},
              IF c.temperature /\ ~c.harvest THEN {} ELSE Sampled(c))
<1> DEFINE v == c.vocab  n == c.amParts  m == c.amParts2
           LG == Of("logits", v)
           W == IF c.temperature /\ ~c.harvest THEN {} ELSE Sampled(c)
<1>1. v \in Nat /\ n \in Nat /\ m \in Nat /\ c.topkParts \in Nat
  BY DEF IsConfig, Numbers
<1>2. FilledBy(c, pos, LG, {LG})
  BY <1>1, Written
<1>3. CASE c.harvest
  <2>1. Size(c)["cand_val"] = 4 * c.topkParts /\ Size(c)["cand_idx"] = 4 * c.topkParts
    BY Sizes
  <2>2. DispatchFits(c, pos, c.topkParts, Topk4(v, c.topkParts), {LG})
    BY <1>1, <1>2, <2>1 DEF DispatchFits, Topk4, Kernel, Of
  <2>3. Topk4(v, c.topkParts).writes = Sampled(c) /\ W = Sampled(c)
    BY <1>3 DEF IsConfig, Topk4, Kernel, Sampled
  <2>4. PickToken(c) = Add(c.topkParts, Topk4(v, c.topkParts))
    BY <1>3 DEF PickToken
  <2> HIDE DEF LG, W, v
  <2>5. Runs(c, pos, PickToken(c), {LG}, W)
    BY <2>2, <2>3, <2>4, Alone
  <2>. QED
    BY <2>5 DEF LG, W, v
<1>4. CASE ~c.harvest
  <2>1. W \subseteq {Of("sample_out", 2)}
    BY <1>4 DEF Sampled
  <2>2. CASE c.argmaxKernels
    <3> DEFINE P == {Of("am_val", n), Of("am_idx", n)}
               R == {Of("am_val2", m), Of("am_idx2", m)}
               S == {Of("sample_out", 2), Of("am_out_idx", 1)}
               d1 == Add(n, ArgmaxPartial(v, n))
               d2 == Add(m, ArgmaxReduce(n, m))
               d3 == Add(1, ArgmaxFinal(m))
    <3>1. /\ Size(c)["am_val"] = n /\ Size(c)["am_idx"] = n
          /\ Size(c)["am_val2"] = m /\ Size(c)["am_idx2"] = m
          /\ Size(c)["sample_out"] = 2 /\ Size(c)["am_out_idx"] = 1
      BY Sizes
    <3>2. /\ FilledBy(c, pos, Of("am_val", n), P) /\ FilledBy(c, pos, Of("am_idx", n), P)
          /\ FilledBy(c, pos, Of("am_val2", m), R) /\ FilledBy(c, pos, Of("am_idx2", m), R)
      BY <1>1, Written
    <3>3. DispatchFits(c, pos, n, ArgmaxPartial(v, n), {LG})
      BY <1>1, <1>2, <3>1 DEF DispatchFits, ArgmaxPartial, Kernel, Of
    <3>4. DispatchFits(c, pos, m, ArgmaxReduce(n, m), P)
      BY <1>1, <3>1, <3>2 DEF DispatchFits, ArgmaxReduce, Kernel, Of
    <3>5. DispatchFits(c, pos, 1, ArgmaxFinal(m), R)
      BY <1>1, <3>1, <3>2 DEF DispatchFits, ArgmaxFinal, Kernel, Of
    <3>6. Runs(c, pos, d1, {LG}, P)
      BY <3>3, Alone DEF ArgmaxPartial, Kernel
    <3>7. Runs(c, pos, d2, P, R)
      BY <3>4, Alone DEF ArgmaxReduce, Kernel
    <3>8. Runs(c, pos, d3, R, S)
      BY <3>5, Alone DEF ArgmaxFinal, Kernel
    <3>9. PickToken(c) = (d1 \o d2) \o d3
      BY <1>4, <2>2 DEF PickToken
    <3>10. W \subseteq S
      BY <2>1
    <3> HIDE DEF P, R, S, d1, d2, d3, W, LG, v
    <3>11. Runs(c, pos, d1 \o d2, {LG}, P \cup R)
      BY <3>6, <3>7, Then
    <3>12. Runs(c, pos, (d1 \o d2) \o d3, {LG}, (P \cup R) \cup S)
      BY <3>8, <3>11, Then
    <3>13. Runs(c, pos, PickToken(c), {LG}, W)
      BY <3>9, <3>10, <3>12, Weaker
    <3>. QED
      BY <3>13 DEF W, LG, v
  <2>3. CASE ~c.argmaxKernels
    <3>1. Size(c)["sample_out"] = 2
      BY Sizes
    <3>2. DispatchFits(c, pos, 1, ArgmaxSerial(v), {LG})
      BY <1>1, <1>2, <3>1 DEF DispatchFits, ArgmaxSerial, Kernel, Of
    <3>3. Runs(c, pos, Add(1, ArgmaxSerial(v)), {LG}, {Of("sample_out", 2)})
      BY <3>2, Alone DEF ArgmaxSerial, Kernel
    <3>4. PickToken(c) = Add(1, ArgmaxSerial(v))
      BY <1>4, <2>3 DEF PickToken
    <3> HIDE DEF W, LG, v
    <3>5. Runs(c, pos, PickToken(c), {LG}, W)
      BY <2>1, <3>3, <3>4, Weaker
    <3>. QED
      BY <3>5 DEF W, LG, v
  <2>. QED
    BY <2>2, <2>3
<1>. QED
  BY <1>3, <1>4

LEMMA LayersRun ==
  ASSUME NEW c, IsConfig(c), c.maxParts \in PartCounts, NEW pos \in Nat, pos < c.maxSeq
  PROVE  Runs(c, pos, FlattenSeq([l \in 1..c.layers |-> Layer(c, l - 1, pos)]), {}, {})
<1> DEFINE n == c.layers
           s == [l \in 1..n |-> Layer(c, l - 1, pos)]
<1>1. n \in Nat
  BY DEF IsConfig, Numbers
<1> HIDE DEF n
<1>2. Len(s) = n /\ \A l \in 1..n : Runs(c, pos, s[l], {}, {})
  <2>1. Len(s) = n
    BY <1>1
  <2>2. ASSUME NEW l \in 1..n PROVE Runs(c, pos, s[l], {}, {})
    BY LayerRuns
  <2>. QED
    BY <2>1, <2>2
<1>3. CASE n = 0
  <2>1. FlattenSeq(s) = s
    BY <1>2, <1>3 DEF FlattenSeq
  <2>2. s \in Seq({})
    BY <1>3
  <2>3. IsSequence(s)
    BY <2>2 DEF IsSequence
  <2> HIDE DEF s
  <2>4. Runs(c, pos, s, {}, {})
    BY <1>2, <1>3, <2>3 DEF Runs
  <2>. QED
    BY <2>1, <2>4 DEF s, n
<1>4. CASE n # 0
  <2> HIDE DEF s
  <2>1. PICK f : /\ FlattenSeq(s) = f[n]
                 /\ \A i \in 1..n : f[i] = IF i = 1 THEN s[i] ELSE f[i - 1] \o s[i]
    BY <1>1, <1>2, <1>4, Flattened
  <2> DEFINE S == {i \in Nat : i + 1 \in 1..n => Runs(c, pos, f[i + 1], {}, {})}
  <2>2. 0 \in S
    BY <1>1, <1>2, <1>4, <2>1
  <2>3. ASSUME NEW i \in S PROVE i + 1 \in S
    <3>1. SUFFICES ASSUME (i + 1) + 1 \in 1..n PROVE Runs(c, pos, f[(i + 1) + 1], {}, {})
      OBVIOUS
    <3>2. i \in Nat /\ i + 1 \in 1..n /\ (i + 1) + 1 # 1 /\ ((i + 1) + 1) - 1 = i + 1
      BY <1>1, <3>1
    <3>3. f[(i + 1) + 1] = f[i + 1] \o s[(i + 1) + 1]
      BY <2>1, <3>1, <3>2
    <3>4. Runs(c, pos, f[i + 1], {}, {}) /\ Runs(c, pos, s[(i + 1) + 1], {}, {})
      BY <1>2, <3>1, <3>2
    <3>5. Runs(c, pos, f[i + 1] \o s[(i + 1) + 1], {}, {} \cup {})
      BY <3>4, Then
    <3>. QED
      BY <3>3, <3>5
  <2>4. S \in SUBSET Nat
    OBVIOUS
  <2> HIDE DEF S
  <2>5. S = Nat
    BY <2>2, <2>3, <2>4, EveryNumber
  <2>6. n - 1 \in S /\ (n - 1) + 1 = n /\ n \in 1..n
    BY <1>1, <1>4, <2>5
  <2>7. Runs(c, pos, f[n], {}, {})
    BY <2>6 DEF S
  <2>. QED
    BY <2>1, <2>7 DEF s, n
<1>. QED
  BY <1>3, <1>4

\* A token's dispatches are right in the order they are recorded.
LEMMA TokenRuns ==
  ASSUME NEW c, IsConfig(c), c.maxParts \in PartCounts, NEW pos \in Nat, pos < c.maxSeq,
         NEW want \in BOOLEAN
  PROVE  Runs(c, pos, RecordToken(c, pos, want), {}, IF want THEN Sampled(c) ELSE {})
<1> DEFINE d1 == FlattenSeq([l \in 1..c.layers |-> Layer(c, l - 1, pos)])
           d2 == Norm(c, "xb", "x", c.hidden)
           d3 == Matvec(c, "logits", "xb", c.hidden, c.vocab)
           d4 == PickToken(c)
           XB == {Of("xb", c.hidden)}
           LG == {Of("logits", c.vocab)}
           W == IF c.temperature /\ ~c.harvest THEN {} ELSE Sampled(c)
<1>1. c.hidden \in Nat /\ c.ffn \in Nat /\ c.vocab \in Nat /\ c.hidden <= c.ffn
  BY DEF IsConfig, Numbers
<1>2. Size(c)["xb"] = c.hidden /\ Size(c)["logits"] = c.vocab
  BY Sizes
<1>3. Runs(c, pos, d1, {}, {})
  BY LayersRun
<1>4. Runs(c, pos, d2, {}, XB)
  <2>1. FilledBy(c, pos, Of("x", c.hidden), {})
    BY <1>1 DEF FilledBy, Covers, Of
  <2>. QED
    BY <1>1, <1>2, <2>1, NormRuns
<1>5. Runs(c, pos, d3, XB, LG)
  <2>1. FilledBy(c, pos, Of("xb", c.hidden), XB)
    BY <1>1, Written
  <2>2. c.vocab \in {QDim(c), KvDim(c), c.hidden, c.ffn, c.vocab} /\ c.vocab <= Size(c)["logits"]
    BY <1>1, <1>2
  <2>. QED
    BY <1>1, <2>1, <2>2, MatvecRuns
<1>6. Runs(c, pos, d4, LG, W)
  BY PickRuns
<1>7. RecordToken(c, pos, want) = (d1 \o d2) \o (IF want THEN d3 \o d4 ELSE <<>>)
  BY DEF RecordToken
<1>8. Sampled(c) \subseteq LG \cup W
  BY DEF Sampled
<1> HIDE DEF d1, d2, d3, d4, XB, LG, W
<1>9. Runs(c, pos, d1 \o d2, {}, {} \cup XB)
  BY <1>3, <1>4, Then
<1>10. CASE want
  <2>1. Runs(c, pos, d3 \o d4, XB, LG \cup W)
    BY <1>5, <1>6, Then
  <2>2. Runs(c, pos, (d1 \o d2) \o (d3 \o d4), {}, ({} \cup XB) \cup (LG \cup W))
    BY <1>9, <2>1, Then
  <2>3. Runs(c, pos, (d1 \o d2) \o (d3 \o d4), {}, Sampled(c))
    BY <1>8, <2>2, Weaker
  <2>. QED
    BY <1>7, <1>10, <2>3
<1>11. CASE ~want
  <2>1. Runs(c, pos, <<>>, {}, {})
    <3>1. IsSequence(<<>>)
      <4>1. <<>> \in Seq({})
        OBVIOUS
      <4>. QED
        BY <4>1 DEF IsSequence
    <3>2. Len(<<>>) = 0
      OBVIOUS
    <3>. QED
      BY <3>1, <3>2 DEF Runs
  <2>2. Runs(c, pos, (d1 \o d2) \o <<>>, {}, ({} \cup XB) \cup {})
    BY <1>9, <2>1, Then
  <2>3. Runs(c, pos, (d1 \o d2) \o <<>>, {}, {})
    BY <2>2, Weaker
  <2>. QED
    BY <1>7, <1>11, <2>3
<1>. QED
  BY <1>10, <1>11
-----------------------------------------------------------------------------
(* How many dispatches there are.                                           *)

Counts(ds, n) == IsSequence(ds) /\ Len(ds) = n /\ n \in Nat

LEMMA CountOne == ASSUME NEW t, NEW k PROVE Counts(Add(t, k), 1)
<1> DEFINE d == [threads |-> t, need |-> k.need, writes |-> k.writes, reads |-> k.reads]
<1>1. Add(t, k) = <<d>> /\ <<d>> \in Seq({d}) /\ Len(<<d>>) = 1
  BY DEF Add
<1>. QED
  BY <1>1 DEF Counts, IsSequence

LEMMA CountBoth ==
  ASSUME NEW a, NEW b, NEW m, NEW n, Counts(a, m), Counts(b, n)
  PROVE  Counts(a \o b, m + n)
<1>1. /\ IsSequence(a) /\ IsSequence(b) /\ Len(a) = m /\ Len(b) = n /\ m \in Nat /\ n \in Nat
  BY DEF Counts
<1>2. IsSequence(a \o b) /\ Len(a \o b) = Len(a) + Len(b)
  BY <1>1, InTurn
<1>. QED
  BY <1>1, <1>2 DEF Counts

LEMMA NormCount == ASSUME NEW c, NEW to, NEW in, NEW n PROVE Counts(Norm(c, to, in, n), 2)
<1>1. Counts(Norm(c, to, in, n), 1 + 1)
  BY CountOne, CountBoth DEF Norm
<1>. QED
  BY <1>1

LEMMA MatvecCounted ==
  ASSUME NEW c, NEW to, NEW in, NEW rows, NEW cols
  PROVE  /\ Counts(Matvec(c, to, in, rows, cols), MatvecCount(c, rows, cols))
         /\ MatvecCount(c, rows, cols) \in Nat
<1> DEFINE sp == SplitFor(c, rows, cols)
<1>1. CASE sp > 1
  <2>1. Counts(Matvec(c, to, in, rows, cols), 1 + 1)
    BY <1>1, CountOne, CountBoth DEF Matvec
  <2>. QED
    BY <1>1, <2>1 DEF MatvecCount
<1>2. CASE ~(sp > 1)
  BY <1>2, CountOne DEF Matvec, MatvecCount
<1>. QED
  BY <1>1, <1>2

LEMMA ProjectCount ==
  ASSUME NEW c, NEW l, NEW pos
  PROVE  Counts(Project(c, l, pos),
                8 + MatvecCount(c, c.hidden, QDim(c)) + 2 * MatvecCount(c, c.hidden, KvDim(c)))
<1> DEFINE q == QDim(c)  k == KvDim(c)
           m == MatvecCount(c, c.hidden, q)  n == MatvecCount(c, c.hidden, k)
           d1 == Norm(c, "xb", "x", c.hidden)
           d2 == Matvec(c, "q_raw", "xb", c.hidden, q)
           d3 == Matvec(c, "k_raw", "xb", c.hidden, k)
           d4 == Matvec(c, "v", "xb", c.hidden, k)
           d5 == Add(q, HeadsNorm("q", "q_raw", q))
           d6 == Add(k, HeadsNorm("k", "k_raw", k))
           d7 == Add(q \div 2, Rope("q", c.heads, c.headDim))
           d8 == Add(k \div 2, Rope("k", c.kvHeads, c.headDim))
           d9 == Add(k, KvAppend("kcache", l, "k", k, pos))
           d10 == Add(k, KvAppend("vcache", l, "v", k, pos))
<1>1. Counts(d1, 2)
  BY NormCount
<1>2. Counts(d2, m) /\ Counts(d3, n) /\ Counts(d4, n) /\ m \in Nat /\ n \in Nat
  BY MatvecCounted
<1>3. Counts(d5, 1) /\ Counts(d6, 1) /\ Counts(d7, 1) /\ Counts(d8, 1) /\ Counts(d9, 1) /\ Counts(d10, 1)
  BY CountOne
<1>4. Project(c, l, pos) = d1 \o d2 \o d3 \o d4 \o d5 \o d6 \o d7 \o d8 \o d9 \o d10
  BY DEF Project
<1> HIDE DEF m, n, d1, d2, d3, d4, d5, d6, d7, d8, d9, d10
<1>5. Counts(d1 \o d2 \o d3 \o d4, 2 + m + n + n)
  BY <1>1, <1>2, CountBoth
<1> DEFINE a == d1 \o d2 \o d3 \o d4
<1> HIDE DEF a
<1>6. Counts(a \o d5 \o d6 \o d7 \o d8 \o d9 \o d10, 2 + m + n + n + 1 + 1 + 1 + 1 + 1 + 1)
  <2>1. Counts(a \o d5 \o d6 \o d7, 2 + m + n + n + 1 + 1 + 1)
    BY <1>3, <1>5, CountBoth DEF a
  <2>. QED
    BY <1>3, <2>1, CountBoth
<1>7. 2 + m + n + n + 1 + 1 + 1 + 1 + 1 + 1 = 8 + m + 2 * n
  BY <1>2
<1>. QED
  BY <1>4, <1>6, <1>7 DEF a, m, n

SoftmaxCount(c, span) == IF c.parSoftmax /\ SoftmaxParts(c, span) > 1 THEN 3 ELSE 1

LEMMA SoftmaxCounted ==
  ASSUME NEW c, NEW span
  PROVE  Counts(Softmax(c, span), SoftmaxCount(c, span))
<1>1. CASE c.parSoftmax /\ SoftmaxParts(c, span) > 1
  <2>1. Counts(Softmax(c, span), 1 + 1 + 1)
    BY <1>1, CountOne, CountBoth DEF Softmax
  <2>. QED
    BY <1>1, <2>1 DEF SoftmaxCount
<1>2. CASE ~(c.parSoftmax /\ SoftmaxParts(c, span) > 1)
  BY <1>2, CountOne DEF Softmax, SoftmaxCount
<1>. QED
  BY <1>1, <1>2

\* Attention takes no more dispatches than planned, and as many over a deep span.
LEMMA AttendCount ==
  ASSUME NEW c, IsConfig(c), c.mq4 = c.parSoftmax, NEW l, NEW pos \in Nat
  PROVE  \E n : /\ Counts(Attend(c, l, pos), n) /\ n <= IF c.parSoftmax THEN 6 ELSE 3
                /\ \/ ~c.parSoftmax
                   \/ Span(c, l, pos + 1) >= c.minSpan /\ Span(c, l, pos + 1) >= 2 /\ c.maxParts > 1
                   => n = IF c.parSoftmax THEN 6 ELSE 3
<1> DEFINE start == FirstKey(c, l, pos + 1)
           span == pos + 1 - start
           sp == c.applySplit
           mq4 == c.mq4 /\ span >= c.minSpan
           first == IF mq4 THEN Add(span, ScoresMq4("q", c, l, span, start))
                    ELSE Add(c.heads * span, AttentionScores("q", c, l, span, start))
           last == IF mq4 THEN Add(c.headDim * sp, ApplyMq4(c, l, span, start, sp))
                                 \o Add(QDim(c), SumParts("att", "att_partial", QDim(c), sp))
                   ELSE Add(QDim(c), AttentionApply(c, l, span, start))
           m == SoftmaxCount(c, span)
           k == IF mq4 THEN 2 ELSE 1
<1>1. start \in Nat /\ start <= pos
  BY Looked
<1>2. span \in Nat /\ span >= 1 /\ Span(c, l, pos + 1) = span
  BY <1>1 DEF Span
<1>3. Attend(c, l, pos) = (first \o Softmax(c, span)) \o last
  BY DEF Attend
<1> HIDE DEF start, span
<1>4. Counts(first, 1)
  BY CountOne
<1>5. Counts(last, k)
  <2>1. CASE mq4
    <3>1. Counts(last, 1 + 1)
      BY <2>1, CountOne, CountBoth
    <3>. QED
      BY <2>1, <3>1
  <2>2. CASE ~mq4
    BY <2>2, CountOne
  <2>. QED
    BY <2>1, <2>2
<1>6. Counts(Softmax(c, span), m) /\ m \in {1, 3} /\ (~c.parSoftmax => m = 1)
  BY SoftmaxCounted DEF SoftmaxCount
<1>7. c.parSoftmax /\ span >= c.minSpan /\ span >= 2 /\ c.maxParts > 1 => m = 3
  <2>. SUFFICES ASSUME c.parSoftmax, span >= c.minSpan, span >= 2, c.maxParts > 1 PROVE m = 3
    OBVIOUS
  <2>1. SoftmaxParts(c, span) > 1
    BY <1>2, SeveralParts
  <2>. QED
    BY <2>1 DEF SoftmaxCount
<1>8. k \in {1, 2} /\ (c.parSoftmax /\ span >= c.minSpan => k = 2) /\ (~c.parSoftmax => k = 1)
  OBVIOUS
<1> HIDE DEF first, last, m, k
<1>9. Counts(Attend(c, l, pos), 1 + m + k)
  BY <1>3, <1>4, <1>5, <1>6, CountBoth
<1>10. 1 + m + k <= IF c.parSoftmax THEN 6 ELSE 3
  BY <1>6, <1>8
<1>11. \/ ~c.parSoftmax
       \/ span >= c.minSpan /\ span >= 2 /\ c.maxParts > 1
       => 1 + m + k = IF c.parSoftmax THEN 6 ELSE 3
  BY <1>6, <1>7, <1>8
<1>. QED
  BY <1>2, <1>9, <1>10, <1>11

\* A span that is long enough for the parallel forms, in a session that has parts.
DeepAt(c, l, len) == Span(c, l, len) >= c.minSpan /\ Span(c, l, len) >= 2 /\ c.maxParts > 1

LEMMA LayerCount ==
  ASSUME NEW c, IsConfig(c), c.layers > 1, c.mq4 = c.parSoftmax, NEW l, NEW pos \in Nat
  PROVE  \E n : /\ Counts(Layer(c, l, pos), n) /\ n <= PlannedLayer(c)
                /\ ~c.parSoftmax \/ DeepAt(c, l, pos + 1) => n = PlannedLayer(c)
<1> DEFINE h == c.hidden  f == c.ffn  q == QDim(c)
           m1 == MatvecCount(c, h, q)  m2 == MatvecCount(c, h, KvDim(c))
           m3 == MatvecCount(c, q, h)  m4 == MatvecCount(c, h, f)  m5 == MatvecCount(c, f, h)
           p == 8 + m1 + 2 * m2
           d1 == Project(c, l, pos)
           d2 == Attend(c, l, pos)
           d3 == Matvec(c, "xb", "att", q, h)
           d4 == Norm(c, "xb2", "xb", h)
           d5 == Add(h, AddResidual("x", "xb2", h))
           d6 == Norm(c, "xb", "x", h)
           d7 == Matvec(c, "hb_gate", "xb", h, f)
           d8 == Matvec(c, "hb_up", "xb", h, f)
           d9 == Add(f, Geglu("hb", "hb_gate", "hb_up", f))
           d10 == Matvec(c, "xb", "hb", f, h)
           most == IF c.parSoftmax THEN 6 ELSE 3
<1>1. /\ m1 \in Nat /\ m2 \in Nat /\ m3 \in Nat /\ m4 \in Nat /\ m5 \in Nat
      /\ Counts(d3, m3) /\ Counts(d7, m4) /\ Counts(d8, m4) /\ Counts(d10, m5)
  BY MatvecCounted
<1>2. Counts(d1, p)
  BY ProjectCount
<1>3. PICK n : /\ Counts(d2, n) /\ n <= most
               /\ ~c.parSoftmax \/ DeepAt(c, l, pos + 1) => n = most
  BY AttendCount DEF DeepAt
<1>4. Counts(d4, 2) /\ Counts(d6, 2) /\ Counts(d5, 1) /\ Counts(d9, 1)
  BY NormCount, CountOne
<1>5. Layer(c, l, pos) = d1 \o d2 \o d3 \o d4 \o d5 \o d6 \o d7 \o d8 \o d9 \o d10 \o d4 \o d5
  BY DEF Layer
<1>6. PlannedLayer(c) = 8 + 2 + (m1 + 2 * m2 + m3 + 2 * m4 + m5) + 2 + 2 + most + 1 + 2
  <2>1. PlannedMatvecs(c) = m1 + 2 * m2 + m3 + 2 * m4 + m5
    BY DEF PlannedMatvecs, IsConfig, Numbers
  <2> HIDE DEF most, m1, m2, m3, m4, m5
  <2>. QED
    BY <2>1 DEF PlannedLayer, most
<1>7. n \in Nat
  BY <1>3 DEF Counts
<1> HIDE DEF most, m1, m2, m3, m4, m5, p, d1, d2, d3, d4, d5, d6, d7, d8, d9, d10
<1>8. Counts(d1 \o d2 \o d3 \o d4 \o d5, p + n + m3 + 2 + 1)
  BY <1>1, <1>2, <1>3, <1>4, CountBoth
<1> DEFINE a == d1 \o d2 \o d3 \o d4 \o d5
<1> HIDE DEF a
<1>9. Counts(a \o d6 \o d7 \o d8 \o d9, p + n + m3 + 2 + 1 + 2 + m4 + m4 + 1)
  BY <1>1, <1>4, <1>8, CountBoth DEF a
<1> DEFINE b == a \o d6 \o d7 \o d8 \o d9
<1> HIDE DEF b
<1>10. Counts(b \o d10 \o d4 \o d5, p + n + m3 + 2 + 1 + 2 + m4 + m4 + 1 + m5 + 2 + 1)
  BY <1>1, <1>4, <1>9, CountBoth DEF b
<1> DEFINE k == p + n + m3 + 2 + 1 + 2 + m4 + m4 + 1 + m5 + 2 + 1
<1>11. k = PlannedLayer(c) - most + n /\ PlannedLayer(c) \in Int /\ most \in Int
  BY <1>1, <1>6, <1>7 DEF p, most
<1>12. Counts(Layer(c, l, pos), k)
  BY <1>5, <1>10 DEF a, b
<1> HIDE DEF k
<1>13. k <= PlannedLayer(c) /\ (n = most => k = PlannedLayer(c))
  BY <1>3, <1>7, <1>11
<1>. QED
  BY <1>3, <1>12, <1>13

LEMMA PlannedLayerTyped == ASSUME NEW c, IsConfig(c) PROVE PlannedLayer(c) \in Nat
<1>1. \A rows, cols : MatvecCount(c, rows, cols) \in Nat
  BY MatvecCounted
<1>2. PlannedMatvecs(c) \in Nat
  BY <1>1 DEF PlannedMatvecs
<1>. QED
  BY <1>2 DEF PlannedLayer

LEMMA LayersCount ==
  ASSUME NEW c, IsConfig(c), c.layers > 1, c.mq4 = c.parSoftmax, NEW pos \in Nat
  PROVE  \E n : /\ Counts(FlattenSeq([l \in 1..c.layers |-> Layer(c, l - 1, pos)]), n)
                /\ n <= PlannedLayer(c) * c.layers
                /\ (\A l \in 0..(c.layers - 1) : ~c.parSoftmax \/ DeepAt(c, l, pos + 1))
                   => n = PlannedLayer(c) * c.layers
<1> DEFINE B == PlannedLayer(c)
           s == [l \in 1..c.layers |-> Layer(c, l - 1, pos)]
           all == \A l \in 0..(c.layers - 1) : ~c.parSoftmax \/ DeepAt(c, l, pos + 1)
<1>1. c.layers \in Nat /\ c.layers # 0 /\ B \in Nat
  BY PlannedLayerTyped DEF IsConfig, Numbers
<1>2. Len(s) = c.layers
  BY <1>1
<1>3. ASSUME NEW l \in 1..c.layers
      PROVE  \E n : Counts(s[l], n) /\ n <= B /\ (all => n = B)
  <2>1. s[l] = Layer(c, l - 1, pos) /\ l - 1 \in 0..(c.layers - 1)
    BY <1>1
  <2>2. \E n : /\ Counts(Layer(c, l - 1, pos), n) /\ n <= B
               /\ ~c.parSoftmax \/ DeepAt(c, l - 1, pos + 1) => n = B
    BY LayerCount
  <2>. QED
    BY <2>1, <2>2
<1> HIDE DEF s, B, all
<1>4. PICK f : /\ FlattenSeq(s) = f[c.layers]
               /\ \A i \in 1..c.layers : f[i] = IF i = 1 THEN s[i] ELSE f[i - 1] \o s[i]
  BY <1>1, <1>2, Flattened
<1> DEFINE Ok(i, n) == Counts(f[i], n) /\ n <= B * i /\ (all => n = B * i)
           S == {i \in Nat : i + 1 \in 1..c.layers => \E n : Ok(i + 1, n)}
<1>5. 0 \in S
  <2>1. f[1] = s[1] /\ B * 1 = B /\ 1 \in 1..c.layers
    BY <1>1, <1>4
  <2>2. PICK n : Counts(s[1], n) /\ n <= B /\ (all => n = B)
    BY <1>3, <2>1
  <2>3. Ok(1, n)
    BY <2>1, <2>2
  <2>. QED
    BY <2>3
<1>6. ASSUME NEW i \in S PROVE i + 1 \in S
  <2>1. SUFFICES ASSUME (i + 1) + 1 \in 1..c.layers PROVE \E n : Ok((i + 1) + 1, n)
    OBVIOUS
  <2>2. i \in Nat /\ i + 1 \in 1..c.layers /\ (i + 1) + 1 # 1 /\ ((i + 1) + 1) - 1 = i + 1
    BY <1>1, <2>1
  <2>3. PICK m : Ok(i + 1, m)
    BY <2>2
  <2>4. PICK n : Counts(s[(i + 1) + 1], n) /\ n <= B /\ (all => n = B)
    BY <1>3, <2>1
  <2>5. f[(i + 1) + 1] = f[i + 1] \o s[(i + 1) + 1]
    BY <1>4, <2>1, <2>2
  <2>6. Counts(f[(i + 1) + 1], m + n)
    BY <2>3, <2>4, <2>5, CountBoth
  <2>7. B * ((i + 1) + 1) = B * (i + 1) + B /\ B * (i + 1) \in Nat
    BY <1>1, <2>2
  <2>8. m \in Nat /\ n \in Nat
    BY <2>3, <2>4 DEF Counts
  <2>9. m + n <= B * ((i + 1) + 1) /\ (all => m + n = B * ((i + 1) + 1))
    <3>1. m <= B * (i + 1) /\ (all => m = B * (i + 1))
      BY <2>3
    <3> DEFINE x == B * (i + 1)  y == B * ((i + 1) + 1)
    <3>2. y = x + B /\ x \in Nat /\ m <= x /\ (all => m = x)
      BY <2>7, <3>1
    <3> HIDE DEF x, y
    <3>3. m + n <= y /\ (all => m + n = y)
      BY <1>1, <2>4, <2>8, <3>2
    <3>. QED
      BY <3>3 DEF x, y
  <2>10. Ok((i + 1) + 1, m + n)
    BY <2>6, <2>9
  <2>. QED
    BY <2>10
<1>7. S \in SUBSET Nat
  OBVIOUS
<1> HIDE DEF S
<1>8. S = Nat
  BY <1>5, <1>6, <1>7, EveryNumber
<1>9. c.layers - 1 \in S /\ (c.layers - 1) + 1 = c.layers /\ c.layers \in 1..c.layers
  BY <1>1, <1>8
<1>10. \E n : Ok(c.layers, n)
  BY <1>9 DEF S
<1>. QED
  BY <1>4, <1>10 DEF s, B, all

\* A token takes no more dispatches than planned, and as many where every layer's
\* span is deep.
LEMMA TokenCount ==
  ASSUME NEW c, IsConfig(c), c.layers > 1, c.mq4 = c.parSoftmax,
         c.temperature /\ ~c.fullVocab => c.harvest, NEW pos \in Nat, NEW want \in BOOLEAN
  PROVE  LET planned == IF want THEN PlannedTotal(c) ELSE PlannedPrefill(c)
         IN  /\ Len(RecordToken(c, pos, want)) <= planned
             /\ (\A l \in 0..(c.layers - 1) : ~c.parSoftmax \/ DeepAt(c, l, pos + 1))
                => Len(RecordToken(c, pos, want)) = planned
<1> DEFINE d1 == FlattenSeq([l \in 1..c.layers |-> Layer(c, l - 1, pos)])
           d2 == Norm(c, "xb", "x", c.hidden)
           d3 == Matvec(c, "logits", "xb", c.hidden, c.vocab)
           d4 == PickToken(c)
           B == PlannedLayer(c) * c.layers
           m == MatvecCount(c, c.hidden, c.vocab)
           k == IF c.harvest THEN 1 ELSE IF c.argmaxKernels THEN 3 ELSE 1
           all == \A l \in 0..(c.layers - 1) : ~c.parSoftmax \/ DeepAt(c, l, pos + 1)
<1>1. PICK n : Counts(d1, n) /\ n <= B /\ (all => n = B)
  BY LayersCount
<1>2. Counts(d2, 2) /\ Counts(d3, m) /\ m \in Nat
  BY NormCount, MatvecCounted
<1>3. Counts(d4, k)
  <2>1. CASE c.harvest
    BY <2>1, CountOne DEF PickToken
  <2>2. CASE ~c.harvest /\ c.argmaxKernels
    <3>1. Counts(d4, 1 + 1 + 1)
      BY <2>2, CountOne, CountBoth DEF PickToken
    <3>. QED
      BY <2>2, <3>1
  <2>3. CASE ~c.harvest /\ ~c.argmaxKernels
    BY <2>3, CountOne DEF PickToken
  <2>. QED
    BY <2>1, <2>2, <2>3
<1>4. B \in Nat /\ n \in Nat
  <2>1. PlannedLayer(c) \in Nat /\ c.layers \in Nat
    BY PlannedLayerTyped DEF IsConfig, Numbers
  <2>2. \A a, b \in Nat : a * b \in Nat
    OBVIOUS
  <2>. QED
    BY <1>1, <2>1, <2>2 DEF Counts
<1>5. PlannedPrefill(c) = B + 2
  BY DEF PlannedPrefill
<1>6. PlannedTotal(c) = B + 2 + (m + k) /\ k \in Nat
  <2>1. PlannedHead(c) = m + k
    BY DEF PlannedHead, IsConfig
  <2> HIDE DEF B, m
  <2>. QED
    BY <1>5, <2>1 DEF PlannedTotal
<1>7. RecordToken(c, pos, want) = (d1 \o d2) \o (IF want THEN d3 \o d4 ELSE <<>>)
  BY DEF RecordToken
<1> HIDE DEF d1, d2, d3, d4, B, m, k, all
<1>8. Counts(d1 \o d2, n + 2)
  BY <1>1, <1>2, CountBoth
<1>9. CASE want
  <2>1. Counts(RecordToken(c, pos, want), n + 2 + (m + k))
    BY <1>2, <1>3, <1>7, <1>8, <1>9, CountBoth
  <2>2. Len(RecordToken(c, pos, want)) = n + 2 + (m + k)
    BY <2>1 DEF Counts
  <2>3. /\ Len(RecordToken(c, pos, want)) <= PlannedTotal(c)
        /\ all => Len(RecordToken(c, pos, want)) = PlannedTotal(c)
    BY <1>1, <1>2, <1>4, <1>6, <2>2
  <2>. QED
    BY <1>9, <2>3 DEF all
<1>10. CASE ~want
  <2>1. Counts(<<>>, 0)
    <3>1. <<>> \in Seq({}) /\ Len(<<>>) = 0
      OBVIOUS
    <3>. QED
      BY <3>1 DEF Counts, IsSequence
  <2>2. Counts(RecordToken(c, pos, want), n + 2 + 0)
    BY <1>7, <1>8, <1>10, <2>1, CountBoth
  <2>3. Len(RecordToken(c, pos, want)) = n + 2
    BY <1>4, <2>2 DEF Counts
  <2>4. /\ Len(RecordToken(c, pos, want)) <= PlannedPrefill(c)
        /\ all => Len(RecordToken(c, pos, want)) = PlannedPrefill(c)
    BY <1>1, <1>4, <1>5, <2>3
  <2>. QED
    BY <1>10, <2>4 DEF all
<1>. QED
  BY <1>9, <1>10
-----------------------------------------------------------------------------
(* The session.                                                             *)

\* The last token's chain is what record_token records there.
QInv ==
  \/ PlanRests
  \/ /\ IsConfig(config) /\ logits \in BOOLEAN
     /\ \/ position = 0 /\ chain = <<>>
        \/ /\ position \in Nat \ {0} /\ position <= config.maxSeq
           /\ chain = RecordToken(config, position - 1, logits)

THEOREM PlanInductive == Spec => []QInv
<1>1. Init => QInv
  BY IsEffective DEF Init, QInv, PlanInit
<1>2. QInv /\ [Next]_avars => QInv'
  <2>. SUFFICES ASSUME QInv, [Next]_avars PROVE QInv'
    OBVIOUS
  <2>1. ASSUME NEW want \in BOOLEAN, RecordPass(want) PROVE QInv'
    <3>1. position < config.maxSeq /\ config' = config /\ logits' = want /\ position' = position + 1
          /\ chain' = RecordToken(config, position, want)
      BY <2>1 DEF RecordPass
    <3>2. ~PlanRests
      BY <3>1 DEF PlanRests
    <3>3. IsConfig(config) /\ position \in Nat /\ config.maxSeq \in Nat
      <4>1. IsConfig(config) /\ position \in Nat
        BY <3>2 DEF QInv
      <4>. QED
        BY <4>1 DEF IsConfig, Numbers
    <3>4. (position + 1) - 1 = position /\ position + 1 \in Nat \ {0} /\ position + 1 <= config.maxSeq
      BY <3>1, <3>3
    <3>5. IsConfig(config')
      BY <3>1, <3>3
    <3>. QED
      BY <3>1, <3>4, <3>5 DEF QInv
  <2>2. CASE UNCHANGED planvars
    BY <2>2 DEF planvars, QInv, PlanRests
  <2>. QED
    BY <2>1, <2>2 DEF Next, PlanNext, avars, planvars
<1>. QED
  BY <1>1, <1>2, PTL DEF Spec

\* Whatever the shape, the policy and the modules, every dispatch of a token has
\* its threads, stays within the buffers, and reads only what was written there
\* before it (ChainFits): record_token against the constructor's sizes.
THEOREM EveryChainFits == Spec => []ChainFits
<1>1. QInv => ChainFits
  <2>. SUFFICES ASSUME QInv, chain # <<>>, config.maxParts \in PartCounts
       PROVE  ChainFits
    BY DEF ChainFits
  <2> DEFINE pos == position - 1
  <2>1. /\ IsConfig(config) /\ logits \in BOOLEAN /\ position \in Nat \ {0} /\ position <= config.maxSeq
        /\ chain = RecordToken(config, pos, logits)
    BY DEF QInv, PlanRests
  <2>2. pos \in Nat /\ pos < config.maxSeq /\ pos + 1 = position
    BY <2>1 DEF IsConfig, Numbers
  <2> HIDE DEF pos
  <2>3. Runs(config, pos, chain, {}, IF logits THEN Sampled(config) ELSE {})
    BY <2>1, <2>2, TokenRuns
  <2>4. ASSUME NEW s, NEW i, FilledBy(config, pos, s, Before(chain, i)) PROVE Filled(s, i)
    <3>1. CASE Covers(Of("x", config.hidden), s)
      BY <3>1 DEF Filled
    <3>2. CASE \E w \in Before(chain, i) : Covers(w, s)
      BY <3>2 DEF Filled, Before
    <3>3. CASE /\ s.buffer \in {"kcache", "vcache"}
               /\ Rows(s.buffer, s.layer, KvDim(config), pos, 1) \in Before(chain, i)
               /\ Covers(Rows(s.buffer, s.layer, KvDim(config), 0, pos + 1), s)
      <4>1. Appended(s.buffer, s.layer, i)
        BY <3>3 DEF Appended, Before, pos
      <4>. QED
        BY <2>2, <3>3, <4>1 DEF Filled, Cached
    <3>. QED
      BY <2>4, <3>1, <3>2, <3>3 DEF FilledBy
  <2>5. /\ DOMAIN chain = 1..Len(chain) /\ Len(chain) \in Nat
        /\ \A i \in 1..Len(chain) : DispatchFits(config, pos, chain[i].threads, chain[i], Before(chain, i))
        /\ logits => Sampled(config) \subseteq Before(chain, Len(chain) + 1)
    <3>1. PICK D : chain \in Seq(D)
      BY <2>3 DEF Runs, IsSequence
    <3>2. \A i : {} \cup Before(chain, i) = Before(chain, i)
      OBVIOUS
    <3>. QED
      BY <2>3, <3>1, <3>2 DEF Runs
  <2>6. ASSUME NEW i \in DOMAIN chain
        PROVE  /\ chain[i].threads >= chain[i].need
               /\ \A w \in chain[i].writes : w.from + w.n <= Size(config)[w.buffer]
               /\ \A s \in chain[i].reads : Filled(s, i)
               /\ \A w \in chain[i].writes, s \in chain[i].reads :
                    w.buffer = s.buffer /\ w.layer = s.layer => w = s
    BY <2>4, <2>5 DEF DispatchFits
  <2>7. ASSUME logits, NEW s \in SamplerReads PROVE Filled(s, Len(chain) + 1)
    <3>1. s \in Before(chain, Len(chain) + 1)
      BY <2>5, <2>7 DEF SamplerReads, Sampled
    <3>2. config.topkParts \in Nat /\ config.vocab \in Nat
      BY <2>1 DEF IsConfig, Numbers
    <3>3. \E n \in Int, b \in {"sample_out", "cand_val", "cand_idx", "logits"} : s = Of(b, n)
      <4>1. \/ s = Of("sample_out", 2) \/ s = Of("logits", config.vocab)
            \/ s = Of("cand_val", 4 * config.topkParts) \/ s = Of("cand_idx", 4 * config.topkParts)
        BY <2>7 DEF SamplerReads
      <4>2. 4 * config.topkParts \in Int
        BY <3>2
      <4>. QED
        BY <3>2, <4>1, <4>2
    <3>4. FilledBy(config, pos, s, Before(chain, Len(chain) + 1))
      BY <3>1, <3>3, Written
    <3>. QED
      BY <2>4, <3>4
  <2>. QED
    BY <2>6, <2>7 DEF ChainFits
<1>. QED
  BY <1>1, PlanInductive, PTL

\* plan_token never promises fewer dispatches than record_token records, and as
\* many once every layer is deep (AsPlanned), for any number of layers, shape
\* and policy: what the caller sizes its batch from.
THEOREM EveryTokenAsPlanned == Spec => []AsPlanned
<1>1. QInv => AsPlanned
  <2>. SUFFICES ASSUME QInv, chain # <<>>, config.layers > 1, config.mq4 = config.parSoftmax,
                       config.temperature /\ ~config.fullVocab => config.harvest
       PROVE  Len(chain) <= Planned /\ (Deep \/ ~config.parSoftmax => Len(chain) = Planned)
    BY DEF AsPlanned
  <2> DEFINE pos == position - 1
  <2>1. /\ IsConfig(config) /\ logits \in BOOLEAN /\ position \in Nat \ {0}
        /\ chain = RecordToken(config, pos, logits)
    BY DEF QInv, PlanRests
  <2>2. pos \in Nat /\ pos + 1 = position
    BY <2>1
  <2> HIDE DEF pos
  <2>3. /\ Len(chain) <= Planned
        /\ (\A l \in 0..(config.layers - 1) : ~config.parSoftmax \/ DeepAt(config, l, pos + 1))
           => Len(chain) = Planned
    BY <2>1, <2>2, TokenCount DEF Planned
  <2>4. ASSUME Deep, NEW l \in 0..(config.layers - 1) PROVE DeepAt(config, l, position)
    <3> DEFINE T == {config.minSpan, 2}
    <3>1. config.minSpan \in Nat /\ Span(config, l, position) \in Int
      <4>1. FirstKey(config, l, pos + 1) \in Nat
        BY <2>1, <2>2, Looked
      <4>2. Span(config, l, position) = position - FirstKey(config, l, pos + 1)
        BY <2>2 DEF Span
      <4>3. config.minSpan \in Nat
        BY <2>1 DEF IsConfig, Numbers
      <4>. QED
        BY <2>1, <4>1, <4>2, <4>3
    <3>2. IsFiniteSet(T)
      <4>1. IsFiniteSet({config.minSpan})
        BY FS_Singleton
      <4>2. IsFiniteSet({config.minSpan} \cup {2})
        BY <4>1, FS_AddElement
      <4>3. T = {config.minSpan} \cup {2}
        OBVIOUS
      <4>. QED
        BY <4>2, <4>3
    <3>3. T \in SUBSET Int /\ T # {} /\ config.minSpan \in T /\ 2 \in T
      BY <3>1
    <3> HIDE DEF T
    <3>4. Max(T) \in Int /\ config.minSpan <= Max(T) /\ 2 <= Max(T)
      BY <3>2, <3>3, Greatest
    <3>5. Span(config, l, position) >= Max(T) /\ config.maxParts > 1
      BY <2>4 DEF Deep, T
    <3>. QED
      BY <3>1, <3>4, <3>5 DEF DeepAt
  <2>. QED
    BY <2>2, <2>3, <2>4
<1>. QED
  BY <1>1, PlanInductive, PTL

-----------------------------------------------------------------------------
(* Packing, Quant and Sampling: what is asked once, before anything happens. *)

AskInv == question \in Questions \/ NotAsked

\* The question of a behaviour is one there is, and stays.
LEMMA Asked == Spec => []AskInv
<1>1. Init => AskInv
  BY DEF Init, AskInv
<1>2. AskInv /\ [Next]_avars => AskInv'
  BY DEF AskInv, NotAsked, Next, avars
<1>. QED
  BY <1>1, <1>2, PTL DEF Spec

\* Whatever tensor is packed, in whatever layout or type, and whatever block is
\* quantised: the kernels multiply by the weights the file holds, none off by
\* more than half a step (repack, pack_group, quantise, matvec_*).
THEOREM EveryWeightAgrees == Spec => []WeightsAgree
<1>1. AskInv => WeightsAgree
  <2>. SUFFICES ASSUME AskInv PROVE WeightsAgree
    OBVIOUS
  <2>1. ASSUME question.about = "repack"
        PROVE  RepackAgrees(question.type, question.rows, question.cols, question.look)
    <3>1. /\ question.type \in Types /\ question.rows \in Nat /\ question.cols \in Nat
          /\ question.look \in SUBSET (0..(question.rows - 1))
      BY <2>1, QuestionAssumption DEF AskInv, NotAsked
    <3>. QED
      BY <3>1, EveryRepackAgrees
  <2>2. ASSUME question.about = "pack"
        PROVE  PackingAgrees(question.layout, question.rows, question.cols, question.split)
    <3>1. /\ question.layout \in Layouts /\ question.rows \in Nat /\ question.cols \in Nat
          /\ question.split \in Nat \ {0}
      BY <2>2, QuestionAssumption DEF AskInv, NotAsked
    <3>. QED
      BY <3>1, EveryPackingAgrees
  <2>3. ASSUME question.about = "block", NEW v \in (-question.top)..question.top
        PROVE  QuantiseBounded(v, question.top)
    <3>1. question.top \in Nat
      BY <2>3, QuestionAssumption DEF AskInv, NotAsked
    <3>. QED
      BY <2>3, <3>1, QuantiseLosesHalfAStep
  <2>. QED
    BY <2>1, <2>2, <2>3 DEF WeightsAgree
<1>. QED
  BY <1>1, Asked, PTL

\* Whatever keys and tensors a file was written with, and wherever it was cut: it
\* opens only if it is legal and holds every tensor, then does if its keys have a
\* case in read_scalar, and once open reads as it was written (GGUFFile::open,
\* parse, config).
THEOREM EveryFileReadsBack == Spec => []FileReadsBack
<1>1. AskInv => FileReadsBack
  <2>. SUFFICES ASSUME AskInv, question.about = "file"
                PROVE  ReadsBack(question.file, question.cut, Opened)
    BY DEF FileReadsBack
  <2>1. Writable(question.file) /\ question.cut \in 0..Len(WriteFile(question.file))
    BY QuestionAssumption DEF AskInv, NotAsked
  <2>. QED
    BY <2>1, ReadBack DEF Opened
<1>. QED
  BY <1>1, Asked, PTL

\* Whatever the logits, the widths of the tree, top_k and top_p: the argmax
\* tree and the harvest choose as the exact scans do (argmax_*, topk4_partial,
\* sample_candidates, draw, sample_cpu).
THEOREM EveryTokenExact == Spec => []SamplesExactly
<1>1. AskInv => SamplesExactly
  <2>. SUFFICES ASSUME AskInv, question.about = "sample"
                PROVE  FastPathsExact(question.logits, question.parts, question.parts2,
                                      question.topK, question.topP)
    BY DEF SamplesExactly
  <2> DEFINE a == question.topP[1]  b == question.topP[2]
  <2>1. /\ question.logits \in Seq(Logits) /\ question.logits # <<>> /\ question.topK \in Nat
        /\ question.parts \in Nat \ {0} /\ question.parts2 \in Nat \ {0}
        /\ question.topP = <<a, b>> /\ a \in Nat \ {0} /\ b \in Nat /\ a <= b
    BY QuestionAssumption DEF AskInv, NotAsked
  <2> HIDE DEF a, b
  <2>2. FastPathsExact(question.logits, question.parts, question.parts2, question.topK, <<a, b>>)
    BY <2>1, EverySampleExact
  <2>. QED
    BY <2>1, <2>2
<1>. QED
  BY <1>1, Asked, PTL

-----------------------------------------------------------------------------
(* The tokenizer: its symbols and its queue.                                *)

Symbols == [prev : Nat, next : Nat, start : Int, n : Nat]

Live(ss) == {i \in DOMAIN ss : ss[i].n > 0}

\* The symbols that are left are a list: each is where its neighbours say.
Linked(ss) ==
  /\ ss \in Seq(Symbols)
  /\ \A i \in Live(ss) :
       /\ ss[i].next # 0 => ss[i].next \in Live(ss) /\ i < ss[i].next /\ ss[ss[i].next].prev = i
       /\ ss[i].prev # 0 => ss[i].prev \in Live(ss) /\ ss[i].prev < i /\ ss[ss[i].prev].next = i

\* A bigram was of two symbols that have only grown or gone since; while they
\* are as long as they were, they are neighbours and it is still theirs.
Noted(ss, b) ==
  /\ b.left \in DOMAIN ss /\ b.right \in DOMAIN ss /\ b.size \in Nat
  /\ b.left \in Live(ss) /\ b.right \in Live(ss) =>
       /\ b.size <= ss[b.left].n + ss[b.right].n
       /\ b.size = ss[b.left].n + ss[b.right].n =>
            /\ ss[b.left].next = b.right
            /\ b \in TryAdd(norm, ss, b.left, b.right)

\* Whatever could be merged is in the queue; the rest of the queue is stale.
Queued(ss, w) == Mergeable(ss) \subseteq w /\ \A b \in w : Noted(ss, b)

MergeInv == phase = "merge" => Linked(syms) /\ Queued(syms, work)

\* What try_add pushes names its two symbols and their sizes.
LEMMA Added ==
  ASSUME NEW s, NEW ss, NEW l, NEW r, NEW b \in TryAdd(s, ss, l, r)
  PROVE  l # 0 /\ r # 0 /\ b.left = l /\ b.right = r /\ b.size = ss[l].n + ss[r].n
BY DEF TryAdd

\* It looks at where the left symbol starts and at the two lengths.
LEMMA AddedAlike ==
  ASSUME NEW s, NEW ss, NEW tt, NEW l, NEW r,
         ss[l].start = tt[l].start, ss[l].n = tt[l].n, ss[r].n = tt[r].n
  PROVE  TryAdd(s, ss, l, r) = TryAdd(s, tt, l, r)
BY DEF TryAdd, Joined

\* What a merge does to the list.
LEMMA Merging ==
  ASSUME Linked(syms), NEW b, b.left \in Live(syms), b.right \in Live(syms),
         syms[b.left].next = b.right
  PROVE  LET x == b.left  y == b.right  z == syms[y].next  m == Merged(b)
         IN  /\ m \in Seq(Symbols) /\ DOMAIN m = DOMAIN syms
             /\ \A i \in DOMAIN syms :
                  /\ m[i].start = syms[i].start
                  /\ i # x /\ i # y => m[i].n = syms[i].n
                  /\ i # x => m[i].next = syms[i].next
                  /\ i # z => m[i].prev = syms[i].prev
             /\ m[x].n = syms[x].n + syms[y].n /\ m[y].n = 0 /\ m[x].next = z
             /\ z # 0 => m[z].prev = x
<1> DEFINE x == b.left  y == b.right  z == syms[y].next
           j == [syms EXCEPT ![x].n = syms[x].n + syms[y].n, ![x].next = z, ![y].n = 0]
<1>1. /\ syms \in Seq(Symbols) /\ x \in DOMAIN syms /\ y \in DOMAIN syms
      /\ z # 0 => z \in DOMAIN syms /\ y < z
      /\ x < y /\ y \in Int /\ x \in Int
  BY DEF Linked, Live
<1>2. \A i \in DOMAIN syms : syms[i] \in Symbols
  BY <1>1
<1>3. Merged(b) = IF z = 0 THEN j ELSE [j EXCEPT ![z].prev = x]
  BY DEF Merged
<1> HIDE DEF x, y, z
<1>4. /\ DOMAIN j = DOMAIN syms
      /\ \A i \in DOMAIN syms :
           /\ i # x /\ i # y => j[i] = syms[i]
           /\ j[x] = [syms[x] EXCEPT !.n = syms[x].n + syms[y].n, !.next = z]
           /\ j[y] = [syms[y] EXCEPT !.n = 0]
  BY <1>1
<1>5. z \in Nat
  BY <1>1, <1>2 DEF Symbols, z
<1>5a. j = [i \in DOMAIN syms |-> j[i]]
  OBVIOUS
<1>5b. DOMAIN syms = 1..Len(syms) /\ Len(syms) \in Nat
  BY <1>1
<1> HIDE DEF j
<1>6. /\ \A i \in DOMAIN syms :
           /\ j[i] \in Symbols /\ j[i].start = syms[i].start /\ j[i].prev = syms[i].prev
           /\ i # x /\ i # y => j[i].n = syms[i].n
           /\ i # x => j[i].next = syms[i].next
      /\ j[x].n = syms[x].n + syms[y].n /\ j[y].n = 0 /\ j[x].next = z
  <2>1. /\ j[x] \in Symbols /\ j[x].start = syms[x].start /\ j[x].prev = syms[x].prev
        /\ j[x].n = syms[x].n + syms[y].n /\ j[x].next = z
    <3>1. syms[x] \in Symbols /\ syms[y] \in Symbols
      BY <1>1, <1>2
    <3>2. j[x] = [syms[x] EXCEPT !.n = syms[x].n + syms[y].n, !.next = z]
      BY <1>1, <1>4
    <3> DEFINE n == syms[x].n + syms[y].n
    <3>3. n \in Nat
      BY <3>1 DEF Symbols
    <3> HIDE DEF n
    <3>4. j[x] = [syms[x] EXCEPT !.n = n, !.next = z]
      BY <3>2 DEF n
    <3>5. j[x] \in Symbols /\ j[x].start = syms[x].start /\ j[x].prev = syms[x].prev
      BY <3>1, <3>3, <3>4, <1>5 DEF Symbols
    <3>6. j[x].n = n /\ j[x].next = z
      BY <3>1, <3>4 DEF Symbols
    <3>. QED
      BY <3>5, <3>6 DEF n
  <2>2. /\ j[y] \in Symbols /\ j[y].start = syms[y].start /\ j[y].prev = syms[y].prev
        /\ j[y].n = 0 /\ j[y].next = syms[y].next
    <3>1. syms[y] \in Symbols
      BY <1>1, <1>2
    <3>2. j[y] = [syms[y] EXCEPT !.n = 0]
      BY <1>1, <1>4
    <3>. QED
      BY <3>1, <3>2 DEF Symbols
  <2>. QED
    BY <1>2, <1>4, <2>1, <2>2
<1>7. j \in Seq(Symbols)
  BY <1>5a, <1>5b, <1>6
<1>8. CASE z = 0
  BY <1>1, <1>3, <1>4, <1>6, <1>7, <1>8 DEF x, y, z
<1>9. CASE z # 0
  <2> DEFINE m == [j EXCEPT ![z].prev = x]
  <2>1. /\ DOMAIN m = DOMAIN syms
        /\ \A i \in DOMAIN syms : i # z => m[i] = j[i]
        /\ m[z] = [j[z] EXCEPT !.prev = x]
        /\ m = [i \in DOMAIN syms |-> m[i]]
    BY <1>1, <1>4, <1>9
  <2> HIDE DEF m
  <2>2. x \in Nat
    BY <1>1, <1>5b
  <2>3. /\ m[z] \in Symbols /\ m[z].prev = x /\ m[z].n = j[z].n
        /\ m[z].next = j[z].next /\ m[z].start = j[z].start
    <3>1. j[z] \in Symbols
      BY <1>1, <1>6, <1>9
    <3>. QED
      BY <2>1, <2>2, <3>1 DEF Symbols
  <2>4. m \in Seq(Symbols)
    <3>1. \A i \in DOMAIN syms : m[i] \in Symbols
      BY <1>6, <2>1, <2>3
    <3>. QED
      BY <3>1, <2>1, <1>5b
  <2>5. Merged(b) = m
    BY <1>3, <1>9 DEF m
  <2>6. \A i \in DOMAIN syms : m[i].n = j[i].n /\ m[i].next = j[i].next /\ m[i].start = j[i].start
                              /\ (i # z => m[i].prev = j[i].prev)
    BY <2>1, <2>3
  <2>7. /\ \A i \in DOMAIN syms :
             /\ m[i].start = syms[i].start
             /\ i # x /\ i # y => m[i].n = syms[i].n
             /\ i # x => m[i].next = syms[i].next
             /\ i # z => m[i].prev = syms[i].prev
        /\ m[x].n = syms[x].n + syms[y].n /\ m[y].n = 0 /\ m[x].next = z
        /\ m[z].prev = x
    BY <1>1, <1>6, <2>3, <2>6
  <2>. QED
    BY <2>1, <2>4, <2>5, <2>7 DEF x, y, z
<1>. QED
  BY <1>8, <1>9

\* The list stays a list, and the queue keeps what it must.
LEMMA MergeKeeps ==
  ASSUME Linked(syms), Queued(syms, work), NEW b \in work, ~Stale(b)
  PROVE  LET m == Merged(b)
             w == (work \ {b}) \cup TryAdd(norm, m, m[b.left].prev, b.left)
                               \cup TryAdd(norm, m, b.left, m[b.left].next)
         IN  b \in Mergeable(syms) /\ Linked(m) /\ Queued(m, w)
<1> DEFINE x == b.left  y == b.right  z == syms[y].next  m == Merged(b)
           before == TryAdd(norm, m, m[x].prev, x)
           after == TryAdd(norm, m, x, m[x].next)
           w == (work \ {b}) \cup before \cup after
<1>1. /\ \A i \in DOMAIN syms : syms[i].n \in Nat /\ syms[i].next \in Nat /\ syms[i].prev \in Nat
      /\ DOMAIN syms \in SUBSET Int /\ 0 \notin DOMAIN syms
  <2>1. DOMAIN syms = 1..Len(syms) /\ Len(syms) \in Nat /\ \A i \in DOMAIN syms : syms[i] \in Symbols
    BY DEF Linked
  <2>. QED
    BY <2>1 DEF Symbols
<1>2. /\ x \in DOMAIN syms /\ y \in DOMAIN syms /\ x \in Live(syms) /\ y \in Live(syms)
      /\ b.size = syms[x].n + syms[y].n /\ syms[x].next = y /\ b \in TryAdd(norm, syms, x, y)
  BY <1>1 DEF Queued, Noted, Stale, Live
<1>3. b \in Mergeable(syms)
  BY <1>2 DEF Mergeable, Live
<1>4. /\ m \in Seq(Symbols) /\ DOMAIN m = DOMAIN syms
      /\ \A i \in DOMAIN syms :
           /\ m[i].start = syms[i].start
           /\ i # x /\ i # y => m[i].n = syms[i].n
           /\ i # x => m[i].next = syms[i].next
           /\ i # z => m[i].prev = syms[i].prev
      /\ m[x].n = syms[x].n + syms[y].n /\ m[y].n = 0 /\ m[x].next = z
      /\ z # 0 => m[z].prev = x
  BY <1>2, Merging
<1>5. /\ x < y /\ syms[y].prev = x
      /\ z # 0 => z \in Live(syms) /\ y < z /\ z # x /\ z # y
  BY <1>1, <1>2 DEF Linked, Live
<1>6. z \in Nat
  BY <1>1, <1>2
<1> HIDE DEF x, y, z, m
<1>7. Live(m) = Live(syms) \ {y}
  <2>1. \A i \in DOMAIN syms : m[i].n > 0 <=> syms[i].n > 0 /\ i # y
    <3>1. syms[x].n > 0 /\ syms[y].n > 0 /\ syms[x].n \in Nat /\ syms[y].n \in Nat /\ x # y
      BY <1>1, <1>2, <1>5 DEF Live
    <3>2. m[x].n > 0 /\ ~(m[y].n > 0)
      BY <1>4, <3>1
    <3>. QED
      BY <1>4, <3>1, <3>2
  <2>. QED
    BY <1>4, <2>1 DEF Live
<1>7a. \A i \in DOMAIN m : m[i].n \in Nat
  <2>1. \A i \in DOMAIN m : m[i] \in Symbols
    BY <1>4
  <2>. QED
    BY <2>1 DEF Symbols
<1>8. Linked(m)
  <2>1. ASSUME NEW i \in Live(m), m[i].next # 0
        PROVE  m[i].next \in Live(m) /\ i < m[i].next /\ m[m[i].next].prev = i
    <3>1. CASE i = x
      BY <1>1, <1>2, <1>4, <1>5, <1>7, <2>1, <3>1 DEF Live
    <3>2. CASE i # x
      <4>1. i \in Live(syms) /\ i # y /\ m[i].next = syms[i].next
        BY <1>4, <1>7, <3>2 DEF Live
      <4>2. /\ syms[i].next \in Live(syms) /\ i < syms[i].next
            /\ syms[syms[i].next].prev = i
        BY <2>1, <4>1 DEF Linked
      <4>3. syms[i].next # y
        BY <1>5, <3>2, <4>2
      <4>4. syms[i].next # z
        BY <1>2, <1>5, <2>1, <4>1, <4>2 DEF Linked, z
      <4>. QED
        BY <1>4, <1>7, <4>1, <4>2, <4>3, <4>4 DEF Live
    <3>. QED
      BY <3>1, <3>2
  <2>2. ASSUME NEW i \in Live(m), m[i].prev # 0
        PROVE  m[i].prev \in Live(m) /\ m[i].prev < i /\ m[m[i].prev].next = i
    <3>1. CASE i = z
      <4>1. z # 0
        BY <1>1, <1>7, <3>1 DEF Live
      <4>. QED
        BY <1>1, <1>2, <1>4, <1>5, <1>7, <3>1, <4>1 DEF Live
    <3>2. CASE i # z
      <4>1. i \in Live(syms) /\ i # y /\ m[i].prev = syms[i].prev
        BY <1>4, <1>7, <3>2 DEF Live
      <4>2. /\ syms[i].prev \in Live(syms) /\ syms[i].prev < i
            /\ syms[syms[i].prev].next = i
        BY <2>2, <4>1 DEF Linked
      <4>3. syms[i].prev # y
        BY <3>2, <4>2 DEF z
      <4>4. syms[i].prev # x
        BY <1>2, <4>1, <4>2
      <4>. QED
        BY <1>4, <1>7, <4>1, <4>2, <4>3, <4>4 DEF Live
    <3>. QED
      BY <3>1, <3>2
  <2>. QED
    BY <1>4, <2>1, <2>2 DEF Linked
<1>9. ASSUME NEW c \in Mergeable(m) PROVE c \in w
  <2>1. PICK i \in Live(m) : c \in TryAdd(norm, m, i, m[i].next)
    BY DEF Mergeable, Live
  <2>2. c.left = i /\ m[i].next # 0
    BY <2>1, Added
  <2>3. m[i].next \in Live(m) /\ m[m[i].next].prev = i
    BY <1>8, <2>2 DEF Linked
  <2>4. CASE i = x
    BY <2>1, <2>4
  <2>5. CASE m[i].next = x
    BY <2>1, <2>3, <2>5
  <2>6. CASE i # x /\ m[i].next # x
    <3>1. i \in Live(syms) /\ m[i].next = syms[i].next /\ i \in DOMAIN syms
      BY <1>4, <1>7, <2>6 DEF Live
    <3>2. m[i].next \in DOMAIN syms /\ m[i].next # y /\ i # y
      BY <1>7, <2>3 DEF Live
    <3>3. /\ m[i].start = syms[i].start /\ m[i].n = syms[i].n
          /\ m[m[i].next].n = syms[m[i].next].n
      BY <1>4, <2>6, <3>1, <3>2
    <3>4. TryAdd(norm, m, i, m[i].next) = TryAdd(norm, syms, i, m[i].next)
      BY <3>3, AddedAlike
    <3>5. c \in Mergeable(syms)
      BY <2>1, <3>1, <3>4 DEF Mergeable, Live
    <3>6. c # b
      BY <2>2, <2>6 DEF x
    <3>. QED
      BY <3>5, <3>6 DEF Queued
  <2>. QED
    BY <2>4, <2>5, <2>6
<1>10. ASSUME NEW c \in w PROVE Noted(m, c)
  <2>1. CASE c \in before
    <3>1. /\ m[x].prev # 0 /\ c.left = m[x].prev /\ c.right = x
          /\ c.size = m[m[x].prev].n + m[x].n
      BY <2>1, Added
    <3>2. x \in Live(m) /\ x # 0 /\ x \in DOMAIN m
      BY <1>1, <1>2, <1>4, <1>5, <1>7
    <3>3. m[x].prev \in Live(m) /\ m[m[x].prev].next = x
      BY <1>8, <3>1, <3>2 DEF Linked
    <3>4. c.size \in Nat /\ c.left \in DOMAIN m /\ c.right \in DOMAIN m
      BY <1>7a, <3>1, <3>2, <3>3 DEF Live
    <3>. QED
      BY <2>1, <3>1, <3>2, <3>3, <3>4 DEF Noted, Live
  <2>2. CASE c \in after
    <3>1. /\ m[x].next # 0 /\ c.left = x /\ c.right = m[x].next
          /\ c.size = m[x].n + m[m[x].next].n
      BY <2>2, Added
    <3>2. x \in Live(m) /\ x # 0 /\ x \in DOMAIN m
      BY <1>1, <1>2, <1>4, <1>5, <1>7
    <3>3. m[x].next \in Live(m)
      BY <1>8, <3>1, <3>2 DEF Linked
    <3>4. c.size \in Nat /\ c.left \in DOMAIN m /\ c.right \in DOMAIN m
      BY <1>7a, <3>1, <3>2, <3>3 DEF Live
    <3>. QED
      BY <2>2, <3>1, <3>2, <3>3, <3>4 DEF Noted, Live
  <2>3. CASE c \in work
    <3> DEFINE l == c.left  r == c.right
    <3>1. Noted(syms, c)
      BY <2>3 DEF Queued
    <3>2. l \in DOMAIN m /\ r \in DOMAIN m
      BY <1>4, <3>1 DEF Noted
    <3>3. ASSUME l \in Live(m), r \in Live(m)
          PROVE  /\ c.size <= m[l].n + m[r].n
                 /\ c.size = m[l].n + m[r].n =>
                      m[l].next = r /\ c \in TryAdd(norm, m, l, r)
      <4>1. l \in Live(syms) /\ r \in Live(syms) /\ l # y /\ r # y
        BY <1>7, <3>3
      <4>2. /\ c.size <= syms[l].n + syms[r].n
            /\ c.size = syms[l].n + syms[r].n =>
                 syms[l].next = r /\ c \in TryAdd(norm, syms, l, r)
        BY <3>1, <4>1 DEF Noted
      <4>3. /\ syms[l].n \in Nat /\ syms[r].n \in Nat /\ syms[x].n \in Nat /\ syms[y].n \in Nat
            /\ syms[y].n > 0 /\ l \in DOMAIN syms /\ r \in DOMAIN syms
        BY <1>1, <1>2, <4>1 DEF Live
      <4> HIDE DEF l, r
      <4>4. CASE l # x /\ r # x
        <5>1. m[l].n = syms[l].n /\ m[r].n = syms[r].n /\ m[l].next = syms[l].next
              /\ m[l].start = syms[l].start
          BY <1>4, <4>1, <4>3, <4>4
        <5>2. TryAdd(norm, m, l, r) = TryAdd(norm, syms, l, r)
          BY <5>1, AddedAlike
        <5>. QED
          BY <4>2, <5>1, <5>2
      <4>5. ASSUME l = x \/ r = x
            PROVE  m[l].n + m[r].n > syms[l].n + syms[r].n
        <5>1. m[x].n > syms[x].n
          BY <1>4, <4>3
        <5>2. m[l].n >= syms[l].n /\ m[r].n >= syms[r].n /\ m[l].n \in Int /\ m[r].n \in Int
          BY <1>4, <4>1, <4>3
        <5>. QED
          BY <4>3, <4>5, <5>1, <5>2
      <4>6. c.size \in Nat /\ m[l].n \in Nat /\ m[r].n \in Nat
        BY <1>4, <1>7a, <3>1, <4>3 DEF Noted
      <4>7. CASE l = x \/ r = x
        BY <4>2, <4>3, <4>5, <4>6, <4>7
      <4>. QED
        BY <4>4, <4>7
    <3>. QED
      BY <3>1, <3>2, <3>3 DEF Noted
  <2>. QED
    BY <2>1, <2>2, <2>3
<1>. QED
  BY <1>3, <1>8, <1>9, <1>10 DEF Queued, x, m


\* The recursive function of Starts.
StartsFrom(f, s, i) == IF i > Len(s) THEN <<>> ELSE <<i>> \o f[i + Utf8Len(s[i])]
Steps(f, s) == f = [i \in 1..(Len(s) + 4) |-> StartsFrom(f, s, i)]

LEMMA CharLength == \A c : Utf8Len(c) \in 1..4
BY DEF Utf8Len, Leads

LEMMA StepsExist ==
  ASSUME NEW s, Len(s) \in Nat
  PROVE  \E f : Steps(f, s)
<1> DEFINE N == Len(s)
           From(f, k) == /\ f = [i \in 1..(N + 4) |-> f[i]]
                         /\ \A i \in 1..(N + 4) : i > N - k => f[i] = StartsFrom(f, s, i)
           K == {k \in Nat : \E f : From(f, k)}
<1>1. 0 \in K
  <2> DEFINE f == [i \in 1..(N + 4) |-> <<>>]
  <2>1. f = [i \in 1..(N + 4) |-> f[i]]
    OBVIOUS
  <2>2. ASSUME NEW i \in 1..(N + 4), i > N - 0 PROVE f[i] = StartsFrom(f, s, i)
    BY <2>2 DEF StartsFrom
  <2> HIDE DEF f
  <2>3. From(f, 0)
    BY <2>1, <2>2
  <2>. QED
    BY <2>3
<1>2. ASSUME NEW k \in K PROVE k + 1 \in K
  <2>1. PICK f : From(f, k)
    OBVIOUS
  <2> DEFINE g == [i \in 1..(N + 4) |-> IF i = N - k THEN StartsFrom(f, s, i) ELSE f[i]]
  <2>2. k \in Nat /\ k + 1 \in Nat /\ N \in Nat
    OBVIOUS
  <2>3. g = [i \in 1..(N + 4) |-> g[i]]
    OBVIOUS
  <2>4. \A i \in 1..(N + 4) : g[i] = IF i = N - k THEN StartsFrom(f, s, i) ELSE f[i]
    OBVIOUS
  <2> HIDE DEF g
  <2>5. ASSUME NEW i \in 1..(N + 4), i > N - (k + 1) PROVE g[i] = StartsFrom(g, s, i)
    <3>1. g[i] = StartsFrom(f, s, i)
      <4>1. i = N - k \/ i > N - k
        BY <2>2, <2>5
      <4>. QED
        BY <2>1, <2>4, <4>1
    <3>2. i <= N => g[i + Utf8Len(s[i])] = f[i + Utf8Len(s[i])]
      <4> DEFINE u == Utf8Len(s[i])
      <4>1. u \in 1..4
        BY CharLength
      <4> HIDE DEF u
      <4>2. i <= N => i + u \in 1..(N + 4) /\ i + u # N - k
        BY <2>2, <2>5, <4>1
      <4>. QED
        BY <2>4, <4>2 DEF u
    <3>3. i > N \/ i <= N
      BY <2>2
    <3> HIDE DEF N
    <3>. QED
      BY <3>1, <3>2, <3>3 DEF StartsFrom, N
  <2>6. From(g, k + 1)
    BY <2>3, <2>5
  <2>. QED
    BY <2>2, <2>6
<1>3. K \in SUBSET Nat
  OBVIOUS
<1> HIDE DEF K
<1>4. K = Nat
  BY <1>1, <1>2, <1>3, EveryNumber
<1>5. PICK f : From(f, N)
  BY <1>4 DEF K
<1>6. \A i \in 1..(N + 4) : f[i] = StartsFrom(f, s, i)
  BY <1>5
<1>7. f = [i \in 1..(N + 4) |-> f[i]]
  BY <1>5
<1>8. f = [i \in 1..(N + 4) |-> StartsFrom(f, s, i)]
  <2> HIDE DEF N
  <2>. QED
    BY <1>6, <1>7
<1>. QED
  BY <1>8 DEF Steps

\* q has the starts of the characters of s from position i on.
Walks(q, s, i) ==
  /\ q \in Seq(1..Len(s))
  /\ IF i > Len(s) THEN q = <<>> ELSE q # <<>> /\ q[1] = i
  /\ \A a \in 1..Len(q) :
       IF a = Len(q) THEN q[a] + Utf8Len(s[q[a]]) > Len(s)
       ELSE q[a + 1] = q[a] + Utf8Len(s[q[a]])

LEMMA StartsWalk ==
  ASSUME NEW s, Len(s) \in Nat
  PROVE  Walks(Starts(s), s, 1)
<1> DEFINE f == CHOOSE f : Steps(f, s)
           N == Len(s)
           K == {k \in Nat : \A i \in 1..(N + 4) : i > N - k => Walks(f[i], s, i)}
<1>1. Steps(f, s)
  BY StepsExist
<1>2. Starts(s) = f[1]
  BY DEF Starts, Steps, StartsFrom
<1> HIDE DEF f
<1>3. ASSUME NEW i \in 1..(N + 4)
      PROVE  /\ i > N => f[i] = <<>>
             /\ ~(i > N) => f[i] = <<i>> \o f[i + Utf8Len(s[i])]
  <2>1. f[i] = StartsFrom(f, s, i)
    BY <1>1 DEF Steps
  <2>. QED
    BY <2>1, Zenon DEF StartsFrom
<1>4. 0 \in K
  <2>1. ASSUME NEW i \in 1..(N + 4), i > N - 0 PROVE Walks(f[i], s, i)
    <3>1. f[i] = <<>> /\ i > Len(s)
      <4>1. N \in Nat /\ i > N
        BY <2>1
      <4>2. f[i] = <<>>
        BY <1>3, <4>1
      <4>. QED
        BY <4>1, <4>2
    <3>2. Walks(<<>>, s, i)
      BY <3>1 DEF Walks
    <3>. QED
      BY <3>1, <3>2
  <2>. QED
    BY <2>1
<1>5. ASSUME NEW k \in K PROVE k + 1 \in K
  <2>1. k \in Nat /\ k + 1 \in Nat /\ N \in Nat
    OBVIOUS
  <2>2. \A i \in 1..(N + 4) : i > N - k => Walks(f[i], s, i)
    OBVIOUS
  <2>3. ASSUME NEW i \in 1..(N + 4), i > N - (k + 1) PROVE Walks(f[i], s, i)
    <3>1. i = N - k \/ i > N - k
      BY <2>1, <2>3
    <3>2. CASE i > N - k
      BY <2>2, <3>2
    <3>3. CASE i = N - k
      <4> DEFINE u == Utf8Len(s[i])  r == f[i + u]  q == f[i]
      <4>1. u \in 1..4
        BY CharLength
      <4>2. i <= N /\ i \in 1..N /\ i + u \in 1..(N + 4) /\ i + u > N - k
        <5> HIDE DEF u
        <5>. QED
          BY <2>1, <3>3, <4>1
      <4>3. q = <<i>> \o r
        <5>1. ~(i > N)
          BY <2>1, <4>2
        <5>. QED
          BY <1>3, <5>1
      <4>4. Walks(r, s, i + u)
        BY <2>2, <4>2
      <4> HIDE DEF q, r, u
      <4>5. r \in Seq(1..N)
        BY <4>4 DEF Walks
      <4>6. /\ q \in Seq(1..N) /\ Len(q) = Len(r) + 1 /\ q[1] = i /\ q # <<>>
            /\ \A a \in 1..Len(r) : q[a + 1] = r[a]
            /\ Len(r) \in Nat
        <5> HIDE DEF N
        <5>. QED
          BY <4>2, <4>3, <4>5
      <4>7. ASSUME NEW a \in 1..Len(q)
            PROVE  IF a = Len(q) THEN q[a] + Utf8Len(s[q[a]]) > Len(s)
                   ELSE q[a + 1] = q[a] + Utf8Len(s[q[a]])
        <5>1. CASE a = 1
          <6>1. CASE r = <<>>
            <7>1. Len(q) = 1 /\ i + u > Len(s)
              BY <4>2, <4>4, <4>6, <6>1 DEF Walks
            <7>. QED
              BY <4>6, <5>1, <7>1 DEF u
          <6>2. CASE r # <<>>
            <7>1. r[1] = i + u
              BY <4>4, <6>2 DEF Walks
            <7>2. Len(r) > 0
              BY <4>5, <6>2
            <7>3. q[2] = r[1] /\ 1 # Len(q)
              BY <4>6, <7>2
            <7>. QED
              BY <4>6, <5>1, <7>1, <7>3 DEF u
          <6>. QED
            BY <6>1, <6>2
        <5>2. CASE a # 1
          <6> DEFINE e == a - 1
          <6>1. e \in 1..Len(r) /\ a = e + 1 /\ (a = Len(q) <=> e = Len(r))
            BY <4>6, <5>2
          <6> HIDE DEF e
          <6>2. IF e = Len(r) THEN r[e] + Utf8Len(s[r[e]]) > Len(s)
                ELSE r[e + 1] = r[e] + Utf8Len(s[r[e]])
            BY <4>4, <6>1 DEF Walks
          <6>3. q[a] = r[e]
            BY <4>6, <6>1
          <6>4. ASSUME e # Len(r) PROVE q[a + 1] = r[e + 1]
            <7>1. e + 1 \in 1..Len(r) /\ a + 1 = (e + 1) + 1
              BY <4>6, <6>1, <6>4
            <7>. QED
              BY <4>6, <7>1
          <6>. QED
            BY <6>1, <6>2, <6>3, <6>4
        <5>. QED
          BY <5>1, <5>2
      <4>8. ~(i > Len(s))
        BY <2>1, <4>2
      <4>9. Walks(q, s, i)
        BY <4>6, <4>7, <4>8 DEF Walks
      <4>. QED
        BY <4>9 DEF q
    <3>. QED
      BY <3>1, <3>2, <3>3
  <2>. QED
    BY <2>1, <2>3
<1>6. K \in SUBSET Nat
  OBVIOUS
<1> HIDE DEF K
<1>7. K = Nat
  BY <1>4, <1>5, <1>6, EveryNumber
<1>8. Walks(f[1], s, 1)
  BY <1>7 DEF K
<1>. QED
  BY <1>2, <1>8

\* The characters of a fragment are a list with no one joined yet.
LEMMA SplitLinked ==
  ASSUME NEW s, Len(s) \in Nat
  PROVE  /\ Linked(Split(s)) /\ Live(Split(s)) = DOMAIN Split(s)
         /\ DOMAIN Split(s) = 1..Len(Split(s)) /\ Len(Split(s)) \in Nat
         /\ \A i \in DOMAIN Split(s) :
              Split(s)[i].next = IF i = Len(Split(s)) THEN 0 ELSE i + 1
<1> DEFINE q == Starts(s)  k == Len(q)
           R(i) == [prev |-> i - 1, next |-> IF i = k THEN 0 ELSE i + 1, start |-> q[i],
                    n |-> (IF i = k THEN Len(s) + 1 ELSE q[i + 1]) - q[i]]
           ss == [i \in 1..k |-> R(i)]
<1>1. Walks(q, s, 1)
  BY StartsWalk
<1>2. Split(s) = ss
  BY DEF Split
<1> HIDE DEF q
<1>3. q \in Seq(1..Len(s)) /\ k \in Nat /\ \A i \in 1..k : q[i] \in 1..Len(s)
  BY <1>1 DEF Walks
<1>4. ASSUME NEW i \in 1..k
      PROVE  ss[i] = R(i) /\ R(i) \in Symbols /\ R(i).n > 0
  <2> DEFINE n == (IF i = k THEN Len(s) + 1 ELSE q[i + 1]) - q[i]
  <2>1. n \in Nat /\ n > 0
    <3> DEFINE u == Utf8Len(s[q[i]])
    <3>1. u \in 1..4
      BY CharLength
    <3>2. IF i = k THEN q[i] + u > Len(s) ELSE q[i + 1] = q[i] + u
      BY <1>1 DEF Walks
    <3> HIDE DEF u
    <3>3. q[i] \in 1..Len(s)
      BY <1>3
    <3>4. CASE i = k
      BY <3>1, <3>2, <3>3, <3>4
    <3>5. CASE i # k
      <4>1. q[i + 1] = q[i] + u /\ n = q[i + 1] - q[i]
        BY <3>2, <3>5
      <4> HIDE DEF n
      <4>. QED
        BY <3>1, <3>3, <4>1
    <3>. QED
      BY <3>4, <3>5
  <2> HIDE DEF n
  <2>2. i - 1 \in Nat /\ (IF i = k THEN 0 ELSE i + 1) \in Nat /\ q[i] \in Int
    BY <1>3
  <2>3. R(i) = [prev |-> i - 1, next |-> IF i = k THEN 0 ELSE i + 1, start |-> q[i], n |-> n]
    BY DEF n
  <2>4. ss[i] = R(i)
    OBVIOUS
  <2> HIDE DEF ss, R
  <2>5. R(i) \in Symbols /\ R(i).n = n
    BY <2>1, <2>2, <2>3 DEF Symbols
  <2>. QED
    BY <2>1, <2>4, <2>5
<1>5. ss \in Seq(Symbols) /\ DOMAIN ss = 1..k /\ Len(ss) = k
  <2>1. ss = [i \in 1..k |-> ss[i]]
    OBVIOUS
  <2>2. \A i \in 1..k : ss[i] \in Symbols
    BY <1>4
  <2>3. k \in Nat
    BY <1>3
  <2> HIDE DEF ss, k, R
  <2>4. ss \in Seq(Symbols)
    BY <2>1, <2>2, <2>3
  <2>5. DOMAIN ss = 1..k
    BY <2>1
  <2>. QED
    BY <2>3, <2>4, <2>5
<1>6. ASSUME NEW i \in 1..k
      PROVE  /\ ss[i].prev = i - 1 /\ ss[i].next = (IF i = k THEN 0 ELSE i + 1) /\ ss[i].n > 0
  BY <1>4
<1>7. Live(ss) = 1..k
  BY <1>5, <1>6 DEF Live
<1> HIDE DEF ss, k
<1>8. Linked(ss)
  <2>1. ASSUME NEW i \in 1..k, ss[i].next # 0
        PROVE  ss[i].next \in 1..k /\ i < ss[i].next /\ ss[ss[i].next].prev = i
    <3>1. i # k /\ ss[i].next = i + 1
      BY <1>6, <2>1
    <3>2. i + 1 \in 1..k /\ i < i + 1 /\ (i + 1) - 1 = i
      BY <1>3, <3>1
    <3>. QED
      BY <1>6, <3>1, <3>2
  <2>2. ASSUME NEW i \in 1..k, ss[i].prev # 0
        PROVE  ss[i].prev \in 1..k /\ ss[i].prev < i /\ ss[ss[i].prev].next = i
    <3>1. ss[i].prev = i - 1 /\ i # 1
      BY <1>6, <2>2
    <3>2. i - 1 \in 1..k /\ i - 1 # k /\ i - 1 < i /\ (i - 1) + 1 = i
      BY <1>3, <3>1
    <3>3. ss[i - 1].next = i
      BY <1>6, <3>2
    <3>. QED
      BY <3>1, <3>2, <3>3
  <2>. QED
    BY <1>5, <1>7, <2>1, <2>2 DEF Linked
<1>. QED
  BY <1>2, <1>3, <1>5, <1>6, <1>7, <1>8

\* The bytes of a normalised text.
Bytes(t) == ToSet(t) \cup ToSet(Marker)

LEMMA NormaliseIsSeq ==
  ASSUME NEW raw, raw \in Seq(ToSet(raw))
  PROVE  Normalise(raw) \in Seq(Bytes(raw))
<1> DEFINE s == [i \in DOMAIN raw |-> IF raw[i] = Space THEN Marker ELSE <<raw[i]>>]
           U == Bytes(raw)
<1>1. DOMAIN raw = 1..Len(raw) /\ Len(raw) \in Nat /\ \A i \in DOMAIN raw : raw[i] \in U
  BY DEF ToSet, Bytes
<1>2. Marker \in Seq(U)
  <2>1. "m1" \in U /\ "m2" \in U /\ "m3" \in U
    BY DEF Bytes, Marker, ToSet
  <2> HIDE DEF U
  <2>. QED
    BY <2>1 DEF Marker
<1> HIDE DEF U
<1>3. ASSUME NEW i \in DOMAIN raw
      PROVE  (IF raw[i] = Space THEN Marker ELSE <<raw[i]>>) \in Seq(U)
  <2>1. <<raw[i]>> \in Seq(U)
    BY <1>1
  <2>. QED
    BY <1>2, <2>1
<1>4. s \in Seq(Seq(U))
  BY <1>1, <1>3
<1> HIDE DEF s
<1>5. FlattenSeq(s) \in Seq(U)
  BY <1>4, FlattenedSeq
<1>6. (IF vocab.prefix THEN Marker ELSE <<>>) \o FlattenSeq(s) \in Seq(U)
  <2> DEFINE p == IF vocab.prefix THEN Marker ELSE <<>>  f == FlattenSeq(s)
  <2>1. p \in Seq(U) /\ f \in Seq(U)
    BY <1>2, <1>5
  <2> HIDE DEF p, f
  <2>2. p \o f \in Seq(U)
    BY <2>1
  <2>. QED
    BY <2>2 DEF p, f
<1>7. CASE raw = <<>>
  BY <1>7 DEF Normalise
<1>8. CASE raw # <<>>
  <2>1. Normalise(raw) = (IF vocab.prefix THEN Marker ELSE <<>>) \o FlattenSeq(s)
    BY <1>8 DEF Normalise, s
  <2>. QED
    BY <1>6, <2>1 DEF U
<1>. QED
  BY <1>7, <1>8

\* The vocabulary and the text, which stay, and the place in the text.
VocabInv == \A i \in DOMAIN Tokens : Tokens[i].text \in Seq(ToSet(Tokens[i].text))
TextInv == text \in Seq(ToSet(text)) /\ at \in Nat \ {0}

TokenizerInv == VocabInv /\ TextInv /\ MergeInv

\* The next special token is in what is left of the text, or there is none.
LEMMA HitsAhead ==
  ASSUME VocabInv, TextInv
  PROVE  /\ Hit \in 1..(Len(text) + 1) /\ HitLength \in Nat
         /\ Hit <= Len(text) => at <= Hit /\ SpecialsAt(Hit) # {} /\ HitLength \in SpecialsAt(Hit)
<1> DEFINE hits == {i \in at..Len(text) : SpecialsAt(i) # {}}
<1>1. Len(text) \in Nat /\ at \in Nat \ {0}
  BY DEF TextInv
<1>2. Hit \in 1..(Len(text) + 1) /\ (Hit <= Len(text) => Hit \in hits)
  <2>1. CASE hits = {}
    BY <1>1, <2>1 DEF Hit
  <2>2. CASE hits # {}
    <3>1. hits \in SUBSET Nat
      BY <1>1
    <3>2. Min(hits) \in hits
      <4> HIDE DEF hits
      <4>. QED
        BY <2>2, <3>1, LeastNumber DEF Min
    <3>3. Hit = Min(hits)
      BY <2>2 DEF Hit
    <3>4. Hit \in hits
      BY <3>2, <3>3
    <3>. QED
      BY <1>1, <3>4
  <2>. QED
    BY <2>1, <2>2
<1>3. ASSUME Hit <= Len(text)
      PROVE  HitLength \in SpecialsAt(Hit) /\ HitLength \in Nat
  <2> DEFINE S == SpecialsAt(Hit)
  <2>1. S \in SUBSET (1..(Len(text) + 1))
    <3>1. ASSUME NEW n \in S PROVE n \in 1..(Len(text) + 1)
      <4>1. n \in SpecialLengths /\ n <= Len(text) - Hit + 1
        BY DEF SpecialsAt
      <4>2. PICK i \in DOMAIN Tokens : n = Len(Tokens[i].text) /\ n # 0
        BY <4>1 DEF SpecialLengths
      <4>3. n \in Nat
        BY <4>2 DEF VocabInv
      <4>. QED
        BY <1>1, <1>2, <4>1, <4>2, <4>3
    <3>. QED
      BY <3>1
  <2>2. IsFiniteSet(S) /\ S \in SUBSET Int
    <3>1. IsFiniteSet(1..(Len(text) + 1))
      BY <1>1, FS_Interval
    <3>. QED
      BY <2>1, <3>1, FS_Subset
  <2>3. S # {}
    BY <1>2, <1>3
  <2>4. Max(S) \in S
    BY <2>2, <2>3, Greatest
  <2>5. HitLength = Max(S)
    BY <1>1, <1>2, <1>3 DEF HitLength
  <2>. QED
    BY <2>1, <2>4, <2>5
<1>4. CASE Hit > Len(text)
  <2>1. HitLength = 0
    BY <1>4 DEF HitLength
  <2>. QED
    BY <1>1, <1>2, <1>4, <2>1
<1>5. CASE Hit <= Len(text)
  BY <1>1, <1>2, <1>3, <1>5
<1>. QED
  BY <1>1, <1>2, <1>4, <1>5

\* A scan leaves the symbols of the fragment and the pairs of neighbours.
LEMMA ScanStep ==
  ASSUME TokenizerInv, Scan
  PROVE  MergeInv'
<1> DEFINE raw == SubSeq(text, at, Hit - 1)  k == Len(syms')
<1>1. raw \in Seq(ToSet(raw))
  <2>1. /\ text \in Seq(ToSet(text)) /\ at \in Nat /\ at # 0 /\ Hit \in 1..(Len(text) + 1)
        /\ Len(text) \in Nat
    BY HitsAhead DEF TokenizerInv, TextInv
  <2>2. raw = [i \in 1..(1 + (Hit - 1) - at) |-> text[i + at - 1]]
    BY <2>1
  <2> HIDE DEF raw
  <2>3. raw \in Seq(ToSet(raw))
    <3>1. \E n \in Nat : DOMAIN raw = 1..n
      <4>1. CASE 1 + (Hit - 1) - at < 0
        <5>1. 1..(1 + (Hit - 1) - at) = 1..0
          BY <2>1, <4>1
        <5>. QED
          BY <2>2, <5>1
      <4>2. CASE 1 + (Hit - 1) - at >= 0
        <5>1. 1 + (Hit - 1) - at \in Nat
          BY <2>1, <4>2
        <5>2. DOMAIN raw = 1..(1 + (Hit - 1) - at)
          BY <2>2
        <5>. QED
          BY <5>1, <5>2
      <4>. QED
        BY <2>1, <4>1, <4>2
    <3>2. raw = [i \in DOMAIN raw |-> raw[i]]
      BY <2>2
    <3>3. \A i \in DOMAIN raw : raw[i] \in ToSet(raw)
      BY DEF ToSet
    <3>. QED
      BY <3>1, <3>2, <3>3
  <2>. QED
    BY <2>3
<1>2. Len(norm') \in Nat
  <2>1. norm' = Normalise(raw)
    BY DEF Scan
  <2> HIDE DEF raw
  <2>2. Normalise(raw) \in Seq(Bytes(raw))
    BY <1>1, NormaliseIsSeq
  <2>. QED
    BY <2>1, <2>2
<1>3. /\ Linked(syms') /\ Live(syms') = DOMAIN syms'
      /\ DOMAIN syms' = 1..k /\ k \in Nat
      /\ \A i \in DOMAIN syms' : syms'[i].next = IF i = k THEN 0 ELSE i + 1
  BY <1>2, SplitLinked DEF Scan
<1>4. /\ vocab' = vocab
      /\ work' = UNION {TryAdd(norm', syms', i - 1, i) : i \in 2..k}
  BY DEF Scan
<1>5. ASSUME NEW i, NEW j
      PROVE  TryAdd(norm', syms', i, j) = TryAdd(norm, syms, i, j)'
  BY <1>4 DEF TryAdd, IdFor, Tokens, Joined
<1>6. Linked(syms)'
  BY <1>3 DEF Linked, Live
<1> HIDE DEF k
<1>7. ASSUME NEW c, c \in Mergeable(syms)' PROVE c \in work'
  <2>1. PICK i \in DOMAIN syms' : c \in TryAdd(norm', syms', i, syms'[i].next)
    <3>1. PICK i \in DOMAIN syms' : c \in TryAdd(norm, syms, i, syms[i].next)'
      BY <1>7 DEF Mergeable
    <3>. QED
      BY <3>1, <1>4 DEF TryAdd, IdFor, Tokens, Joined
  <2>2. syms'[i].next # 0
    BY <2>1, Added
  <2>3. i + 1 \in 2..k /\ syms'[i].next = i + 1 /\ (i + 1) - 1 = i
    BY <1>3, <2>2
  <2>. QED
    BY <1>4, <2>1, <2>3
<1>8. ASSUME NEW c \in work' PROVE Noted(syms, c)'
  <2>1. PICK i \in 2..k : c \in TryAdd(norm', syms', i - 1, i)
    BY <1>4
  <2>2. c.left = i - 1 /\ c.right = i /\ c.size = syms'[i - 1].n + syms'[i].n
    BY <2>1, Added
  <2>3. i - 1 \in DOMAIN syms' /\ i \in DOMAIN syms' /\ syms'[i - 1].next = i
    BY <1>3
  <2>4. syms'[i - 1].n \in Nat /\ syms'[i].n \in Nat
    <3>1. \A e \in DOMAIN syms' : syms'[e] \in Symbols
      BY <1>3 DEF Linked
    <3>. QED
      BY <2>3, <3>1 DEF Symbols
  <2>5. c \in TryAdd(norm, syms, i - 1, i)'
    BY <1>5, <2>1
  <2>6. c \in TryAdd(norm, syms, c.left, c.right)'
    BY <2>2, <2>5
  <2>. QED
    BY <2>2, <2>3, <2>4, <2>6 DEF Noted
<1>. QED
  BY <1>6, <1>7, <1>8 DEF MergeInv, Queued


\* A step that keeps the vocabulary and the fragment leaves the invariant to
\* what becomes of symbols and queue.
LEMMA Carried ==
  ASSUME vocab' = vocab, norm' = norm, Linked(syms'), Queued(syms', work')
  PROVE  MergeInv'
<1>1. Linked(syms)'
  BY DEF Linked, Live
<1>2. ASSUME NEW c, c \in Mergeable(syms)' PROVE c \in work'
  <2>1. PICK i \in DOMAIN syms' : /\ syms'[i].n > 0
                                  /\ c \in TryAdd(norm, syms', i, syms'[i].next)
    <3>1. PICK i \in {j \in DOMAIN syms' : syms'[j].n > 0} : c \in TryAdd(norm, syms, i, syms[i].next)'
      BY <1>2 DEF Mergeable
    <3>2. TryAdd(norm, syms, i, syms[i].next)' = TryAdd(norm, syms', i, syms'[i].next)
      BY DEF TryAdd, IdFor, Tokens, Joined
    <3>. QED
      BY <3>1, <3>2
  <2>2. c \in Mergeable(syms')
    BY <2>1 DEF Mergeable
  <2>. QED
    BY <2>2 DEF Queued
<1>3. ASSUME NEW c \in work' PROVE Noted(syms, c)'
  <2>1. Noted(syms', c)
    BY DEF Queued
  <2>2. TryAdd(norm, syms', c.left, c.right) = TryAdd(norm, syms, c.left, c.right)'
    BY DEF TryAdd, IdFor, Tokens, Joined
  <2>. QED
    BY <2>1, <2>2 DEF Noted, Live
<1>. QED
  BY <1>1, <1>2, <1>3 DEF MergeInv, Queued

\* A turn of the loop is stale, or merges the best.
LEMMA PopStep ==
  ASSUME TokenizerInv, Pop
  PROVE  /\ MergeInv'
         /\ syms' # syms => \E b \in Mergeable(syms) :
                              syms' = Merged(b) /\ \A c \in Mergeable(syms) : ~Less(b, c)
<1>1. Linked(syms) /\ Queued(syms, work) /\ vocab' = vocab /\ norm' = norm
  BY DEF TokenizerInv, MergeInv, Pop
<1>2. PICK b \in work :
        /\ \A c \in work : ~Less(b, c)
        /\ IF Stale(b) THEN syms' = syms /\ work' = work \ {b}
           ELSE /\ syms' = Merged(b)
                /\ work' = (work \ {b})
                     \cup TryAdd(norm, syms', syms'[b.left].prev, b.left)
                     \cup TryAdd(norm, syms', b.left, syms'[b.left].next)
  BY DEF Pop
<1>3. Linked(syms') /\ Queued(syms', work') => MergeInv'
  BY <1>1, Carried
<1>4. CASE Stale(b)
  <2>1. b \notin Mergeable(syms)
    <3> SUFFICES ASSUME b \in Mergeable(syms) PROVE FALSE
      OBVIOUS
    <3>1. PICK i \in Live(syms) : b \in TryAdd(norm, syms, i, syms[i].next)
      BY DEF Mergeable, Live
    <3>2. /\ b.left = i /\ b.right = syms[i].next /\ syms[i].next # 0
          /\ b.size = syms[i].n + syms[syms[i].next].n
      BY <3>1, Added
    <3>3. syms[i].next \in Live(syms)
      BY <1>1, <3>1, <3>2 DEF Linked
    <3>. QED
      BY <1>4, <3>1, <3>2, <3>3 DEF Stale, Live
  <2>2. syms' = syms /\ work' = work \ {b}
    BY <1>2, <1>4
  <2>3. Queued(syms', work')
    BY <1>1, <2>1, <2>2 DEF Queued
  <2>. QED
    BY <1>1, <1>3, <2>2, <2>3
<1>5. CASE ~Stale(b)
  <2>1. b \in Mergeable(syms) /\ Linked(syms') /\ Queued(syms', work') /\ syms' = Merged(b)
    BY <1>1, <1>2, <1>5, MergeKeeps
  <2>2. \A c \in Mergeable(syms) : ~Less(b, c)
    BY <1>1, <1>2 DEF Queued
  <2>. QED
    BY <1>3, <2>1, <2>2
<1>. QED
  BY <1>4, <1>5

LEMMA TokenizerStep ==
  ASSUME TokenizerInv, TokenizerNext
  PROVE  /\ TokenizerInv'
         /\ phase = "merge" /\ syms' # syms =>
              \E b \in Mergeable(syms) : /\ syms' = Merged(b)
                                         /\ \A c \in Mergeable(syms) : ~Less(b, c)
         /\ phase = "merge" /\ phase' # "merge" => Mergeable(syms) = {}
<1>1. VocabInv'
  BY DEF TokenizerInv, VocabInv, Tokens, TokenizerNext, Scan, Pop, Emit, Decode
<1>2. TextInv'
  <2>1. text' = text
    BY DEF TokenizerNext, Scan, Pop, Emit, Decode
  <2>2. at' = at \/ at' = Hit + HitLength
    BY DEF TokenizerNext, Scan, Pop, Emit, Decode
  <2>3. Hit \in 1..(Len(text) + 1) /\ HitLength \in Nat /\ Len(text) \in Nat
    BY HitsAhead DEF TokenizerInv, TextInv
  <2>4. at' \in Nat \ {0}
    BY <2>2, <2>3 DEF TokenizerInv, TextInv
  <2>. QED
    BY <2>1, <2>4 DEF TokenizerInv, TextInv
<1>3. CASE Scan
  BY <1>1, <1>2, <1>3, ScanStep DEF TokenizerInv, Scan
<1>4. CASE Pop
  <2>1. phase' = "merge"
    BY <1>4 DEF Pop
  <2>. QED
    BY <1>1, <1>2, <1>4, <2>1, PopStep DEF TokenizerInv
<1>5. CASE Emit
  <2>1. Mergeable(syms) = {}
    BY <1>5 DEF Emit, TokenizerInv, MergeInv, Queued
  <2>2. phase' # "merge" /\ syms' = syms
    BY <1>5 DEF Emit
  <2>. QED
    BY <1>1, <1>2, <2>1, <2>2 DEF TokenizerInv, MergeInv
<1>6. CASE Decode
  BY <1>1, <1>2, <1>6 DEF Decode, TokenizerInv, MergeInv
<1>. QED
  BY <1>3, <1>4, <1>5, <1>6 DEF TokenizerNext

\* The symbols stay a list, and every pair that could be merged is queued.
THEOREM TokenizerInductive == Spec => []TokenizerInv
<1>1. Init => TokenizerInv
  <2>. SUFFICES ASSUME Init PROVE TokenizerInv
    OBVIOUS
  <2>1. CASE TokenizerInit
    <3>1. VocabInv
      BY <2>1, TokenizerAssumption DEF TokenizerInit, VocabInv, Tokens
    <3>2. TextInv /\ phase # "merge"
      BY <2>1, TokenizerAssumption DEF TokenizerInit, TextInv
    <3>. QED
      BY <3>1, <3>2 DEF TokenizerInv, MergeInv
  <2>2. CASE TokenizerRests
    <3>1. VocabInv
      BY <2>2 DEF TokenizerRests, VocabInv, Tokens
    <3>2. TextInv /\ phase # "merge"
      <4>1. text = <<>> /\ at = 1 /\ phase = "decoded"
        BY <2>2 DEF TokenizerRests
      <4>2. <<>> \in Seq(ToSet(<<>>))
        OBVIOUS
      <4>. QED
        BY <4>1, <4>2 DEF TextInv
    <3>. QED
      BY <3>1, <3>2 DEF TokenizerInv, MergeInv
  <2>. QED
    BY <2>1, <2>2 DEF Init
<1>2. TokenizerInv /\ [Next]_avars => TokenizerInv'
  <2>. SUFFICES ASSUME TokenizerInv, [Next]_avars PROVE TokenizerInv'
    OBVIOUS
  <2>1. CASE TokenizerNext
    BY <2>1, TokenizerStep
  <2>2. CASE UNCHANGED tvars
    <3>1. UNCHANGED <<vocab, text, at, norm, syms, work, phase>>
      BY <2>2 DEF tvars
    <3>2. VocabInv' /\ TextInv'
      BY <3>1 DEF TokenizerInv, VocabInv, TextInv, Tokens
    <3>3. phase = "merge" => MergeInv'
      BY <3>1, Carried DEF TokenizerInv, MergeInv
    <3>4. phase # "merge" => MergeInv'
      BY <3>1 DEF MergeInv
    <3>. QED
      BY <3>2, <3>3, <3>4 DEF TokenizerInv
  <2>. QED
    BY <2>1, <2>2 DEF Next, avars, tvars
<1>. QED
  BY <1>1, <1>2, PTL DEF Spec

\* Every merge is the best of all that could be made at that moment, and no
\* fragment is emitted while one could (tokenize_fragment).
THEOREM EveryMergeBest == Spec => MergesBest
<1>1. TokenizerInv /\ [Next]_avars =>
        [/\ phase = "merge" /\ syms' # syms =>
              \E b \in Mergeable(syms) : /\ syms' = Merged(b)
                                         /\ \A c \in Mergeable(syms) : ~Less(b, c)
         /\ phase = "merge" /\ phase' # "merge" => Mergeable(syms) = {}]_tvars
  <2>. SUFFICES ASSUME TokenizerInv, [Next]_avars, tvars' # tvars
                PROVE  /\ phase = "merge" /\ syms' # syms =>
                            \E b \in Mergeable(syms) : /\ syms' = Merged(b)
                                                       /\ \A c \in Mergeable(syms) : ~Less(b, c)
                       /\ phase = "merge" /\ phase' # "merge" => Mergeable(syms) = {}
    OBVIOUS
  <2>1. TokenizerNext
    BY DEF Next, avars, tvars
  <2>. QED
    BY <2>1, TokenizerStep
<1>. QED
  BY <1>1, TokenizerInductive, PTL DEF Spec, MergesBest

\* A function that calls itself at an argument of lower rank.
Descends(D, d, rank, m) ==
  /\ m \in Nat /\ \A i \in D : rank[i] \in 0..m
  /\ \A i \in D : rank[i] # 0 => d[i] \in D /\ rank[d[i]] < rank[i]
Chained(f, D, a, d, rank) ==
  f = [i \in D |-> IF rank[i] = 0 THEN <<>> ELSE a[i] \o f[d[i]]]

\* Such a function is there.
LEMMA ChainExists ==
  ASSUME NEW D, NEW a, NEW d, NEW rank, NEW m, Descends(D, d, rank, m)
  PROVE  \E f : Chained(f, D, a, d, rank)
<1>0. /\ m \in Nat /\ \A i \in D : rank[i] \in 0..m
      /\ \A i \in D : rank[i] # 0 => d[i] \in D /\ rank[d[i]] < rank[i]
  BY DEF Descends
<1> DEFINE Val(f, i) == IF rank[i] = 0 THEN <<>> ELSE a[i] \o f[d[i]]
           UpTo(f, k) == /\ f = [i \in D |-> f[i]]
                         /\ \A i \in D : rank[i] <= k => f[i] = Val(f, i)
           K == {k \in Nat : \E f : UpTo(f, k)}
<1>1. 0 \in K
  <2> DEFINE f == [i \in D |-> <<>>]
  <2>1. f = [i \in D |-> f[i]]
    OBVIOUS
  <2>2. ASSUME NEW i \in D, rank[i] <= 0 PROVE f[i] = Val(f, i)
    <3>1. rank[i] = 0
      BY <1>0, <2>2
    <3>. QED
      BY <3>1
  <2> HIDE DEF f, Val
  <2>3. UpTo(f, 0)
    BY <2>1, <2>2
  <2>. QED
    BY <2>3
<1>2. ASSUME NEW k \in K PROVE k + 1 \in K
  <2>1. PICK f : UpTo(f, k)
    OBVIOUS
  <2> DEFINE g == [i \in D |-> IF rank[i] = k + 1 THEN Val(f, i) ELSE f[i]]
  <2>2. k \in Nat /\ k + 1 \in Nat
    OBVIOUS
  <2>3. g = [i \in D |-> g[i]]
    OBVIOUS
  <2>4. \A i \in D : g[i] = IF rank[i] = k + 1 THEN Val(f, i) ELSE f[i]
    OBVIOUS
  <2> HIDE DEF g
  <2>5. ASSUME NEW i \in D, rank[i] <= k + 1 PROVE g[i] = Val(g, i)
    <3>1. rank[i] \in Nat
      BY <1>0
    <3>2. g[i] = Val(f, i)
      <4>1. CASE rank[i] = k + 1
        BY <2>4, <4>1
      <4>2. CASE rank[i] # k + 1
        <5>1. rank[i] <= k
          BY <2>2, <2>5, <3>1, <4>2
        <5> HIDE DEF Val
        <5>. QED
          BY <2>1, <2>4, <4>2, <5>1
      <4>. QED
        BY <4>1, <4>2
    <3>3. rank[i] # 0 => g[d[i]] = f[d[i]]
      <4>1. ASSUME rank[i] # 0 PROVE d[i] \in D /\ rank[d[i]] # k + 1
        <5>1. d[i] \in D /\ rank[d[i]] < rank[i] /\ rank[d[i]] \in Nat
          BY <1>0, <4>1
        <5>. QED
          BY <2>2, <2>5, <3>1, <5>1
      <4> HIDE DEF Val
      <4>. QED
        BY <2>4, <4>1
    <3>. QED
      BY <3>2, <3>3
  <2> HIDE DEF Val
  <2>6. UpTo(g, k + 1)
    BY <2>3, <2>5
  <2>. QED
    BY <2>2, <2>6
<1>3. K \in SUBSET Nat
  OBVIOUS
<1> HIDE DEF K
<1>4. K = Nat
  BY <1>1, <1>2, <1>3, EveryNumber
<1>5. PICK f : UpTo(f, m)
  BY <1>0, <1>4 DEF K
<1>6. \A i \in D : f[i] = Val(f, i)
  <2>1. \A i \in D : rank[i] <= m
    BY <1>0
  <2> HIDE DEF Val
  <2>. QED
    BY <1>5, <2>1
<1>7. f = [i \in D |-> f[i]]
  BY <1>5
<1>8. f = [i \in D |-> Val(f, i)]
  <2> HIDE DEF Val
  <2>. QED
    BY <1>6, <1>7
<1>. QED
  BY <1>8 DEF Chained

-----------------------------------------------------------------------------
(* Round trips.  The text as decode is to give it back, before its space is *)
(* stripped, and where each of its bytes is in the normalised text.         *)

Led == vocab.prefix /\ text # <<>>
Spaced == IF Led THEN <<Space>> \o text ELSE text
Alphabet == ToSet(text) \cup {Space}
Wide == Alphabet \cup ToSet(Marker)

Spaces(i) == {j \in 1..(i - 1) : Spaced[j] = Space}
Spot(i) == i + 2 * Cardinality(Spaces(i))

AtSpot(nm, i) ==
  IF Spaced[i] = Space
  THEN nm[Spot(i)] = "m1" /\ nm[Spot(i) + 1] = "m2" /\ nm[Spot(i) + 2] = "m3"
  ELSE nm[Spot(i)] = Spaced[i]

\* nm is the text with its spaces as markers.
Spelled(nm) == /\ nm \in Seq(Wide) /\ Len(nm) = Spot(Len(Spaced) + 1) - 1
               /\ \A i \in 1..Len(Spaced) : AtSpot(nm, i)

\* The text with the space of the encoder, letter by letter.
LEMMA SpacedIs ==
  ASSUME TextInv
  PROVE  /\ text \in Seq(Alphabet) /\ Len(text) \in Nat
         /\ Spaced \in Seq(Alphabet) /\ Len(Spaced) \in Nat
         /\ Led => /\ Len(Spaced) = Len(text) + 1 /\ Spaced[1] = Space
                   /\ \A i \in 1..Len(text) : Spaced[i + 1] = text[i]
         /\ ~Led => Spaced = text
<1> DEFINE S == Alphabet
<1>1. text \in Seq(S) /\ Space \in S /\ Len(text) \in Nat
  <2>1. text \in Seq(ToSet(text)) /\ ToSet(text) \subseteq S /\ Space \in S
    BY DEF TextInv, Alphabet
  <2> HIDE DEF S
  <2>. QED
    BY <2>1
<1> HIDE DEF S
<1>2. CASE Led
  <2>1. Spaced = <<Space>> \o text
    BY <1>2 DEF Spaced
  <2>2. <<Space>> \in Seq(S)
    BY <1>1
  <2>3. Spaced \in Seq(S) /\ Len(Spaced) = Len(text) + 1 /\ Spaced[1] = Space
    BY <1>1, <2>1, <2>2
  <2>4. \A i \in 1..Len(text) : Spaced[i + 1] = text[i]
    BY <1>1, <2>1, <2>2
  <2>. QED
    BY <1>1, <1>2, <2>3, <2>4 DEF S
<1>3. CASE ~Led
  BY <1>1, <1>3 DEF Spaced, S
<1>. QED
  BY <1>2, <1>3

\* The spaces before a letter can be counted.
LEMMA SpacesFinite ==
  ASSUME NEW i \in Nat
  PROVE  IsFiniteSet(Spaces(i)) /\ Cardinality(Spaces(i)) \in Nat
<1>1. IsFiniteSet(1..(i - 1))
  BY FS_Interval
<1>. QED
  BY <1>1, FS_Subset, FS_CardinalityType DEF Spaces

\* A space takes three bytes of the normalised text, another letter one.
LEMMA SpotNext ==
  ASSUME NEW i \in Nat \ {0}
  PROVE  /\ Spot(i) \in Nat /\ i <= Spot(i)
         /\ Spot(i + 1) = Spot(i) + (IF Spaced[i] = Space THEN 3 ELSE 1)
         /\ Spot(1) = 1
<1>1. IsFiniteSet(Spaces(i)) /\ Cardinality(Spaces(i)) \in Nat
  BY SpacesFinite
<1>2. Spot(1) = 1
  <2>1. Spaces(1) = {}
    BY DEF Spaces
  <2>. QED
    BY <2>1, FS_EmptySet DEF Spot
<1>3. CASE Spaced[i] = Space
  <2>1. Spaces(i + 1) = Spaces(i) \cup {i} /\ i \notin Spaces(i)
    BY <1>3 DEF Spaces
  <2>2. Cardinality(Spaces(i + 1)) = Cardinality(Spaces(i)) + 1
    BY <1>1, <2>1, FS_AddElement
  <2>. QED
    BY <1>1, <1>2, <1>3, <2>2 DEF Spot
<1>4. CASE Spaced[i] # Space
  <2>1. Spaces(i + 1) = Spaces(i)
    BY <1>4 DEF Spaces
  <2>. QED
    BY <1>1, <1>2, <1>4, <2>1 DEF Spot
<1>. QED
  BY <1>3, <1>4

\* Later letters are later in the normalised text.
LEMMA SpotGrows ==
  ASSUME NEW i \in Nat \ {0}, NEW j \in Nat, i < j
  PROVE  Spot(i) < Spot(j)
<1>1. Spaces(i) \subseteq Spaces(j)
  BY DEF Spaces
<1>2. IsFiniteSet(Spaces(j)) /\ Cardinality(Spaces(i)) \in Nat /\ Cardinality(Spaces(j)) \in Nat
  BY SpacesFinite
<1>3. Cardinality(Spaces(i)) <= Cardinality(Spaces(j))
  BY <1>1, <1>2, FS_Subset
<1>. QED
  BY <1>2, <1>3 DEF Spot

\* Without a space the bytes keep their distances.
LEMMA SpotFlat ==
  ASSUME NEW j \in Nat \ {0}, NEW k \in Nat, j <= k,
         \A e \in j..(k - 1) : Spaced[e] # Space
  PROVE  \A e \in j..k : Spot(e) = Spot(j) + (e - j)
<1> SUFFICES ASSUME NEW e \in j..k PROVE Spot(e) = Spot(j) + (e - j)
  OBVIOUS
<1>1. Spaces(e) = Spaces(j)
  BY DEF Spaces
<1>2. Cardinality(Spaces(j)) \in Nat
  BY SpacesFinite
<1>. QED
  BY <1>1, <1>2 DEF Spot

\* normalise() spells the text, with markers for its spaces.
LEMMA NormSpelled ==
  ASSUME TextInv
  PROVE  Spelled(Normalise(text)) /\ (Normalise(text) = <<>> <=> text = <<>>)
<1> DEFINE N == Len(Spaced)
           Enc(c) == IF c = Space THEN Marker ELSE <<c>>
           e == [i \in 1..N |-> Enc(Spaced[i])]
           W == Wide
<1>1. /\ text \in Seq(Alphabet) /\ Spaced \in Seq(Alphabet) /\ N \in Nat /\ Len(text) \in Nat
      /\ \A i \in 1..N : Spaced[i] \in Alphabet
      /\ \A i \in 1..Len(text) : text[i] \in Alphabet
  BY SpacedIs
<1>2. Marker \in Seq(W)
  <2>1. "m1" \in W /\ "m2" \in W /\ "m3" \in W
    BY DEF Wide, Marker, ToSet
  <2> HIDE DEF W
  <2>. QED
    BY <2>1 DEF Marker
<1>3. \A c \in Alphabet : Enc(c) \in Seq(W)
  <2>1. Alphabet \subseteq W
    BY DEF Wide
  <2> HIDE DEF W
  <2>2. \A c \in W : <<c>> \in Seq(W)
    OBVIOUS
  <2>. QED
    BY <1>2, <2>1, <2>2
<1> HIDE DEF W, Enc
<1>4. e \in Seq(Seq(W)) /\ Len(e) = N /\ \A i \in 1..N : e[i] = Enc(Spaced[i])
  BY <1>1, <1>3
<1> HIDE DEF e, N
<1>5. Normalise(text) = FlattenSeq(e)
  <2> DEFINE et == [i \in DOMAIN text |-> IF text[i] = Space THEN Marker ELSE <<text[i]>>]
  <2>1. et = [i \in 1..Len(text) |-> Enc(text[i])]
    BY <1>1 DEF Enc
  <2>2. et \in Seq(Seq(W)) /\ Len(et) = Len(text) /\ \A i \in 1..Len(text) : et[i] = Enc(text[i])
    <3>1. \A i \in 1..Len(text) : Enc(text[i]) \in Seq(W)
      BY <1>1, <1>3
    <3> HIDE DEF et
    <3>. QED
      BY <1>1, <2>1, <3>1
  <2>3. Normalise(text) = IF text = <<>> THEN <<>>
                          ELSE (IF vocab.prefix THEN Marker ELSE <<>>) \o FlattenSeq(et)
    BY DEF Normalise
  <2> HIDE DEF et
  <2>4. FlattenSeq(et) \in Seq(W)
    BY <2>2, FlattenedSeq
  <2>5. CASE text = <<>>
    <3>1. N = 0 /\ Len(e) = 0
      BY <1>1, <1>4, <2>5, SpacedIs DEF N, Led
    <3>2. FlattenSeq(e) = <<>>
      BY <1>4, <3>1 DEF FlattenSeq
    <3>. QED
      BY <2>3, <2>5, <3>2
  <2>6. CASE text # <<>> /\ ~vocab.prefix
    <3>1. Spaced = text /\ N = Len(text)
      BY <2>6, SpacedIs DEF N, Led
    <3>2. e = et
      BY <2>1, <3>1 DEF e
    <3>. QED
      BY <2>3, <2>4, <2>6, <3>2
  <2>7. CASE Led
    <3>1. /\ N = Len(text) + 1 /\ Spaced[1] = Space
          /\ \A i \in 1..Len(text) : Spaced[i + 1] = text[i]
      BY <2>7, SpacedIs DEF N
    <3> DEFINE m == <<Marker>>
    <3>2. m \in Seq(Seq(W)) /\ Len(m) = 1 /\ m[1] = Marker
      BY <1>2
    <3> HIDE DEF m
    <3>3. e = m \o et
      <4> DEFINE w == m \o et
      <4>0. /\ w \in Seq(Seq(W)) /\ Len(w) = 1 + Len(et) /\ Len(et) \in Nat
            /\ \A i \in 1..1 : w[i] = m[i]
            /\ \A i \in 1..Len(et) : w[1 + i] = et[i]
        <5> DEFINE U == Seq(W)
        <5>1. m \in Seq(U) /\ et \in Seq(U)
          BY <2>2, <3>2
        <5> HIDE DEF U
        <5>2. /\ w \in Seq(U) /\ Len(w) = Len(m) + Len(et)
              /\ \A i \in 1..Len(m) : w[i] = m[i]
              /\ \A i \in 1..Len(et) : w[Len(m) + i] = et[i]
          BY <5>1 DEF w
        <5>3. w \in Seq(U) /\ Len(w) = 1 + Len(et) /\ Len(et) \in Nat
          BY <2>2, <3>2, <5>2
        <5>4. w[1] = m[1] /\ \A i \in 1..Len(et) : w[1 + i] = et[i]
          BY <3>2, <5>2
        <5>. QED
          BY <5>3, <5>4 DEF U
      <4> HIDE DEF w
      <4>1. Len(w) = N
        BY <1>1, <2>2, <3>1, <4>0
      <4>2. ASSUME NEW i \in 1..N PROVE e[i] = w[i]
        <5>1. CASE i = 1
          <6>1. w[1] = Marker
            BY <3>2, <4>0
          <6>2. e[1] = Enc(Space)
            BY <1>4, <3>1, <5>1
          <6>. QED
            BY <5>1, <6>1, <6>2 DEF Enc
        <5>2. CASE i # 1
          <6> DEFINE h == i - 1
          <6>1. h \in 1..Len(text) /\ i = h + 1 /\ i = 1 + h
            BY <1>1, <3>1, <5>2
          <6> HIDE DEF h
          <6>2. w[i] = et[h]
            BY <2>2, <4>0, <6>1
          <6>. QED
            BY <1>4, <2>2, <3>1, <6>1, <6>2
        <5>. QED
          BY <5>1, <5>2
      <4>3. e = w
        BY <1>4, <4>0, <4>1, <4>2, SeqEqual
      <4>. QED
        BY <4>3 DEF w
    <3>4. FlattenSeq(e) = FlattenSeq(m) \o FlattenSeq(et)
      BY <2>2, <3>2, <3>3, FlattenConcat
    <3>5. FlattenSeq(m) = Marker
      BY <1>2, FlattenOne DEF m
    <3>. QED
      BY <2>3, <2>7, <3>4, <3>5 DEF Led
  <2>. QED
    BY <2>5, <2>6, <2>7 DEF Led
<1>6. PICK f : /\ f[0] = <<>> /\ \A i \in 1..Len(e) : f[i] = f[i - 1] \o e[i]
               /\ FlattenSeq(e) = f[Len(e)] /\ \A i \in 0..Len(e) : f[i] \in Seq(W)
  BY <1>4, Flattens
<1> DEFINE P(k) == Len(f[k]) = Spot(k + 1) - 1 /\ \A i \in 1..k : AtSpot(f[k], i)
           K == {k \in Nat : k <= N => P(k)}
<1>7. 0 \in K
  <2>1. Len(f[0]) = 0 /\ Spot(0 + 1) - 1 = 0
    BY <1>6, SpotNext
  <2>2. P(0)
    BY <2>1
  <2>. QED
    BY <2>2
<1>8. ASSUME NEW k \in K PROVE k + 1 \in K
  <2>1. k \in Nat /\ k + 1 \in Nat \ {0} /\ (k <= N => P(k))
    OBVIOUS
  <2>2. ASSUME k + 1 <= N PROVE P(k + 1)
    <3> DEFINE g == f[k]  c == Enc(Spaced[k + 1])  h == f[k + 1]  p == Spot(k + 1)
    <3>1. k + 1 \in 1..N /\ k \in 0..N /\ (k + 1) - 1 = k
      BY <1>1, <2>1, <2>2
    <3>2. h = g \o c /\ g \in Seq(W) /\ c \in Seq(W)
      BY <1>1, <1>3, <1>4, <1>6, <3>1
    <3>3. Len(g) = p - 1 /\ \A i \in 1..k : AtSpot(g, i)
      BY <1>1, <2>1, <3>1
    <3>4. p \in Nat /\ Spot((k + 1) + 1) = p + (IF Spaced[k + 1] = Space THEN 3 ELSE 1)
      BY <2>1, SpotNext
    <3> HIDE DEF g, h, p, c
    <3>5. /\ \A a \in 1..Len(g) : h[a] = g[a]
          /\ \A a \in 1..Len(c) : h[Len(g) + a] = c[a]
          /\ Len(h) = Len(g) + Len(c)
      BY <3>2
    <3>6. AtSpot(h, k + 1) /\ Len(h) = Spot((k + 1) + 1) - 1
      <4>1. CASE Spaced[k + 1] = Space
        <5>1. Len(c) = 3 /\ c[1] = "m1" /\ c[2] = "m2" /\ c[3] = "m3"
          BY <4>1 DEF c, Enc, Marker
        <5>2. h[Len(g) + 1] = "m1" /\ h[Len(g) + 2] = "m2" /\ h[Len(g) + 3] = "m3"
          BY <3>5, <5>1
        <5>3. Len(g) + 1 = p /\ Len(g) + 2 = p + 1 /\ Len(g) + 3 = p + 2
          BY <3>3, <3>4
        <5>4. h[p] = "m1" /\ h[p + 1] = "m2" /\ h[p + 2] = "m3"
          BY <5>2, <5>3
        <5>5. AtSpot(h, k + 1)
          BY <4>1, <5>4 DEF AtSpot, p
        <5>. QED
          BY <3>3, <3>4, <3>5, <4>1, <5>1, <5>5
      <4>2. CASE Spaced[k + 1] # Space
        <5>1. Len(c) = 1 /\ c[1] = Spaced[k + 1]
          BY <4>2 DEF c, Enc
        <5>2. h[Len(g) + 1] = Spaced[k + 1]
          BY <3>5, <5>1
        <5>3. Len(g) + 1 = p
          BY <3>3, <3>4
        <5>4. AtSpot(h, k + 1)
          BY <4>2, <5>2, <5>3 DEF AtSpot, p
        <5>. QED
          BY <3>3, <3>4, <3>5, <4>2, <5>1, <5>4
      <4>. QED
        BY <4>1, <4>2
    <3>8. ASSUME NEW i \in 1..k PROVE AtSpot(h, i)
      <4> DEFINE o == Spot(i)
      <4>1. i \in Nat \ {0} /\ i < k + 1
        BY <2>1
      <4>2. o \in Nat \ {0} /\ Spot(i + 1) = o + (IF Spaced[i] = Space THEN 3 ELSE 1)
        BY <4>1, SpotNext
      <4>3. Spot(i + 1) <= p
        <5>1. CASE i + 1 = k + 1
          BY <3>4, <4>1, <5>1 DEF p
        <5>2. CASE i + 1 < k + 1
          <6>1. Spot(i + 1) < Spot(k + 1)
            BY <2>1, <4>1, <5>2, SpotGrows
          <6>2. Spot(i + 1) \in Nat
            BY <4>1, SpotNext
          <6>. QED
            BY <3>4, <6>1, <6>2 DEF p
        <5>. QED
          BY <2>1, <4>1, <5>1, <5>2
      <4> HIDE DEF o
      <4>4. o \in 1..Len(g) /\ (Spaced[i] = Space => o + 1 \in 1..Len(g) /\ o + 2 \in 1..Len(g))
        BY <3>3, <3>4, <4>2, <4>3
      <4>5. AtSpot(g, i)
        BY <3>3
      <4>. QED
        BY <3>5, <4>4, <4>5 DEF AtSpot, o
    <3>9. \A i \in 1..(k + 1) : i = k + 1 \/ i \in 1..k
      BY <2>1
    <3>. QED
      BY <3>6, <3>8, <3>9 DEF h
  <2> HIDE DEF P
  <2>. QED
    BY <2>1, <2>2
<1>9. K = Nat
  <2>1. K \in SUBSET Nat
    OBVIOUS
  <2> HIDE DEF K
  <2>. QED
    BY <1>7, <1>8, <2>1, EveryNumber
<1>10. P(N)
  <2> HIDE DEF P
  <2>1. N \in K
    BY <1>1, <1>9
  <2>. QED
    BY <1>1, <2>1
<1>11. Normalise(text) = f[N] /\ f[N] \in Seq(W)
  <2>1. N \in 0..N /\ Len(e) = N
    BY <1>1, <1>4
  <2>. QED
    BY <1>5, <1>6, <2>1
<1>12. Spelled(Normalise(text))
  BY <1>10, <1>11 DEF Spelled, N, W
<1>13. Normalise(text) = <<>> <=> text = <<>>
  <2>1. Len(Normalise(text)) = Spot(N + 1) - 1 /\ N + 1 <= Spot(N + 1) /\ Spot(N + 1) \in Nat
    BY <1>1, <1>10, <1>11, SpotNext
  <2>2. text # <<>> => N > 0
    BY <1>1, SpacedIs DEF N
  <2>3. text # <<>> => Len(Normalise(text)) > 0
    BY <1>1, <2>1, <2>2
  <2>4. text = <<>> => Normalise(text) = <<>>
    BY DEF Normalise
  <2>. QED
    BY <2>3, <2>4
<1>. QED
  BY <1>12, <1>13

\* The starts of the characters go up.
LEMMA WalksUp ==
  ASSUME NEW q, NEW s, NEW i, Walks(q, s, i), Len(s) \in Nat
  PROVE  \A a, b \in 1..Len(q) : a < b => q[a] < q[b]
<1> DEFINE n == Len(q)
           K == {k \in Nat : \A a, b \in 1..n : b = a + 1 + k => q[a] < q[b]}
<1>1. /\ n \in Nat /\ \A a \in 1..n : q[a] \in Nat
      /\ \A a \in 1..n : a # n => q[a] < q[a + 1]
  <2>1. q \in Seq(1..Len(s))
    BY DEF Walks
  <2>2. n \in Nat /\ \A a \in 1..n : q[a] \in Nat
    BY <2>1
  <2>3. ASSUME NEW a \in 1..n, a # n PROVE q[a] < q[a + 1]
    <3> DEFINE u == Utf8Len(s[q[a]])
    <3>1. u \in 1..4
      BY CharLength
    <3>2. q[a + 1] = q[a] + u
      BY <2>3 DEF Walks
    <3> HIDE DEF u
    <3>. QED
      BY <2>2, <3>1, <3>2
  <2>. QED
    BY <2>2, <2>3
<1> HIDE DEF n
<1>2. 0 \in K
  <2>1. ASSUME NEW a \in 1..n, NEW b \in 1..n, b = a + 1 + 0 PROVE q[a] < q[b]
    <3>1. a # n /\ b = a + 1
      BY <1>1, <2>1
    <3>. QED
      BY <1>1, <3>1
  <2>. QED
    BY <2>1
<1>3. ASSUME NEW k \in K PROVE k + 1 \in K
  <2>1. k \in Nat
    OBVIOUS
  <2>2. ASSUME NEW a \in 1..n, NEW b \in 1..n, b = a + 1 + (k + 1) PROVE q[a] < q[b]
    <3> DEFINE e == b - 1
    <3>1. e \in 1..n /\ e = a + 1 + k /\ e # n /\ e + 1 = b
      BY <1>1, <2>1, <2>2
    <3> HIDE DEF e
    <3>2. q[a] < q[e]
      BY <3>1
    <3>3. q[e] < q[b]
      BY <1>1, <3>1
    <3>. QED
      BY <1>1, <3>1, <3>2, <3>3
  <2>. QED
    BY <2>1, <2>2
<1>4. K = Nat
  <2>1. K \in SUBSET Nat
    OBVIOUS
  <2> HIDE DEF K
  <2>. QED
    BY <1>2, <1>3, <2>1, EveryNumber
<1>5. ASSUME NEW a \in 1..n, NEW b \in 1..n, a < b PROVE q[a] < q[b]
  <2>1. b - a - 1 \in Nat /\ b = a + 1 + (b - a - 1)
    BY <1>1, <1>5
  <2>2. b - a - 1 \in K
    BY <1>4, <2>1
  <2>. QED
    BY <2>1, <2>2
<1>. QED
  BY <1>5 DEF n

\* In a plain text a character has all its bytes.
LEMMA LeadThenCont ==
  ASSUME TextInv, PlainText, NEW i \in 1..Len(text), text[i] # "cont",
         NEW e \in 1..(Utf8Len(text[i]) - 1)
  PROVE  i + e \in 1..Len(text) /\ text[i + e] = "cont"
<1> DEFINE q == Starts(text)  u == Utf8Len(text[i])
<1>1. DOMAIN text = 1..Len(text) /\ Len(text) \in Nat
  BY DEF TextInv
<1>2. Walks(q, text, 1)
  BY <1>1, StartsWalk
<1>3. /\ \A d \in 1..Len(text) : d \notin ToSet(q) <=> text[d] = "cont"
      /\ i + u - 1 <= Len(text)
  BY <1>1 DEF PlainText
<1>3a. u \in 1..4 /\ e \in 1..(u - 1)
  BY CharLength
<1> HIDE DEF q, u
<1>4. i + e \in 1..Len(text)
  BY <1>1, <1>3, <1>3a
<1>5. q \in Seq(1..Len(text)) /\ DOMAIN q = 1..Len(q) /\ Len(q) \in Nat
  BY <1>2 DEF Walks
<1>6. ASSUME text[i + e] # "cont" PROVE FALSE
  <2>1. i \in ToSet(q) /\ i + e \in ToSet(q)
    BY <1>3, <1>4, <1>6
  <2>2. PICK a \in 1..Len(q) : q[a] = i
    BY <1>5, <2>1 DEF ToSet
  <2>3. PICK b \in 1..Len(q) : q[b] = i + e
    BY <1>5, <2>1 DEF ToSet
  <2>5. \A c, d \in 1..Len(q) : c < d => q[c] < q[d]
    BY <1>1, <1>2, WalksUp
  <2> DEFINE n == Len(q)
  <2>5a. a \in 1..n /\ b \in 1..n /\ n \in Nat
    BY <1>5, <2>2, <2>3
  <2> HIDE DEF n
  <2>6. CASE a = n
    <3>1. q[b] <= q[a]
      <4>1. b = a \/ b < a
        BY <2>5a, <2>6
      <4>3. b < a => q[b] < q[a]
        BY <2>5, <2>5a DEF n
      <4>. QED
        BY <2>2, <2>3, <4>1, <4>3
    <3>. QED
      BY <1>3a, <2>2, <2>3, <3>1
  <2>7. CASE a # n
    <3>1. a + 1 \in 1..n
      BY <2>5a, <2>7
    <3>2. q[a + 1] = i + u
      BY <1>2, <2>2, <2>7 DEF Walks, n, u
    <3>3. b <= a \/ b = a + 1 \/ a + 1 < b
      BY <2>5a
    <3>4. b <= a => b = a \/ b < a
      BY <2>5a
    <3>5. CASE b < a
      BY <1>3a, <2>2, <2>3, <2>5, <2>5a, <3>5 DEF n
    <3>6. CASE a + 1 < b
      BY <1>3a, <2>3, <2>5, <2>5a, <3>1, <3>2, <3>6 DEF n
    <3>. QED
      BY <1>3a, <2>2, <2>3, <3>2, <3>3, <3>4, <3>5, <3>6
  <2>. QED
    BY <2>6, <2>7
<1>. QED
  BY <1>4, <1>6

\* The spots are in the order of the bytes.
LEMMA SpotOrder ==
  ASSUME NEW i \in Nat \ {0}, NEW j \in Nat \ {0}
  PROVE  (Spot(i) <= Spot(j) <=> i <= j) /\ (Spot(i) = Spot(j) <=> i = j)
<1>1. Spot(i) \in Nat /\ Spot(j) \in Nat
  BY SpotNext
<1>2. (i < j => Spot(i) < Spot(j)) /\ (j < i => Spot(j) < Spot(i))
  BY SpotGrows
<1> DEFINE a == Spot(i)  b == Spot(j)
<1> HIDE DEF a, b
<1>3. a \in Nat /\ b \in Nat /\ (i < j => a < b) /\ (j < i => b < a) /\ (i = j => a = b)
  BY <1>1, <1>2 DEF a, b
<1>4. (a <= b <=> i <= j) /\ (a = b <=> i = j)
  BY <1>3
<1>. QED
  BY <1>4 DEF a, b

\* What stands at a spot.
LEMMA AtSpots ==
  ASSUME TextInv, NEW nm, Spelled(nm), NEW i \in 1..Len(Spaced)
  PROVE  /\ Spot(i) \in 1..Len(nm)
         /\ Spaced[i] = Space => /\ Spot(i) + 2 \in 1..Len(nm) /\ Spot(i + 1) = Spot(i) + 3
                                 /\ nm[Spot(i)] = "m1" /\ nm[Spot(i) + 1] = "m2"
                                 /\ nm[Spot(i) + 2] = "m3"
         /\ Spaced[i] # Space => nm[Spot(i)] = Spaced[i] /\ Spot(i + 1) = Spot(i) + 1
<1> DEFINE N == Len(Spaced)  p == Spot(i)  r == Spot(i + 1)  e == Spot(N + 1)
<1>1. N \in Nat /\ i \in Nat \ {0} /\ i + 1 \in Nat \ {0} /\ N + 1 \in Nat \ {0} /\ i + 1 <= N + 1
  BY SpacedIs
<1>2. p \in Nat /\ i <= p /\ r = p + (IF Spaced[i] = Space THEN 3 ELSE 1)
  BY <1>1, SpotNext
<1>3. r <= e /\ e \in Nat
  BY <1>1, SpotOrder, SpotNext
<1>4. Len(nm) = e - 1 /\ AtSpot(nm, i)
  BY DEF Spelled
<1> HIDE DEF N, p, r, e
<1>5. /\ p \in 1..Len(nm)
      /\ Spaced[i] = Space => p + 2 \in 1..Len(nm) /\ r = p + 3
      /\ Spaced[i] # Space => r = p + 1
  BY <1>1, <1>2, <1>3, <1>4
<1>. QED
  BY <1>4, <1>5 DEF AtSpot, p, r

-----------------------------------------------------------------------------
(* Every symbol that is left stands for some of the text's bytes, and is a  *)
(* token unless it has no space.                                            *)

Stands(ss, nm, i, j, k) ==
  /\ j < k /\ ss[i].start = Spot(j) /\ ss[i].start + ss[i].n = Spot(k)
  /\ IdFor(SubSeq(nm, Spot(j), Spot(k) - 1)) # 0 \/ \A e \in j..(k - 1) : Spaced[e] # Space
  /\ IF ss[i].next = 0 THEN k = Len(Spaced) + 1 ELSE ss[ss[i].next].start = Spot(k)

Spelling(ss, nm) ==
  /\ \A i \in DOMAIN ss : ss[i].next # 0 => ss[i].next \in DOMAIN ss /\ i < ss[i].next
  /\ ss # <<>> => 1 \in Live(ss) /\ ss[1].start = 1
  /\ ss = <<>> => Spaced = <<>>
  /\ \A i \in Live(ss) :
       \E j \in 1..Len(Spaced) : \E k \in 1..(Len(Spaced) + 1) : Stands(ss, nm, i, j, k)

\* What a character of the text is.
LEMMA CharStands ==
  ASSUME TextInv, PlainText, IdFor(Marker) # 0, NEW nm, Spelled(nm), NEW j \in 1..Len(Spaced)
  PROVE  \E k \in 1..(Len(Spaced) + 1) :
           /\ j < k /\ Spot(j) + Utf8Len(nm[Spot(j)]) = Spot(k)
           /\ \/ IdFor(SubSeq(nm, Spot(j), Spot(k) - 1)) # 0
              \/ \A e \in j..(k - 1) : Spaced[e] # Space
<1> DEFINE N == Len(Spaced)
<1>1. N \in Nat /\ j \in Nat \ {0} /\ j + 1 \in 1..(N + 1) /\ j < j + 1
  BY SpacedIs
<1>2. CASE Spaced[j] = Space
  <2>1. /\ Spot(j) \in 1..Len(nm) /\ Spot(j) + 2 \in 1..Len(nm) /\ Spot(j + 1) = Spot(j) + 3
        /\ nm[Spot(j)] = "m1" /\ nm[Spot(j) + 1] = "m2" /\ nm[Spot(j) + 2] = "m3"
    BY <1>2, AtSpots
  <2>2. Utf8Len(nm[Spot(j)]) = 3
    BY <2>1 DEF Utf8Len, Marker, Leads
  <2>3. SubSeq(nm, Spot(j), Spot(j + 1) - 1) = Marker
    <3> DEFINE p == Spot(j)  w == SubSeq(nm, p, p + 2)
    <3>1. nm \in Seq(Wide) /\ p \in 1..Len(nm) /\ p + 2 \in 1..Len(nm)
      BY <2>1 DEF Spelled
    <3> HIDE DEF p
    <3>2. Len(w) = 3 /\ w \in Seq(Wide) /\ \A e \in 1..3 : w[e] = nm[p + e - 1]
      BY <3>1
    <3> HIDE DEF w
    <3>3. w[1] = nm[p] /\ w[2] = nm[p + 1] /\ w[3] = nm[p + 2]
      <4>1. p + 1 - 1 = p /\ p + 2 - 1 = p + 1 /\ p + 3 - 1 = p + 2
        BY <3>1
      <4>. QED
        BY <3>2, <4>1
    <3>4. w = Marker
      BY <2>1, <3>2, <3>3 DEF Marker, p
    <3>5. Spot(j + 1) - 1 = p + 2
      BY <2>1, <3>1 DEF p
    <3>. QED
      BY <3>4, <3>5 DEF w, p
  <2>. QED
    BY <1>1, <2>1, <2>2, <2>3
<1>3. CASE Spaced[j] # Space /\ Spaced[j] \notin DOMAIN Leads
  <2>1. nm[Spot(j)] = Spaced[j] /\ Spot(j + 1) = Spot(j) + 1
    BY <1>3, AtSpots
  <2>2. Spaced[j] # "m1"
    <3>1. PICK i \in 1..Len(text) : Spaced[j] = text[i]
      <4>1. CASE ~Led
        BY <4>1, SpacedIs
      <4>2. CASE Led
        <5>1. /\ N = Len(text) + 1 /\ Spaced[1] = Space
              /\ \A e \in 1..Len(text) : Spaced[e + 1] = text[e]
          BY <4>2, SpacedIs
        <5>2. j - 1 \in 1..Len(text) /\ (j - 1) + 1 = j
          BY <1>1, <1>3, <5>1
        <5>. QED
          BY <5>1, <5>2
      <4>. QED
        BY <4>1, <4>2
    <3>2. i \in DOMAIN text
      BY DEF TextInv
    <3>. QED
      BY <3>1, <3>2 DEF PlainText, Marker
  <2>3. Utf8Len(nm[Spot(j)]) = 1
    BY <1>3, <2>1, <2>2 DEF Utf8Len, Marker
  <2>4. \A e \in j..((j + 1) - 1) : e = j
    BY <1>1
  <2>. QED
    BY <1>1, <1>3, <2>1, <2>3, <2>4
<1>4. CASE Spaced[j] \in DOMAIN Leads
  <2> DEFINE u == Utf8Len(Spaced[j])
  <2>1. Spaced[j] # Space /\ Spaced[j] # "cont" /\ u \in 2..4
    BY <1>4 DEF Leads, Utf8Len, Space
  <2>2. nm[Spot(j)] = Spaced[j] /\ Spot(j + 1) = Spot(j) + 1
    BY <2>1, AtSpots
  <2>3. ASSUME NEW e \in 1..(u - 1) PROVE j + e \in 1..N /\ Spaced[j + e] = "cont"
    <3>1. CASE ~Led
      <4>1. j \in 1..Len(text) /\ N = Len(text) /\ Spaced = text
        BY <3>1, SpacedIs
      <4>. QED
        BY <2>1, <4>1, LeadThenCont
    <3>2. CASE Led
      <4> DEFINE i == j - 1
      <4>1. /\ N = Len(text) + 1 /\ Spaced[1] = Space
            /\ \A d \in 1..Len(text) : Spaced[d + 1] = text[d]
        BY <3>2, SpacedIs
      <4>2. i \in 1..Len(text) /\ i + 1 = j
        BY <1>1, <2>1, <4>1
      <4> HIDE DEF i
      <4>3. text[i] = Spaced[j]
        BY <4>1, <4>2
      <4>4. i + e \in 1..Len(text) /\ text[i + e] = "cont"
        BY <2>1, <4>2, <4>3, LeadThenCont
      <4>5. e \in Nat /\ (i + e) + 1 = j + e
        BY <2>1, <4>2
      <4>. QED
        BY <1>1, <4>1, <4>4, <4>5
    <3>. QED
      BY <3>1, <3>2
  <2> HIDE DEF u
  <2>4. ASSUME NEW e \in 1..(u - 1) PROVE Spot((j + e) + 1) = Spot(j + e) + 1
    <3>1. Spaced[j + e] # Space
      BY <2>3 DEF Space
    <3>. QED
      BY <2>3, <3>1, AtSpots
  <2>5. Spot(j) + u = Spot(j + u)
    <3>1. /\ Spot(j) \in Nat
          /\ (j + 1) + 1 = j + 2 /\ (j + 2) + 1 = j + 3 /\ (j + 3) + 1 = j + 4
      BY <1>1, SpotNext
    <3>2. Spot(j + 2) = Spot(j) + 2
      <4>1. 1 \in 1..(u - 1)
        BY <2>1
      <4>. QED
        BY <2>2, <2>4, <3>1, <4>1
    <3>3. u >= 3 => Spot(j + 3) = Spot(j) + 3
      <4>1. u >= 3 => 2 \in 1..(u - 1)
        BY <2>1
      <4>. QED
        BY <2>4, <3>1, <3>2, <4>1
    <3>4. u = 4 => Spot(j + 4) = Spot(j) + 4
      <4>1. u = 4 => u >= 3 /\ 3 \in 1..(u - 1)
        BY <2>1
      <4>. QED
        BY <2>4, <3>1, <3>3, <4>1
    <3>. QED
      BY <2>1, <3>2, <3>3, <3>4
  <2>6. \A e \in j..((j + u) - 1) : Spaced[e] # Space
    <3>1. ASSUME NEW e \in j..((j + u) - 1) PROVE e = j \/ (e - j \in 1..(u - 1) /\ j + (e - j) = e)
      BY <1>1, <2>1
    <3>2. ASSUME NEW e \in 1..(u - 1) PROVE Spaced[j + e] # Space
      BY <2>3 DEF Space
    <3>. QED
      BY <2>1, <3>1, <3>2
  <2>7. j + u \in 1..(N + 1) /\ j < j + u
    <3>1. u - 1 \in 1..(u - 1)
      BY <2>1
    <3>2. j + (u - 1) \in 1..N
      BY <2>3, <3>1
    <3>. QED
      BY <1>1, <2>1, <3>2
  <2>8. Spot(j) + Utf8Len(nm[Spot(j)]) = Spot(j + u)
    BY <2>2, <2>5 DEF u
  <2>. QED
    BY <2>6, <2>7, <2>8
<1>. QED
  BY <1>2, <1>3, <1>4

\* Every character starts at a spot, and ends at one.
LEMMA StartsAtSpots ==
  ASSUME TextInv, PlainText, IdFor(Marker) # 0, NEW nm, Spelled(nm),
         NEW a \in 1..Len(Starts(nm))
  PROVE  \E j \in 1..Len(Spaced) : Starts(nm)[a] = Spot(j)
<1> DEFINE q == Starts(nm)  n == Len(q)  N == Len(Spaced)
           K == {k \in Nat : k + 1 \in 1..n => \E j \in 1..N : q[k + 1] = Spot(j)}
<1>1. N \in Nat /\ nm \in Seq(Wide) /\ Len(nm) = Spot(N + 1) - 1 /\ Len(nm) \in Nat
  BY SpacedIs DEF Spelled
<1>2. Walks(q, nm, 1)
  BY <1>1, StartsWalk
<1> HIDE DEF q, N
<1>3. n \in Nat /\ q \in Seq(1..Len(nm)) /\ \A b \in 1..n : q[b] \in 1..Len(nm)
  <2>1. q \in Seq(1..Len(nm))
    BY <1>2 DEF Walks
  <2>. QED
    BY <2>1
<1>4. 0 \in K
  <2>1. ASSUME 1 \in 1..n PROVE q[1] = Spot(1) /\ 1 \in 1..N
    <3>1. q # <<>>
      BY <1>3, <2>1
    <3>2. q[1] = 1 /\ 1 \in 1..Len(nm)
      BY <1>2, <1>3, <2>1, <3>1 DEF Walks
    <3>3. Spot(1) = 1
      BY SpotNext
    <3>4. N # 0
      <4>1. N = 0 => Len(nm) = 0
        BY <1>1, <3>3
      <4>. QED
        BY <3>2, <4>1
    <3>. QED
      BY <1>1, <3>2, <3>3, <3>4
  <2>. QED
    BY <2>1
<1>5. ASSUME NEW k \in K PROVE k + 1 \in K
  <2>1. k \in Nat /\ k + 1 \in Nat
    OBVIOUS
  <2>2. ASSUME (k + 1) + 1 \in 1..n PROVE \E j \in 1..N : q[(k + 1) + 1] = Spot(j)
    <3> DEFINE e == k + 1
    <3>1. e \in 1..n /\ e # n /\ e + 1 \in 1..n
      BY <1>3, <2>1, <2>2
    <3>2. PICK j \in 1..N : q[e] = Spot(j)
      BY <3>1
    <3> HIDE DEF e
    <3>3. PICK m \in 1..(N + 1) : Spot(j) + Utf8Len(nm[Spot(j)]) = Spot(m)
      BY CharStands DEF N
    <3>4. q[e + 1] = Spot(m)
      BY <1>2, <3>1, <3>2, <3>3 DEF Walks
    <3>5. m # N + 1
      <4>1. q[e + 1] <= Len(nm) /\ q[e + 1] \in Nat
        BY <1>3, <3>1
      <4>2. Spot(N + 1) \in Nat
        BY <1>1, SpotNext
      <4>. QED
        BY <1>1, <3>4, <4>1, <4>2
    <3>6. m \in 1..N
      BY <1>1, <3>5
    <3>. QED
      BY <3>4, <3>6 DEF e
  <2>. QED
    BY <2>1, <2>2
<1>6. K = Nat
  <2>1. K \in SUBSET Nat
    OBVIOUS
  <2> HIDE DEF K
  <2>. QED
    BY <1>4, <1>5, <2>1, EveryNumber
<1>7. a - 1 \in Nat /\ (a - 1) + 1 = a /\ a \in 1..n
  BY <1>3 DEF q
<1>8. \E j \in 1..N : q[a] = Spot(j)
  BY <1>6, <1>7
<1>. QED
  BY <1>8 DEF q, N

\* The characters of the text spell it.
LEMMA SplitSpelling ==
  ASSUME TextInv, PlainText, IdFor(Marker) # 0, NEW nm, Spelled(nm)
  PROVE  Spelling(Split(nm), nm)
<1> DEFINE q == Starts(nm)  c == Len(q)  N == Len(Spaced)  ss == Split(nm)
<1>1. N \in Nat /\ nm \in Seq(Wide) /\ Len(nm) = Spot(N + 1) - 1 /\ Len(nm) \in Nat
  BY SpacedIs DEF Spelled
<1>2. Walks(q, nm, 1)
  BY <1>1, StartsWalk
<1>3. /\ Live(ss) = DOMAIN ss /\ DOMAIN ss = 1..Len(ss) /\ Len(ss) \in Nat
      /\ \A i \in DOMAIN ss : ss[i].next = IF i = Len(ss) THEN 0 ELSE i + 1
  BY <1>1, SplitLinked
<1>4. c \in Nat /\ q \in Seq(1..Len(nm)) /\ \A b \in 1..c : q[b] \in 1..Len(nm)
  <2>1. q \in Seq(1..Len(nm))
    BY <1>2 DEF Walks
  <2> HIDE DEF q
  <2>. QED
    BY <2>1
<1>5. DOMAIN ss = 1..c /\ Len(ss) = c
  <2>1. DOMAIN ss = 1..c
    BY DEF Split
  <2> DEFINE l == Len(ss)
  <2>2. l \in Nat /\ c \in Nat /\ 1..l = 1..c
    BY <1>3, <1>4, <2>1
  <2> HIDE DEF ss, c, l
  <2>3. (l # 0 => l \in 1..l) /\ (c # 0 => c \in 1..c)
    BY <2>2
  <2>4. (l # 0 => l \in 1..c) /\ (c # 0 => c \in 1..l)
    BY <2>2, <2>3
  <2>5. l = c
    BY <2>2, <2>4
  <2>. QED
    BY <2>1, <2>5 DEF l
<1>6. ASSUME NEW i \in 1..c
      PROVE  /\ ss[i].start = q[i]
             /\ ss[i].n = (IF i = c THEN Len(nm) + 1 ELSE q[i + 1]) - q[i]
  BY DEF Split
<1>7. ASSUME NEW a \in 1..c PROVE \E j \in 1..N : q[a] = Spot(j)
  BY StartsAtSpots
<1> HIDE DEF ss, q, c, N
<1>8. \A i \in DOMAIN ss : ss[i].next # 0 => ss[i].next \in DOMAIN ss /\ i < ss[i].next
  BY <1>3
<1>9. ss # <<>> => 1 \in Live(ss) /\ ss[1].start = 1
  <2>1. ASSUME ss # <<>> PROVE c # 0
    <3>1. Linked(ss)
      BY <1>1, SplitLinked DEF ss
    <3>2. ss \in Seq(Symbols)
      BY <3>1 DEF Linked
    <3>. QED
      BY <1>5, <2>1, <3>2
  <2>2. ASSUME c # 0 PROVE 1 \in 1..c /\ q # <<>>
    BY <1>4, <2>2 DEF c
  <2>3. ASSUME c # 0 PROVE q[1] = 1
    BY <1>2, <1>4, <2>2, <2>3 DEF Walks
  <2>. QED
    BY <1>3, <1>5, <1>6, <2>1, <2>2, <2>3
<1>10. ss = <<>> => Spaced = <<>>
  <2>1. ASSUME ss = <<>> PROVE Len(nm) = 0
    <3>1. c = 0
      BY <1>5, <2>1
    <3>2. q = <<>>
      BY <1>4, <3>1 DEF c
    <3> DEFINE l == Len(nm)
    <3>3. l \in Nat /\ 1 > l
      BY <1>1, <1>2, <3>2 DEF Walks
    <3> HIDE DEF l
    <3>4. l = 0
      BY <3>3
    <3>. QED
      BY <3>4 DEF l
  <2>2. N + 1 <= Spot(N + 1) /\ Spot(N + 1) \in Nat
    BY <1>1, SpotNext
  <2>3. ss = <<>> => N = 0
    BY <1>1, <2>1, <2>2
  <2>. QED
    BY <2>3, SpacedIs DEF N
<1>11. ASSUME NEW i \in 1..c
       PROVE  \E j \in 1..N : \E k \in 1..(N + 1) : Stands(ss, nm, i, j, k)
  <2>1. PICK j \in 1..N : q[i] = Spot(j)
    BY <1>7
  <2>2. PICK k \in 1..(N + 1) :
          /\ j < k /\ Spot(j) + Utf8Len(nm[Spot(j)]) = Spot(k)
          /\ \/ IdFor(SubSeq(nm, Spot(j), Spot(k) - 1)) # 0
             \/ \A e \in j..(k - 1) : Spaced[e] # Space
    BY CharStands DEF N
  <2>3. Spot(j) \in Nat /\ Spot(k) \in Nat /\ Spot(N + 1) \in Nat
    <3>1. j \in Nat \ {0} /\ k \in Nat \ {0} /\ N + 1 \in Nat \ {0}
      BY <1>1
    <3>. QED
      BY <3>1, SpotNext
  <2>4. CASE i = c
    <3>1. Spot(k) > Len(nm)
      BY <1>2, <2>1, <2>2, <2>4 DEF Walks, c
    <3>2. Spot(N + 1) <= Spot(k)
      BY <1>1, <2>3, <3>1
    <3>3. N + 1 <= k
      BY <1>1, <3>2, SpotOrder
    <3>4. k = N + 1
      BY <1>1, <3>3
    <3>5. ss[i].start = Spot(j) /\ ss[i].start + ss[i].n = Spot(k)
      BY <1>1, <1>6, <2>1, <2>3, <2>4, <3>4
    <3>6. ss[i].next = 0
      BY <1>3, <1>5, <2>4
    <3>. QED
      BY <2>2, <3>4, <3>5, <3>6 DEF Stands, N
  <2>5. CASE i # c
    <3>1. q[i + 1] = Spot(k)
      BY <1>2, <2>1, <2>2, <2>5 DEF Walks, c
    <3>2. i + 1 \in 1..c /\ i + 1 # 0
      BY <1>4, <2>5
    <3>3. ss[i].start = Spot(j) /\ ss[i].start + ss[i].n = Spot(k)
      BY <1>6, <2>1, <2>3, <2>5, <3>1
    <3>4. ss[i].next = i + 1 /\ ss[i + 1].start = Spot(k)
      BY <1>3, <1>5, <1>6, <2>5, <3>1, <3>2
    <3>. QED
      BY <2>2, <3>2, <3>3, <3>4 DEF Stands
  <2>. QED
    BY <2>4, <2>5
<1>. QED
  BY <1>3, <1>5, <1>8, <1>9, <1>10, <1>11 DEF Spelling, ss, N

\* Two that are merged stand for the bytes of both.
LEMMA MergeSpelling ==
  ASSUME TextInv, Linked(syms), NEW nm, nm = norm, Spelling(syms, nm),
         NEW b \in Mergeable(syms)
  PROVE  Spelling(Merged(b), nm)
<1> DEFINE x == b.left  y == b.right  z == syms[y].next  m == Merged(b)  N == Len(Spaced)
<1>1. /\ x \in Live(syms) /\ y \in Live(syms) /\ syms[x].next = y /\ y # 0 /\ x < y
      /\ IdFor(Joined(norm, syms, x, y)) # 0
  <2>1. PICK i \in Live(syms) : b \in TryAdd(norm, syms, i, syms[i].next)
    BY DEF Mergeable, Live
  <2>2. b.left = i /\ b.right = syms[i].next /\ syms[i].next # 0
    BY <2>1, Added
  <2>3. syms[i].next \in Live(syms) /\ i < syms[i].next
    BY <2>2 DEF Linked
  <2>4. IdFor(Joined(norm, syms, i, syms[i].next)) # 0
    BY <2>1 DEF TryAdd
  <2>. QED
    BY <2>1, <2>2, <2>3, <2>4
<1>2. /\ DOMAIN m = DOMAIN syms /\ m \in Seq(Symbols)
      /\ \A i \in DOMAIN syms :
           /\ m[i].start = syms[i].start
           /\ i # x /\ i # y => m[i].n = syms[i].n
           /\ i # x => m[i].next = syms[i].next
      /\ m[x].n = syms[x].n + syms[y].n /\ m[y].n = 0 /\ m[x].next = z
  BY <1>1, Merging
<1>3. /\ \A i \in DOMAIN syms : syms[i].n \in Nat /\ syms[i].start \in Int /\ syms[i].next \in Nat
      /\ DOMAIN syms = 1..Len(syms) /\ Len(syms) \in Nat
      /\ x \in DOMAIN syms /\ y \in DOMAIN syms /\ syms[x].n > 0 /\ syms[y].n > 0
  <2>1. syms \in Seq(Symbols)
    BY DEF Linked
  <2>2. \A i \in DOMAIN syms : syms[i] \in Symbols
    BY <2>1
  <2>3. \A i \in DOMAIN syms : syms[i].n \in Nat /\ syms[i].start \in Int /\ syms[i].next \in Nat
    BY <2>2 DEF Symbols
  <2>4. DOMAIN syms = 1..Len(syms) /\ Len(syms) \in Nat
    BY <2>1
  <2>. QED
    BY <1>1, <2>3, <2>4 DEF Live
<1>3a. N \in Nat
  BY SpacedIs
<1> HIDE DEF m, x, y, z, N
<1>4. Live(m) = Live(syms) \ {y}
  <2>1. \A i \in DOMAIN syms : m[i].n > 0 <=> i # y /\ syms[i].n > 0
    BY <1>1, <1>2, <1>3
  <2>. QED
    BY <1>2, <2>1 DEF Live
<1>5. /\ \A i \in DOMAIN syms : syms[i].next # 0 => syms[i].next \in DOMAIN syms /\ i < syms[i].next
      /\ syms # <<>> => 1 \in Live(syms) /\ syms[1].start = 1
      /\ syms = <<>> => Spaced = <<>>
      /\ \A i \in Live(syms) : \E j \in 1..N : \E k \in 1..(N + 1) : Stands(syms, nm, i, j, k)
  BY DEF Spelling, N
<1>6. \A i \in DOMAIN m : m[i].next # 0 => m[i].next \in DOMAIN m /\ i < m[i].next
  <2>1. z # 0 => z \in DOMAIN syms /\ x < z
    <3>1. z # 0 => z \in DOMAIN syms /\ y < z
      BY <1>3, <1>5 DEF z
    <3>. QED
      BY <1>1, <1>3, <3>1
  <2>. QED
    BY <1>2, <1>5, <2>1
<1>7. m # <<>> /\ syms # <<>>
  <2>1. syms # <<>>
    BY <1>3
  <2>2. m # <<>>
    BY <1>2, <1>3
  <2>. QED
    BY <2>1, <2>2
<1>8. 1 \in Live(m) /\ m[1].start = 1
  <2>1. y # 1
    BY <1>1, <1>3
  <2>2. 1 \in DOMAIN syms
    BY <1>5, <1>7 DEF Live
  <2>. QED
    BY <1>2, <1>4, <1>5, <1>7, <2>1, <2>2
<1>9. ASSUME NEW i \in Live(m)
      PROVE  \E j \in 1..N : \E k \in 1..(N + 1) : Stands(m, nm, i, j, k)
  <2>1. i \in Live(syms) /\ i # y /\ i \in DOMAIN syms
    BY <1>4 DEF Live
  <2>2. PICK j \in 1..N : \E k \in 1..(N + 1) : Stands(syms, nm, i, j, k)
    BY <1>5, <2>1
  <2>3. PICK k \in 1..(N + 1) : Stands(syms, nm, i, j, k)
    BY <2>2
  <2>4. CASE i # x
    <3>1. m[i].start = syms[i].start /\ m[i].n = syms[i].n /\ m[i].next = syms[i].next
      BY <1>2, <2>1, <2>4
    <3>2. m[i].next # 0 => m[m[i].next].start = syms[syms[i].next].start
      BY <1>2, <1>5, <2>1, <3>1
    <3>3. Stands(m, nm, i, j, k)
      BY <2>3, <3>1, <3>2 DEF Stands
    <3>. QED
      BY <3>3
  <2>5. CASE i = x
    <3>1. PICK e \in 1..N : \E l \in 1..(N + 1) : Stands(syms, nm, y, e, l)
      BY <1>1, <1>5
    <3>2. PICK l \in 1..(N + 1) : Stands(syms, nm, y, e, l)
      BY <3>1
    <3>3. syms[x].next = y /\ y # 0
      BY <1>1
    <3>4. syms[y].start = Spot(k) /\ syms[y].start = Spot(e)
      BY <2>3, <2>5, <3>2, <3>3 DEF Stands
    <3>5. k = e
      <4>1. k \in Nat \ {0} /\ e \in Nat \ {0}
        BY <1>3a
      <4>. QED
        BY <3>4, <4>1, SpotOrder
    <3>6. j < k /\ e < l /\ j < l
      <4>1. j < k /\ e < l
        BY <2>3, <3>2 DEF Stands
      <4>. QED
        BY <1>3a, <3>5, <4>1
    <3>7. syms[x].start = Spot(j) /\ syms[x].start + syms[x].n = Spot(k)
      BY <2>3, <2>5 DEF Stands
    <3>8. syms[y].start + syms[y].n = Spot(l)
      BY <3>2 DEF Stands
    <3>9. m[x].start = Spot(j) /\ m[x].start + m[x].n = Spot(l)
      <4> DEFINE s1 == syms[x].start  n1 == syms[x].n  s2 == syms[y].start  n2 == syms[y].n
      <4>1. s1 \in Int /\ n1 \in Nat /\ s2 \in Int /\ n2 \in Nat /\ s1 + n1 = s2
        BY <1>3, <3>4, <3>7
      <4>2. m[x].start = s1 /\ m[x].n = n1 + n2
        BY <1>2, <1>3
      <4>3. s2 + n2 = Spot(l) /\ s1 = Spot(j)
        BY <3>7, <3>8
      <4> HIDE DEF s1, n1, s2, n2
      <4>4. s1 + (n1 + n2) = s2 + n2
        BY <4>1
      <4>. QED
        BY <4>2, <4>3, <4>4
    <3>10. IdFor(SubSeq(nm, Spot(j), Spot(l) - 1)) # 0
      <4>1. syms[x].start + syms[x].n + syms[y].n = Spot(l)
        BY <1>2, <1>3, <3>9
      <4> DEFINE u == syms[x].start  v == syms[x].start + syms[x].n + syms[y].n - 1
                 g == Spot(j)  h == Spot(l) - 1
      <4>2. Joined(nm, syms, x, y) = SubSeq(nm, u, v)
        BY Zenon DEF Joined
      <4>3. u = g /\ v = h
        BY <1>3, <3>7, <4>1
      <4> HIDE DEF u, v, g, h
      <4>4. Joined(nm, syms, x, y) = SubSeq(nm, g, h)
        BY <4>2, <4>3
      <4>. QED
        BY <1>1, <4>4 DEF g, h
    <3>11. m[x].next = syms[y].next
      BY <1>2 DEF z
    <3>12. m[x].next = 0 => l = N + 1
      BY <3>2, <3>11 DEF Stands, N
    <3>13. m[x].next # 0 => m[m[x].next].start = Spot(l)
      <4>1. m[x].next # 0 => syms[syms[y].next].start = Spot(l) /\ m[x].next = syms[y].next
        BY <3>2, <3>11 DEF Stands
      <4>2. m[x].next # 0 => m[x].next \in DOMAIN syms
        BY <1>3, <1>5, <3>11
      <4>. QED
        BY <1>2, <4>1, <4>2
    <3>14. Stands(m, nm, i, j, l)
      BY <2>5, <3>6, <3>9, <3>10, <3>12, <3>13 DEF Stands, N
    <3>. QED
      BY <3>14
  <2>. QED
    BY <2>4, <2>5
<1>. QED
  BY <1>6, <1>7, <1>8, <1>9 DEF Spelling, m, N

-----------------------------------------------------------------------------
(* What the tokens of a symbol are in text.                                 *)

\* What PlainText and PlainVocab say of spellings.
Spellable ==
  /\ \E n \in Nat : DOMAIN Tokens = 1..n
  /\ "<0x" \notin ToSet(text)
  /\ \A i \in DOMAIN Tokens :
       /\ Tokens[i].type = "BYTE" => "<0x" \in ToSet(Tokens[i].text)
       /\ Special(i) => Marker[1] \notin ToSet(Tokens[i].text)
  /\ \A id \in {vocab.bos, vocab.eos} \ {0} : id \in DOMAIN Tokens /\ Special(id)

\* The letters of a part of a sequence.
LEMMA PartIs ==
  ASSUME NEW S, NEW s \in Seq(S), NEW a \in Nat \ {0}, NEW b \in Nat, a <= b + 1, b <= Len(s),
         NEW w, w = SubSeq(s, a, b)
  PROVE  /\ w \in Seq(S) /\ Len(w) = b - a + 1 /\ DOMAIN w = 1..(b - a + 1)
         /\ \A i \in 1..(b - a + 1) : w[i] = s[a + i - 1]
<1>1. SubSeq(s, a, b) = [i \in 1..(1 + b - a) |-> s[a + i - 1]]
  OBVIOUS
<1>2. 1 + b - a = b - a + 1 /\ b - a + 1 \in Nat
  OBVIOUS
<1>3. \A i \in 1..(b - a + 1) : a + i - 1 \in 1..Len(s) /\ s[a + i - 1] \in S
  OBVIOUS
<1>. QED
  BY <1>1, <1>2, <1>3

\* An id that is found is a token with that spelling.
LEMMA TokenOf ==
  ASSUME Spellable, NEW s, IdFor(s) # 0
  PROVE  IdFor(s) \in DOMAIN Tokens /\ Tokens[IdFor(s)].text = s
<1> DEFINE ids == {i \in DOMAIN Tokens : Tokens[i].text = s}
<1>1. ids # {} /\ IdFor(s) = Min(ids)
  BY DEF IdFor
<1>2. ids \in SUBSET Nat
  BY DEF Spellable
<1>3. Min(ids) \in ids
  <2> HIDE DEF ids
  <2>. QED
    BY <1>1, <1>2, LeastNumber DEF Min
<1>. QED
  BY <1>1, <1>3

\* A byte that is found has its byte token.
LEMMA ByteOf ==
  ASSUME Spellable, NEW c, ByteId(c) # 0
  PROVE  /\ ByteId(c) \in DOMAIN Tokens /\ Tokens[ByteId(c)].type = "BYTE"
         /\ Tokens[ByteId(c)].text = <<"<0x", c, ">">>
<1> DEFINE ids == {i \in DOMAIN Tokens : Tokens[i].type = "BYTE"
                                         /\ Tokens[i].text = <<"<0x", c, ">">>}
<1>1. ids # {} /\ ByteId(c) = Max(ids)
  BY DEF ByteId
<1>2. IsFiniteSet(ids) /\ ids \in SUBSET Int
  <2>1. PICK n \in Nat : DOMAIN Tokens = 1..n
    BY DEF Spellable
  <2>2. IsFiniteSet(1..n) /\ ids \in SUBSET (1..n)
    BY <2>1, FS_Interval
  <2> HIDE DEF ids
  <2>3. IsFiniteSet(ids)
    BY <2>2, FS_Subset
  <2>. QED
    BY <2>2, <2>3
<1>3. Max(ids) \in ids
  <2> HIDE DEF ids
  <2>. QED
    BY <1>1, <1>2, Greatest
<1>. QED
  BY <1>1, <1>3

\* The recursive function of Piece.
PieceFrom(f, s, i) ==
  IF i > Len(s) THEN <<>>
  ELSE IF i + 2 <= Len(s) /\ SubSeq(s, i, i + 2) = Marker THEN <<Space>> \o f[i + 3]
  ELSE <<s[i]>> \o f[i + 1]
PieceSteps(f, s) == f = [i \in 1..(Len(s) + 3) |-> PieceFrom(f, s, i)]

\* The recursive function of Piece is there, for any spelling.
LEMMA PieceStepsExist ==
  ASSUME NEW s, Len(s) \in Nat
  PROVE  \E f : PieceSteps(f, s)
<1> DEFINE N == Len(s)  D == 1..(N + 3)
           mark(i) == i + 2 <= N /\ SubSeq(s, i, i + 2) = Marker
           rank == [i \in D |-> IF i > N THEN 0 ELSE N + 1 - i]
           a == [i \in D |-> IF mark(i) THEN <<Space>> ELSE <<s[i]>>]
           d == [i \in D |-> IF mark(i) THEN i + 3 ELSE i + 1]
<1>1. N \in Nat /\ \A i \in D : rank[i] \in 0..N /\ (rank[i] = 0 <=> i > N)
  OBVIOUS
<1>2. ASSUME NEW i \in D, rank[i] # 0 PROVE d[i] \in D /\ rank[d[i]] < rank[i]
  <2>1. ~(i > N) /\ rank[i] = N + 1 - i /\ i \in Nat
    BY <1>1, <1>2
  <2>2. d[i] = i + 3 \/ d[i] = i + 1
    <3> HIDE DEF mark
    <3>. QED
      BY DEF d
  <2> HIDE DEF d
  <2>3. d[i] \in D /\ d[i] > i
    BY <1>1, <2>1, <2>2
  <2>. QED
    BY <1>1, <2>1, <2>3
<1>3. \A i \in D : /\ a[i] = (IF mark(i) THEN <<Space>> ELSE <<s[i]>>)
                   /\ d[i] = (IF mark(i) THEN i + 3 ELSE i + 1)
  <2> HIDE DEF mark
  <2>. QED
    OBVIOUS
<1>4. PICK f : Chained(f, D, a, d, rank)
  <2>1. Descends(D, d, rank, N)
    BY <1>1, <1>2 DEF Descends
  <2> HIDE DEF D, a, d, rank, N
  <2>. QED
    BY <2>1, ChainExists
<1>5. f = [i \in D |-> IF rank[i] = 0 THEN <<>> ELSE a[i] \o f[d[i]]]
  BY <1>4 DEF Chained
<1> HIDE DEF a, d, rank
<1>6. ASSUME NEW i \in D
      PROVE  (IF rank[i] = 0 THEN <<>> ELSE a[i] \o f[d[i]]) = PieceFrom(f, s, i)
  <2>1. CASE i > N
    BY <1>1, <2>1 DEF PieceFrom
  <2>2. CASE ~(i > N) /\ mark(i)
    BY <1>1, <1>3, <2>2, Zenon DEF PieceFrom
  <2>3. CASE ~(i > N) /\ ~mark(i)
    BY <1>1, <1>3, <2>3, Zenon DEF PieceFrom
  <2>. QED
    BY <2>1, <2>2, <2>3
<1>7. f = [i \in D |-> PieceFrom(f, s, i)]
  BY <1>5, <1>6, Zenon
<1>. QED
  BY <1>7 DEF PieceSteps

\* The piece of a token is the bytes of the text that it spells.
LEMMA PieceSpelled ==
  ASSUME TextInv, PlainText, NEW nm, Spelled(nm),
         NEW j \in 1..Len(Spaced), NEW k \in 1..(Len(Spaced) + 1), j < k,
         NEW id, Tokens[id].type # "BYTE",
         Tokens[id].text = SubSeq(nm, Spot(j), Spot(k) - 1)
  PROVE  Piece(id) = SubSeq(Spaced, j, k - 1)
<1> DEFINE s == Tokens[id].text  L == Len(s)  N == Len(Spaced)
           f == CHOOSE f : PieceSteps(f, s)
           o(e) == Spot(e) - Spot(j) + 1
           P(e) == f[o(e)] = SubSeq(Spaced, e, k - 1)
           K == {c \in Nat : c <= k - j => P(k - c)}
<1>1. /\ N \in Nat /\ Spaced \in Seq(Alphabet) /\ nm \in Seq(Wide) /\ Len(nm) = Spot(N + 1) - 1
      /\ j \in Nat \ {0} /\ k \in Nat \ {0} /\ k <= N + 1
  BY SpacedIs DEF Spelled
<1>2. \A e \in Nat \ {0} : Spot(e) \in Nat \ {0}
  <2>1. ASSUME NEW e \in Nat \ {0} PROVE Spot(e) \in Nat \ {0}
    <3>1. Spot(e) \in Nat /\ e <= Spot(e)
      BY SpotNext
    <3> DEFINE p == Spot(e)
    <3>2. p \in Nat /\ e <= p
      BY <3>1
    <3> HIDE DEF p
    <3>3. p \in Nat \ {0}
      BY <3>2
    <3>. QED
      BY <3>3 DEF p
  <2>. QED
    BY <2>1
<1>3. Spot(j) < Spot(k) /\ Spot(k) <= Spot(N + 1)
  BY <1>1, SpotGrows, SpotOrder
<1>4. /\ s \in Seq(Wide) /\ L = Spot(k) - Spot(j) /\ L \in Nat
      /\ \A i \in 1..L : s[i] = nm[Spot(j) + i - 1]
  <2> DEFINE a == Spot(j)  b == Spot(k) - 1
  <2>1. /\ a \in Nat \ {0} /\ b \in Nat /\ a <= b + 1 /\ b <= Len(nm) /\ nm \in Seq(Wide)
        /\ b - a + 1 = Spot(k) - Spot(j) /\ b - a + 1 \in Nat
    <3>1. Spot(j) \in Nat \ {0} /\ Spot(k) \in Nat \ {0} /\ Spot(N + 1) \in Nat
      BY <1>1, <1>2
    <3>. QED
      BY <1>1, <1>3, <3>1
  <2>2. s = SubSeq(nm, a, b)
    OBVIOUS
  <2> HIDE DEF a, b, s
  <2>3. /\ s \in Seq(Wide) /\ Len(s) = b - a + 1
        /\ \A i \in 1..(b - a + 1) : s[i] = nm[a + i - 1]
    BY <2>1, <2>2, PartIs
  <2>. QED
    BY <2>1, <2>3 DEF a
<1>5. Piece(id) = f[1]
  BY DEF Piece, PieceSteps, PieceFrom
<1>6. PieceSteps(f, s)
  BY <1>4, PieceStepsExist
<1> HIDE DEF f, s, L, N
<1>7. ASSUME NEW i \in 1..(L + 3) PROVE f[i] = PieceFrom(f, s, i)
  BY <1>6 DEF PieceSteps, L
<1>8. ASSUME NEW e \in j..(k - 1)
      PROVE  /\ o(e) \in 1..L /\ o(k) = L + 1 /\ e + 1 \in Nat \ {0} /\ e \in 1..N
             /\ s[o(e)] = nm[Spot(e)]
             /\ Spaced[e] = Space => /\ o(e) + 2 \in 1..L /\ o(e + 1) = o(e) + 3
                                     /\ s[o(e) + 1] = nm[Spot(e) + 1]
                                     /\ s[o(e) + 2] = nm[Spot(e) + 2]
             /\ Spaced[e] # Space => o(e + 1) = o(e) + 1
  <2>1. e \in 1..N /\ e \in Nat \ {0} /\ e + 1 \in Nat \ {0} /\ j <= e /\ e + 1 <= k
    BY <1>1
  <2> DEFINE pj == Spot(j)  pk == Spot(k)  pe == Spot(e)  pf == Spot(e + 1)
  <2>2. /\ pj \in Nat \ {0} /\ pk \in Nat \ {0} /\ pe \in Nat \ {0} /\ pf \in Nat \ {0}
        /\ pj <= pe /\ pf <= pk
    BY <1>1, <1>2, <2>1, SpotOrder
  <2>3. pf = pe + (IF Spaced[e] = Space THEN 3 ELSE 1)
    BY <2>1, SpotNext
  <2>4. L = pk - pj /\ \A i \in 1..L : s[i] = nm[pj + i - 1]
    BY <1>4
  <2> HIDE DEF pj, pk, pe, pf
  <2>5. /\ pe - pj + 1 \in 1..L /\ pk - pj + 1 = L + 1
        /\ Spaced[e] = Space => (pe - pj + 1) + 2 \in 1..L /\ pf - pj + 1 = (pe - pj + 1) + 3
        /\ Spaced[e] # Space => pf - pj + 1 = (pe - pj + 1) + 1
    BY <2>2, <2>3, <2>4
  <2>6. s[pe - pj + 1] = nm[pe]
    <3>1. pj + (pe - pj + 1) - 1 = pe
      BY <2>2
    <3>. QED
      BY <2>4, <2>5, <3>1
  <2>7. ASSUME Spaced[e] = Space
        PROVE  s[(pe - pj + 1) + 1] = nm[pe + 1] /\ s[(pe - pj + 1) + 2] = nm[pe + 2]
    <3> DEFINE g == (pe - pj + 1) + 1  h == (pe - pj + 1) + 2
    <3>1. g \in 1..L /\ h \in 1..L /\ pj + g - 1 = pe + 1 /\ pj + h - 1 = pe + 2
      BY <2>2, <2>4, <2>5, <2>7
    <3> HIDE DEF g, h
    <3>2. s[g] = nm[pe + 1] /\ s[h] = nm[pe + 2]
      BY <2>4, <3>1
    <3>. QED
      BY <3>2 DEF g, h
  <2>. QED
    BY <2>1, <2>5, <2>6, <2>7 DEF pj, pk, pe, pf
<1>9. 0 \in K
  <2>1. k - 1 \in j..(k - 1)
    BY <1>1
  <2>2. o(k) = L + 1 /\ L + 1 \in 1..(L + 3) /\ L + 1 > L
    BY <1>4, <1>8, <2>1
  <2> HIDE DEF o
  <2>3. f[o(k)] = <<>>
    BY <1>7, <2>2 DEF PieceFrom, L
  <2>4. SubSeq(Spaced, k, k - 1) = <<>>
    <3> DEFINE w == SubSeq(Spaced, k, k - 1)
    <3>1. k - 1 \in Nat /\ k <= (k - 1) + 1 /\ k - 1 <= Len(Spaced) /\ (k - 1) - k + 1 = 0
      BY <1>1 DEF N
    <3>2. w \in Seq(Alphabet) /\ Len(w) = (k - 1) - k + 1
      BY <1>1, <3>1, PartIs
    <3> HIDE DEF w
    <3>3. w = <<>>
      BY <3>1, <3>2
    <3>. QED
      BY <3>3 DEF w
  <2>5. k - 0 = k
    BY <1>1
  <2>6. P(k - 0)
    BY <2>3, <2>4, <2>5
  <2>. QED
    BY <2>6
<1>10. ASSUME NEW c \in K PROVE c + 1 \in K
  <2>1. c \in Nat /\ (c <= k - j => P(k - c))
    OBVIOUS
  <2>2. ASSUME c + 1 <= k - j PROVE P(k - (c + 1))
    <3> DEFINE e == k - (c + 1)
    <3>1. e \in j..(k - 1) /\ e + 1 = k - c /\ c <= k - j
      BY <1>1, <2>1, <2>2
    <3>2. P(e + 1)
      BY <2>1, <3>1
    <3> HIDE DEF e
    <3>3. /\ o(e) \in 1..L /\ e \in 1..N /\ e \in Nat \ {0}
          /\ s[o(e)] = nm[Spot(e)]
          /\ Spaced[e] = Space => /\ o(e) + 2 \in 1..L /\ o(e + 1) = o(e) + 3
                                  /\ s[o(e) + 1] = nm[Spot(e) + 1]
                                  /\ s[o(e) + 2] = nm[Spot(e) + 2]
          /\ Spaced[e] # Space => o(e + 1) = o(e) + 1
      BY <1>8, <3>1
    <3>4. /\ Spaced[e] = Space => /\ nm[Spot(e)] = "m1" /\ nm[Spot(e) + 1] = "m2"
                                  /\ nm[Spot(e) + 2] = "m3"
          /\ Spaced[e] # Space => nm[Spot(e)] = Spaced[e]
      BY <3>3, AtSpots DEF N
    <3> HIDE DEF o
    <3>5. f[o(e)] = PieceFrom(f, s, o(e))
      <4>1. o(e) \in 1..(L + 3)
        BY <1>4, <3>3
      <4>. QED
        BY <1>7, <4>1
    <3>6. ~(o(e) > Len(s))
      BY <1>4, <3>3 DEF L
    <3>7. f[o(e)] = <<Spaced[e]>> \o f[o(e + 1)]
      <4>1. CASE Spaced[e] = Space
        <5> DEFINE a == o(e)  w == SubSeq(s, a, a + 2)
        <5>1. a \in 1..L /\ a + 2 \in 1..L /\ s \in Seq(Wide) /\ Len(s) = L /\ L \in Nat
          BY <1>4, <3>3, <4>1 DEF L
        <5>2. s[a] = "m1" /\ s[a + 1] = "m2" /\ s[a + 2] = "m3"
          BY <3>3, <3>4, <4>1
        <5> HIDE DEF a
        <5>3. Len(w) = 3 /\ w \in Seq(Wide) /\ \A i \in 1..3 : w[i] = s[a + i - 1]
          <6>1. a \in Nat \ {0} /\ a + 2 \in Nat /\ a <= (a + 2) + 1 /\ a + 2 <= Len(s)
                /\ (a + 2) - a + 1 = 3
            BY <5>1
          <6>. QED
            BY <5>1, <6>1, PartIs
        <5> HIDE DEF w
        <5>4. w[1] = s[a] /\ w[2] = s[a + 1] /\ w[3] = s[a + 2]
          <6>1. a + 1 - 1 = a /\ a + 2 - 1 = a + 1 /\ a + 3 - 1 = a + 2
            BY <5>1
          <6>. QED
            BY <5>3, <6>1
        <5>5. w = Marker
          BY <5>2, <5>3, <5>4 DEF Marker
        <5>6. a + 2 <= Len(s)
          BY <5>1
        <5>7. f[a] = <<Space>> \o f[a + 3]
          BY <3>5, <3>6, <5>5, <5>6, Zenon DEF PieceFrom, w, a
        <5>. QED
          BY <3>3, <4>1, <5>7 DEF a
      <4>2. CASE Spaced[e] # Space
        <5> DEFINE a == o(e)  w == SubSeq(s, a, a + 2)
        <5>1. a \in 1..L /\ s \in Seq(Wide) /\ Len(s) = L /\ L \in Nat
          BY <1>4, <3>3 DEF L
        <5>2. s[a] = Spaced[e] /\ s[a] # "m1"
          <6>1. Spaced[e] # "m1"
            <7>1. \E i \in 1..Len(text) : Spaced[e] = text[i]
              <8>1. CASE ~Led
                BY <3>3, <8>1, SpacedIs DEF N
              <8>2. CASE Led
                <9>1. /\ N = Len(text) + 1 /\ Spaced[1] = Space
                      /\ \A i \in 1..Len(text) : Spaced[i + 1] = text[i]
                  BY <8>2, SpacedIs DEF N
                <9>2. e - 1 \in 1..Len(text) /\ (e - 1) + 1 = e
                  <10>1. e # 1
                    BY <4>2, <9>1
                  <10>. QED
                    BY <1>1, <3>3, <9>1, <10>1
                <9>. QED
                  BY <9>1, <9>2
              <8>. QED
                BY <8>1, <8>2
            <7>2. DOMAIN text = 1..Len(text)
              BY DEF TextInv
            <7>. QED
              BY <7>1, <7>2 DEF PlainText, Marker
          <6>. QED
            BY <3>3, <3>4, <4>2, <6>1
        <5> HIDE DEF a
        <5>3. ASSUME a + 2 <= Len(s) PROVE w # Marker
          <6>1. a \in Nat \ {0} /\ a + 2 \in Nat /\ a <= (a + 2) + 1 /\ a + 2 <= Len(s)
                /\ (a + 2) - a + 1 = 3 /\ a + 1 - 1 = a
            BY <5>1, <5>3
          <6>2. \A i \in 1..3 : w[i] = s[a + i - 1]
            BY <5>1, <6>1, PartIs
          <6> HIDE DEF w
          <6>3. w[1] = s[a]
            BY <6>1, <6>2
          <6>. QED
            BY <5>2, <6>3 DEF Marker
        <5>4. f[a] = <<s[a]>> \o f[a + 1]
          BY <3>5, <3>6, <5>3, Zenon DEF PieceFrom, w, a
        <5>. QED
          BY <3>3, <4>2, <5>2, <5>4 DEF a
      <4>. QED
        BY <4>1, <4>2
    <3>8. SubSeq(Spaced, e, k - 1) = <<Spaced[e]>> \o SubSeq(Spaced, e + 1, k - 1)
      <4> DEFINE w == SubSeq(Spaced, e, k - 1)  v == SubSeq(Spaced, e + 1, k - 1)
                 h == <<Spaced[e]>>  g == h \o v
      <4>1. /\ k - 1 \in Nat /\ e <= (k - 1) + 1 /\ k - 1 <= Len(Spaced)
            /\ e + 1 \in Nat \ {0} /\ e + 1 <= (k - 1) + 1
            /\ (k - 1) - e + 1 = k - e /\ (k - 1) - (e + 1) + 1 = k - e - 1
            /\ k - e \in Nat \ {0} /\ e \in Nat \ {0} /\ Spaced[e] \in Alphabet
        BY <1>1, <3>1, <3>3 DEF N
      <4>2. w \in Seq(Alphabet) /\ Len(w) = k - e /\ \A i \in 1..(k - e) : w[i] = Spaced[e + i - 1]
        BY <1>1, <4>1, PartIs
      <4>3. /\ v \in Seq(Alphabet) /\ Len(v) = k - e - 1
            /\ \A i \in 1..(k - e - 1) : v[i] = Spaced[(e + 1) + i - 1]
        BY <1>1, <4>1, PartIs
      <4>4. h \in Seq(Alphabet) /\ Len(h) = 1 /\ h[1] = Spaced[e]
        BY <4>1
      <4> HIDE DEF w, v, h
      <4>5. /\ g \in Seq(Alphabet) /\ Len(g) = Len(h) + Len(v)
            /\ \A i \in 1..Len(h) : g[i] = h[i]
            /\ \A i \in 1..Len(v) : g[Len(h) + i] = v[i]
        <5>1. h \in Seq(Alphabet) /\ v \in Seq(Alphabet)
          BY <4>3, <4>4
        <5>. QED
          BY <5>1 DEF g
      <4> HIDE DEF g
      <4>6. ASSUME NEW i \in 1..(k - e) PROVE w[i] = g[i]
        <5>1. CASE i = 1
          <6>1. e + 1 - 1 = e
            BY <4>1
          <6>. QED
            BY <4>1, <4>2, <4>4, <4>5, <5>1, <6>1
        <5>2. CASE i # 1
          <6> DEFINE b == i - 1
          <6>1. b \in 1..(k - e - 1) /\ i = 1 + b /\ e + i - 1 = (e + 1) + b - 1
            BY <4>1, <5>2
          <6> HIDE DEF b
          <6>2. g[i] = v[b] /\ v[b] = Spaced[(e + 1) + b - 1]
            BY <4>3, <4>4, <4>5, <6>1
          <6>3. w[i] = Spaced[e + i - 1]
            BY <4>2
          <6>. QED
            BY <6>1, <6>2, <6>3
        <5>. QED
          BY <5>1, <5>2
      <4>7. Len(g) = k - e
        BY <4>1, <4>3, <4>4, <4>5
      <4>8. w = g
        BY <4>2, <4>5, <4>6, <4>7, SeqEqual
      <4>. QED
        BY <4>8 DEF w, g, v, h
    <3>9. P(e)
      BY <3>2, <3>7, <3>8
    <3>. QED
      BY <3>9 DEF e
  <2> HIDE DEF P
  <2>. QED
    BY <2>1, <2>2
<1>11. K = Nat
  <2>1. K \in SUBSET Nat
    OBVIOUS
  <2> HIDE DEF K
  <2>. QED
    BY <1>9, <1>10, <2>1, EveryNumber
<1>12. P(j)
  <2>1. k - j \in Nat /\ k - (k - j) = j /\ k - j <= k - j
    BY <1>1
  <2> HIDE DEF P
  <2>2. k - j \in K
    BY <1>11, <2>1
  <2>3. P(k - (k - j))
    BY <2>1, <2>2
  <2>. QED
    BY <2>1, <2>3
<1>13. o(j) = 1
  <2>1. Spot(j) \in Nat
    BY <1>1, <1>2
  <2>. QED
    BY <2>1
<1>. QED
  BY <1>5, <1>12, <1>13

PlainWords == PlainText /\ IdFor(Marker) # 0
         /\ (\A i \in DOMAIN text : ByteId(text[i]) # 0 \/ text[i] = Space)

\* Tokens none of which decode skips, and the text they are.
Pieces(e) == [i \in 1..Len(e) |-> Piece(e[i])]
Gives(e, u) ==
  /\ e \in Seq(Nat)
  /\ \A i \in 1..Len(e) : ~Special(e[i]) /\ Piece(e[i]) \in Seq(Wide) /\ Piece(e[i]) # <<>>
  /\ FlattenSeq(Pieces(e)) = u

\* The pieces of such tokens are a sequence of texts.
LEMMA PiecesAreSeq ==
  ASSUME NEW e, NEW u, Gives(e, u)
  PROVE  Pieces(e) \in Seq(Seq(Wide)) /\ Len(Pieces(e)) = Len(e) /\ u \in Seq(Wide)
<1>1. Len(e) \in Nat /\ \A i \in 1..Len(e) : Piece(e[i]) \in Seq(Wide)
  BY DEF Gives
<1>2. Pieces(e) \in Seq(Seq(Wide)) /\ Len(Pieces(e)) = Len(e)
  BY <1>1 DEF Pieces
<1>3. u = FlattenSeq(Pieces(e))
  BY DEF Gives
<1>. QED
  BY <1>2, <1>3, FlattenedSeq

\* One list of tokens after another.
LEMMA GivesBoth ==
  ASSUME NEW e, NEW u, NEW g, NEW v, Gives(e, u), Gives(g, v)
  PROVE  Gives(e \o g, u \o v)
<1> DEFINE w == e \o g  p == Pieces(e)  q == Pieces(g)  r == Pieces(w)  x == p \o q
           U == Seq(Wide)
<1>1. /\ e \in Seq(Nat) /\ g \in Seq(Nat) /\ FlattenSeq(p) = u /\ FlattenSeq(q) = v
      /\ \A i \in 1..Len(e) : ~Special(e[i]) /\ Piece(e[i]) \in U /\ Piece(e[i]) # <<>>
      /\ \A i \in 1..Len(g) : ~Special(g[i]) /\ Piece(g[i]) \in U /\ Piece(g[i]) # <<>>
  BY DEF Gives
<1>2. p \in Seq(U) /\ q \in Seq(U) /\ Len(p) = Len(e) /\ Len(q) = Len(g)
  BY PiecesAreSeq
<1>3. /\ w \in Seq(Nat) /\ Len(w) = Len(e) + Len(g)
      /\ \A i \in 1..Len(e) : w[i] = e[i]
      /\ \A i \in 1..Len(g) : w[Len(e) + i] = g[i]
  BY <1>1
<1>4. /\ x \in Seq(U) /\ Len(x) = Len(p) + Len(q)
      /\ \A i \in 1..Len(p) : x[i] = p[i]
      /\ \A i \in 1..Len(q) : x[Len(p) + i] = q[i]
  <2> HIDE DEF p, q, U
  <2>. QED
    BY <1>2
<1>5. /\ \A i \in 1..Len(e) : p[i] = Piece(e[i])
      /\ \A i \in 1..Len(g) : q[i] = Piece(g[i])
      /\ \A i \in 1..Len(w) : r[i] = Piece(w[i])
      /\ DOMAIN r = 1..Len(w)
  BY DEF Pieces
<1>6. Len(e) \in Nat /\ Len(g) \in Nat
  BY <1>1
<1> HIDE DEF w, p, q, r, x, U
<1>7. ASSUME NEW i \in 1..Len(w)
      PROVE  i \in 1..Len(e) \/ \E a \in 1..Len(g) : i = Len(e) + a
  <2>1. CASE i <= Len(e)
    BY <1>3, <1>6, <2>1
  <2>2. CASE i > Len(e)
    <3>1. i - Len(e) \in 1..Len(g) /\ i = Len(e) + (i - Len(e))
      BY <1>3, <1>6, <2>2
    <3>. QED
      BY <3>1
  <2>. QED
    BY <1>3, <1>6, <2>1, <2>2
<1>8. \A i \in 1..Len(w) : ~Special(w[i]) /\ Piece(w[i]) \in U /\ Piece(w[i]) # <<>>
  <2> SUFFICES ASSUME NEW i \in 1..Len(w)
               PROVE  ~Special(w[i]) /\ Piece(w[i]) \in U /\ Piece(w[i]) # <<>>
    OBVIOUS
  <2>1. CASE i \in 1..Len(e)
    BY <1>1, <1>3, <2>1
  <2>2. CASE \E a \in 1..Len(g) : i = Len(e) + a
    <3>1. PICK a \in 1..Len(g) : i = Len(e) + a
      BY <2>2
    <3>2. w[i] = g[a]
      BY <1>3, <3>1
    <3>. QED
      BY <1>1, <3>2
  <2>. QED
    BY <1>7, <2>1, <2>2
<1>9. r = x
  <2>1. r \in Seq(U) /\ Len(r) = Len(w)
    <3>1. r = [i \in 1..Len(w) |-> Piece(w[i])] /\ Len(w) \in Nat
      BY <1>3, <1>6 DEF r, Pieces
    <3>. QED
      BY <1>8, <3>1
  <2>2. ASSUME NEW i \in 1..Len(w) PROVE r[i] = x[i]
    <3>1. CASE i \in 1..Len(e)
      BY <1>2, <1>3, <1>4, <1>5, <3>1
    <3>2. CASE \E a \in 1..Len(g) : i = Len(e) + a
      <4>1. PICK a \in 1..Len(g) : i = Len(e) + a
        BY <3>2
      <4>2. w[i] = g[a]
        BY <1>3, <4>1
      <4>3. x[i] = q[a]
        BY <1>2, <1>4, <4>1
      <4>. QED
        BY <1>5, <4>2, <4>3
    <3>. QED
      BY <1>7, <3>1, <3>2
  <2>3. Len(x) = Len(w)
    BY <1>2, <1>3, <1>4
  <2>. QED
    BY <1>4, <2>1, <2>2, <2>3, SeqEqual
<1>10. FlattenSeq(x) = FlattenSeq(p) \o FlattenSeq(q)
  BY <1>2, FlattenConcat DEF x, U
<1>11. Gives(w, u \o v)
  BY <1>1, <1>3, <1>8, <1>9, <1>10 DEF Gives, r, U
<1>. QED
  BY <1>11 DEF w

\* No tokens give no text.
LEMMA GivesNothing == Gives(<<>>, <<>>)
<1>1. Pieces(<<>>) = <<>>
  BY DEF Pieces
<1>2. FlattenSeq(<<>>) = <<>>
  BY DEF FlattenSeq
<1>. QED
  BY <1>1, <1>2 DEF Gives

\* A token gives its own piece.
LEMMA GivesOne ==
  ASSUME NEW id \in Nat, ~Special(id), Piece(id) \in Seq(Wide), Piece(id) # <<>>
  PROVE  Gives(<<id>>, Piece(id))
<1> DEFINE e == <<id>>
<1>1. e \in Seq(Nat) /\ Len(e) = 1 /\ e[1] = id
  OBVIOUS
<1> HIDE DEF e
<1>2. Pieces(e) = <<Piece(id)>>
  <2>1. Pieces(e) = [i \in 1..1 |-> Piece(e[i])]
    BY <1>1 DEF Pieces
  <2>2. [i \in 1..1 |-> Piece(e[i])] = <<Piece(e[1])>>
    <3> DEFINE h == [i \in 1..1 |-> Piece(e[i])]
    <3>1. h[1] = Piece(e[1]) /\ DOMAIN h = 1..1 /\ h = [i \in 1..1 |-> h[i]]
      OBVIOUS
    <3> HIDE DEF h
    <3>2. h = <<h[1]>>
      BY <3>1
    <3>. QED
      BY <3>1, <3>2 DEF h
  <2>. QED
    BY <1>1, <2>1, <2>2
<1>3. FlattenSeq(Pieces(e)) = Piece(id)
  BY <1>2, FlattenOne
<1>4. \A i \in 1..Len(e) : e[i] = id
  BY <1>1
<1>5. Gives(e, Piece(id))
  BY <1>1, <1>3, <1>4 DEF Gives
<1>. QED
  BY <1>5 DEF e

\* Where there is no space the normalised text is the text.
LEMMA NoSpaces ==
  ASSUME TextInv, NEW nm, Spelled(nm),
         NEW j \in 1..Len(Spaced), NEW k \in 1..(Len(Spaced) + 1), j < k,
         \A e \in j..(k - 1) : Spaced[e] # Space
  PROVE  /\ SubSeq(nm, Spot(j), Spot(k) - 1) = SubSeq(Spaced, j, k - 1)
         /\ k - j \in Nat \ {0} /\ Len(SubSeq(Spaced, j, k - 1)) = k - j
         /\ SubSeq(Spaced, j, k - 1) \in Seq(Alphabet)
         /\ DOMAIN SubSeq(Spaced, j, k - 1) = 1..(k - j)
         /\ \A a \in 1..(k - j) : SubSeq(Spaced, j, k - 1)[a] = Spaced[j + a - 1]
<1> DEFINE N == Len(Spaced)  s == SubSeq(nm, Spot(j), Spot(k) - 1)  v == SubSeq(Spaced, j, k - 1)
<1>1. /\ N \in Nat /\ Spaced \in Seq(Alphabet) /\ nm \in Seq(Wide) /\ Len(nm) = Spot(N + 1) - 1
      /\ j \in Nat \ {0} /\ k \in Nat \ {0} /\ k <= N + 1 /\ N + 1 \in Nat \ {0}
  BY SpacedIs DEF Spelled
<1>2. \A e \in j..k : Spot(e) = Spot(j) + (e - j)
  <2>1. j \in Nat \ {0} /\ k \in Nat /\ j <= k
    BY <1>1
  <2>. QED
    BY <2>1, SpotFlat
<1>3. Spot(j) \in Nat /\ j <= Spot(j) /\ Spot(k) = Spot(j) + (k - j) /\ Spot(k) <= Spot(N + 1)
  <2>1. k \in j..k
    BY <1>1
  <2>2. Spot(j) \in Nat /\ j <= Spot(j)
    BY <1>1, SpotNext
  <2>3. Spot(k) <= Spot(N + 1)
    BY <1>1, SpotOrder
  <2>. QED
    BY <1>2, <2>1, <2>2, <2>3
<1>4. v \in Seq(Alphabet) /\ Len(v) = k - j /\ DOMAIN v = 1..(k - j)
      /\ \A a \in 1..(k - j) : v[a] = Spaced[j + a - 1]
  <2>1. k - 1 \in Nat /\ j <= (k - 1) + 1 /\ k - 1 <= N /\ (k - 1) - j + 1 = k - j
    BY <1>1
  <2> HIDE DEF v
  <2>2. /\ v \in Seq(Alphabet) /\ Len(v) = (k - 1) - j + 1 /\ DOMAIN v = 1..((k - 1) - j + 1)
        /\ \A a \in 1..((k - 1) - j + 1) : v[a] = Spaced[j + a - 1]
    BY <1>1, <2>1, PartIs DEF v
  <2>. QED
    BY <2>1, <2>2
<1>5. s \in Seq(Wide) /\ Len(s) = k - j
      /\ \A a \in 1..(k - j) : s[a] = nm[Spot(j) + a - 1]
  <2> DEFINE p == Spot(j)  q == Spot(k) - 1
  <2>1. p \in Nat \ {0} /\ q \in Nat /\ p <= q + 1 /\ q <= Len(nm) /\ q - p + 1 = k - j
    <3>1. Spot(N + 1) \in Nat
      BY <1>1, SpotNext
    <3>. QED
      BY <1>1, <1>3, <3>1
  <2>2. s = SubSeq(nm, p, q)
    OBVIOUS
  <2> HIDE DEF s, p, q
  <2>3. /\ s \in Seq(Wide) /\ Len(s) = q - p + 1
        /\ \A a \in 1..(q - p + 1) : s[a] = nm[p + a - 1]
    BY <1>1, <2>1, <2>2, PartIs
  <2>. QED
    BY <2>1, <2>3 DEF p
<1>6. ASSUME NEW a \in 1..(k - j) PROVE s[a] = v[a]
  <2> DEFINE e == j + a - 1
  <2>1. e \in j..(k - 1) /\ e \in j..k /\ e \in 1..N /\ Spot(j) + (e - j) = Spot(j) + a - 1
    BY <1>1, <1>3
  <2> HIDE DEF e
  <2>2. Spot(e) = Spot(j) + a - 1
    BY <1>2, <2>1
  <2>3. nm[Spot(e)] = Spaced[e]
    BY <2>1, AtSpots DEF N
  <2>. QED
    BY <1>4, <1>5, <2>2, <2>3 DEF e
<1>7. k - j \in Nat \ {0}
  BY <1>1
<1> HIDE DEF s, v
<1>8. s = v
  BY <1>4, <1>5, <1>6, <1>7, SeqEqual
<1>. QED
  BY <1>4, <1>7, <1>8 DEF s, v

\* A token of the text is not a special one.
LEMMA WordNotSpecial ==
  ASSUME TextInv, Spellable, PlainText, NEW nm, Spelled(nm),
         NEW j \in 1..Len(Spaced), NEW k \in 1..(Len(Spaced) + 1), j < k,
         IdFor(SubSeq(nm, Spot(j), Spot(k) - 1)) # 0
  PROVE  /\ ~Special(IdFor(SubSeq(nm, Spot(j), Spot(k) - 1)))
         /\ Tokens[IdFor(SubSeq(nm, Spot(j), Spot(k) - 1))].type # "BYTE"
<1> DEFINE s == SubSeq(nm, Spot(j), Spot(k) - 1)  id == IdFor(s)  N == Len(Spaced)
<1>1. id \in DOMAIN Tokens /\ Tokens[id].text = s
  BY TokenOf
<1>2. /\ N \in Nat /\ Spaced \in Seq(Alphabet) /\ nm \in Seq(Wide) /\ Len(nm) = Spot(N + 1) - 1
      /\ j \in Nat \ {0} /\ k \in Nat \ {0} /\ k <= N + 1 /\ N + 1 \in Nat \ {0}
  BY SpacedIs DEF Spelled
<1>3. Spot(j) \in Nat \ {0} /\ Spot(k) \in Nat /\ Spot(j) < Spot(k) /\ Spot(k) <= Spot(N + 1)
      /\ Spot(N + 1) \in Nat
  <2>1. Spot(j) \in Nat /\ j <= Spot(j) /\ Spot(k) \in Nat /\ Spot(N + 1) \in Nat
    BY <1>2, SpotNext
  <2>2. Spot(k) <= Spot(N + 1) /\ Spot(j) < Spot(k)
    BY <1>2, SpotOrder, SpotGrows
  <2> DEFINE p == Spot(j)  q == Spot(k)  r == Spot(N + 1)
  <2> HIDE DEF p, q, r
  <2>3. p \in Nat \ {0} /\ q \in Nat /\ p < q /\ q <= r /\ r \in Nat
    BY <1>2, <2>1, <2>2 DEF p, q, r
  <2>. QED
    BY <2>3 DEF p, q, r
<1>4. /\ s \in Seq(Wide) /\ DOMAIN s = 1..(Spot(k) - Spot(j))
      /\ \A a \in 1..(Spot(k) - Spot(j)) : s[a] = nm[Spot(j) + a - 1]
  <2> DEFINE p == Spot(j)  q == Spot(k) - 1
  <2>1. p \in Nat \ {0} /\ q \in Nat /\ p <= q + 1 /\ q <= Len(nm) /\ q - p + 1 = Spot(k) - Spot(j)
    BY <1>2, <1>3
  <2>2. s = SubSeq(nm, p, q)
    OBVIOUS
  <2> HIDE DEF s, p, q
  <2>3. /\ s \in Seq(Wide) /\ DOMAIN s = 1..(q - p + 1)
        /\ \A a \in 1..(q - p + 1) : s[a] = nm[p + a - 1]
    BY <1>2, <2>1, <2>2, PartIs
  <2>. QED
    BY <2>1, <2>3 DEF p
<1>5. "<0x" \notin ToSet(s)
  <2>1. "<0x" \notin Wide
    BY DEF Spellable, Wide, Alphabet, Space, Marker, ToSet
  <2> HIDE DEF s
  <2>2. \A a \in DOMAIN s : s[a] \in Wide
    <3>1. s \in Seq(Wide)
      BY <1>4
    <3>. QED
      BY <3>1
  <2>. QED
    BY <2>1, <2>2 DEF ToSet
<1>6. Tokens[id].type # "BYTE"
  <2> HIDE DEF s, id
  <2>. QED
    BY <1>1, <1>5 DEF Spellable
<1>7. ASSUME Special(id) PROVE FALSE
  <2>1. "m1" \notin ToSet(s)
    <3> HIDE DEF s, id
    <3>. QED
      BY <1>1, <1>7 DEF Spellable, Marker
  <2>2. ASSUME NEW e \in j..(k - 1), Spaced[e] = Space PROVE FALSE
    <3>1. e \in 1..N /\ e \in Nat \ {0} /\ j <= e /\ e < k
      BY <1>2
    <3>2. nm[Spot(e)] = "m1"
      BY <2>2, <3>1, AtSpots DEF N
    <3>3. Spot(j) <= Spot(e) /\ Spot(e) < Spot(k) /\ Spot(e) \in Nat
      BY <1>2, <3>1, SpotOrder, SpotGrows, SpotNext
    <3> DEFINE a == Spot(e) - Spot(j) + 1
    <3>4. a \in 1..(Spot(k) - Spot(j)) /\ Spot(j) + a - 1 = Spot(e)
      BY <1>3, <3>3
    <3> HIDE DEF a, s
    <3>5. s[a] = "m1" /\ a \in DOMAIN s
      BY <1>4, <3>2, <3>4
    <3>. QED
      BY <2>1, <3>5 DEF ToSet
  <2> DEFINE v == SubSeq(Spaced, j, k - 1)  n == k - j
  <2>3. /\ s = v /\ n \in Nat \ {0} /\ Len(v) = n /\ v \in Seq(Alphabet)
        /\ \A a \in 1..n : v[a] = Spaced[j + a - 1]
    <3>1. \A e \in j..(k - 1) : Spaced[e] # Space
      BY <2>2
    <3>2. /\ SubSeq(nm, Spot(j), Spot(k) - 1) = SubSeq(Spaced, j, k - 1)
          /\ k - j \in Nat \ {0} /\ Len(SubSeq(Spaced, j, k - 1)) = k - j
          /\ SubSeq(Spaced, j, k - 1) \in Seq(Alphabet)
          /\ DOMAIN SubSeq(Spaced, j, k - 1) = 1..(k - j)
          /\ \A a \in 1..(k - j) : SubSeq(Spaced, j, k - 1)[a] = Spaced[j + a - 1]
      <4> HIDE DEF s, v, n, id, N
      <4>. QED
        BY <3>1, NoSpaces
    <3>. QED
      BY <3>2
  <2>4. PICK i \in Nat \ {0} : /\ i + n - 1 <= Len(text)
                               /\ \A a \in 1..n : Spaced[j + a - 1] = text[i + a - 1]
    <3>1. CASE ~Led
      <4>1. Spaced = text /\ j + n - 1 <= Len(text) /\ j \in Nat \ {0}
        BY <1>2, <3>1, SpacedIs
      <4>. QED
        BY <4>1
    <3>2. CASE Led
      <4>1. /\ N = Len(text) + 1 /\ Spaced[1] = Space /\ Len(text) \in Nat
            /\ \A a \in 1..Len(text) : Spaced[a + 1] = text[a]
        BY <3>2, SpacedIs
      <4>2. j # 1
        <5>1. j \in j..(k - 1)
          BY <1>2
        <5>. QED
          BY <2>2, <4>1, <5>1
      <4> DEFINE i == j - 1
      <4>3. i \in Nat \ {0} /\ i + n - 1 <= Len(text)
        BY <1>2, <4>1, <4>2
      <4>4. ASSUME NEW a \in 1..n PROVE Spaced[j + a - 1] = text[i + a - 1]
        <5> DEFINE b == i + a - 1
        <5>1. b \in 1..Len(text) /\ b + 1 = j + a - 1
          BY <1>2, <4>1, <4>2
        <5> HIDE DEF b
        <5>2. Spaced[b + 1] = text[b]
          BY <4>1, <5>1
        <5>. QED
          BY <5>1, <5>2 DEF b
      <4>. QED
        BY <4>3, <4>4
    <3>. QED
      BY <3>1, <3>2
  <2> HIDE DEF v, n
  <2> DEFINE w == SubSeq(text, i, i + n - 1)
  <2>5. text \in Seq(Alphabet) /\ Len(text) \in Nat /\ DOMAIN text = 1..Len(text)
    BY SpacedIs
  <2>6. i + n - 1 \in Nat /\ i <= (i + n - 1) + 1 /\ (i + n - 1) - i + 1 = n
    BY <2>3
  <2>7. w \in Seq(Alphabet) /\ Len(w) = n /\ \A a \in 1..n : w[a] = text[i + a - 1]
    <3> HIDE DEF w
    <3>1. /\ w \in Seq(Alphabet) /\ Len(w) = (i + n - 1) - i + 1
          /\ \A a \in 1..((i + n - 1) - i + 1) : w[a] = text[i + a - 1]
      BY <2>4, <2>5, <2>6, PartIs DEF w
    <3>. QED
      BY <2>6, <3>1
  <2>8. w = v
    <3> HIDE DEF w
    <3>1. \A a \in 1..n : w[a] = v[a]
      BY <2>3, <2>4, <2>7
    <3>. QED
      BY <2>3, <2>7, <3>1, SeqEqual
  <2>9. n \in SpecialLengths
    <3>1. Len(Tokens[id].text) = n
      BY <1>1, <2>3
    <3> HIDE DEF id
    <3>2. n # 0
      BY <2>3
    <3>. QED
      BY <1>1, <1>7, <3>1, <3>2 DEF SpecialLengths
  <2>10. IdFor(SubSeq(text, i, i + n - 1)) = id
    BY <2>3, <2>8
  <2>11. i \in DOMAIN text /\ n <= Len(text) - i + 1
    BY <2>3, <2>4, <2>5
  <2>12. n \in SpecialsAt(i)
    <3> HIDE DEF id
    <3>1. id # 0
      BY DEF id
    <3>. QED
      BY <1>7, <2>9, <2>10, <2>11, <3>1 DEF SpecialsAt
  <2>. QED
    BY <2>11, <2>12 DEF PlainText
<1>. QED
  BY <1>6, <1>7

\* What is emitted for a symbol gives the bytes that it stands for.
LEMMA SymbolGives ==
  ASSUME TextInv, Spellable, PlainWords, NEW nm, Spelled(nm),
         NEW j \in 1..Len(Spaced), NEW k \in 1..(Len(Spaced) + 1), j < k,
         \/ IdFor(SubSeq(nm, Spot(j), Spot(k) - 1)) # 0
         \/ \A e \in j..(k - 1) : Spaced[e] # Space
  PROVE  Gives(Emitted(SubSeq(nm, Spot(j), Spot(k) - 1)), SubSeq(Spaced, j, k - 1))
<1> DEFINE s == SubSeq(nm, Spot(j), Spot(k) - 1)  v == SubSeq(Spaced, j, k - 1)
           N == Len(Spaced)  n == k - j
<1>1. /\ N \in Nat /\ Spaced \in Seq(Alphabet) /\ j \in Nat \ {0} /\ k \in Nat \ {0} /\ k <= N + 1
      /\ n \in Nat \ {0}
  BY SpacedIs
<1>2. v \in Seq(Alphabet) /\ Len(v) = n /\ \A a \in 1..n : v[a] = Spaced[j + a - 1]
  <2>1. k - 1 \in Nat /\ j <= (k - 1) + 1 /\ k - 1 <= N /\ (k - 1) - j + 1 = n
    BY <1>1
  <2> HIDE DEF v
  <2>2. /\ v \in Seq(Alphabet) /\ Len(v) = (k - 1) - j + 1
        /\ \A a \in 1..((k - 1) - j + 1) : v[a] = Spaced[j + a - 1]
    BY <1>1, <2>1, PartIs DEF v
  <2>. QED
    BY <2>1, <2>2
<1>3. v \in Seq(Wide) /\ v # <<>>
  <2>1. Alphabet \subseteq Wide
    BY DEF Wide
  <2> HIDE DEF v, n
  <2>2. v \in Seq(Wide)
    BY <1>2, <2>1
  <2>3. v # <<>>
    BY <1>1, <1>2
  <2>. QED
    BY <2>2, <2>3
<1>4. PlainText
  BY DEF PlainWords
<1>5. CASE IdFor(s) # 0
  <2> DEFINE id == IdFor(s)
  <2>1. ~Special(id) /\ Tokens[id].type # "BYTE"
    BY <1>4, <1>5, WordNotSpecial
  <2>2. Tokens[id].text = s /\ id \in Nat
    <3>1. id \in DOMAIN Tokens /\ Tokens[id].text = s
      BY <1>5, TokenOf
    <3>2. DOMAIN Tokens \subseteq Nat
      BY DEF Spellable
    <3>. QED
      BY <3>1, <3>2
  <2>3. Piece(id) = v
    <3> HIDE DEF id
    <3>. QED
      BY <1>4, <2>1, <2>2, PieceSpelled
  <2>4. Gives(<<id>>, v)
    <3> HIDE DEF id, v
    <3>. QED
      BY <1>3, <2>1, <2>2, <2>3, GivesOne
  <2>5. Emitted(s) = <<id>>
    BY <1>5 DEF Emitted
  <2>. QED
    BY <2>4, <2>5
<1>6. CASE IdFor(s) = 0
  <2>1. s = v
    <3>1. \A e \in j..(k - 1) : Spaced[e] # Space
      BY <1>6
    <3> HIDE DEF s, v, n, N
    <3>2. /\ SubSeq(nm, Spot(j), Spot(k) - 1) = SubSeq(Spaced, j, k - 1)
          /\ k - j \in Nat \ {0} /\ Len(SubSeq(Spaced, j, k - 1)) = k - j
          /\ SubSeq(Spaced, j, k - 1) \in Seq(Alphabet)
          /\ DOMAIN SubSeq(Spaced, j, k - 1) = 1..(k - j)
          /\ \A a \in 1..(k - j) : SubSeq(Spaced, j, k - 1)[a] = Spaced[j + a - 1]
      BY <3>1, NoSpaces
    <3>. QED
      BY <3>2 DEF s, v
  <2>2. \A a \in 1..n : ByteId(v[a]) # 0 /\ v[a] \in Wide
    <3> SUFFICES ASSUME NEW a \in 1..n PROVE ByteId(v[a]) # 0 /\ v[a] \in Wide
      OBVIOUS
    <3> DEFINE e == j + a - 1
    <3>1. e \in j..(k - 1) /\ e \in 1..N
      BY <1>1
    <3>2. v[a] = Spaced[e] /\ v[a] \in Wide
      <4>1. v[a] = Spaced[e]
        BY <1>2
      <4>2. Spaced[e] \in Alphabet
        BY <1>1, <3>1
      <4>. QED
        BY <4>1, <4>2 DEF Wide
    <3> HIDE DEF e, v
    <3>3. Spaced[e] # Space
      BY <1>6, <3>1
    <3>4. \E i \in 1..Len(text) : Spaced[e] = text[i]
      <4>1. CASE ~Led
        BY <3>1, <4>1, SpacedIs
      <4>2. CASE Led
        <5>1. /\ N = Len(text) + 1 /\ Spaced[1] = Space
              /\ \A i \in 1..Len(text) : Spaced[i + 1] = text[i]
          BY <4>2, SpacedIs
        <5>2. e # 1
          BY <3>3, <5>1
        <5>3. e - 1 \in 1..Len(text) /\ (e - 1) + 1 = e
          BY <1>1, <3>1, <5>1, <5>2
        <5>. QED
          BY <5>1, <5>3
      <4>. QED
        BY <4>1, <4>2
    <3>5. DOMAIN text = 1..Len(text)
      BY DEF TextInv
    <3>. QED
      BY <3>2, <3>3, <3>4, <3>5 DEF PlainWords
  <2> DEFINE g == [a \in 1..n |-> ByteId(v[a])]
  <2>3. /\ g \in [1..n -> Nat] /\ \A a \in 1..n : g[a] = ByteId(v[a])
        /\ \A a \in 1..n : ~Special(g[a]) /\ Piece(g[a]) = <<v[a]>>
    <3> SUFFICES ASSUME NEW a \in 1..n
                 PROVE  ByteId(v[a]) \in Nat /\ ~Special(ByteId(v[a])) /\ Piece(ByteId(v[a])) = <<v[a]>>
      OBVIOUS
    <3> DEFINE c == v[a]  id == ByteId(v[a])
    <3>1. id # 0
      BY <2>2
    <3> HIDE DEF c
    <3>2. id \in DOMAIN Tokens /\ Tokens[id].type = "BYTE" /\ Tokens[id].text = <<"<0x", c, ">">>
      BY <3>1, ByteOf DEF c
    <3> HIDE DEF id
    <3>3. id \in Nat
      BY <3>2 DEF Spellable
    <3>4. ~Special(id)
      BY <3>2 DEF Special
    <3>5. Piece(id) = <<Tokens[id].text[2]>>
      BY <3>2 DEF Piece
    <3>6. Piece(id) = <<c>>
      BY <3>2, <3>5
    <3>. QED
      BY <3>3, <3>4, <3>6 DEF c, id
  <2>4. Emitted(v) = g
    <3>1. Emitted(v) = FlattenSeq([a \in DOMAIN v |->
             IF ByteId(v[a]) # 0 THEN <<ByteId(v[a])>>
             ELSE IF vocab.unk # 0 THEN <<vocab.unk>> ELSE <<>>])
      <4>1. IdFor(v) = 0
        BY <1>6, <2>1
      <4>. QED
        BY <4>1 DEF Emitted
    <3>2. DOMAIN v = 1..n
      <4> HIDE DEF v, n
      <4>. QED
        BY <1>2
    <3>3. [a \in DOMAIN v |-> IF ByteId(v[a]) # 0 THEN <<ByteId(v[a])>>
                               ELSE IF vocab.unk # 0 THEN <<vocab.unk>> ELSE <<>>]
            = [a \in 1..n |-> <<g[a]>>]
      <4> HIDE DEF v, n
      <4>. QED
        BY <2>2, <3>2
    <3>4. FlattenSeq([a \in 1..n |-> <<g[a]>>]) = g
      <4> HIDE DEF g, n
      <4>. QED
        BY <1>1, <2>3, FlattenSingles
    <3>. QED
      BY <3>1, <3>3, <3>4
  <2> HIDE DEF g
  <2>5. g \in Seq(Nat) /\ Len(g) = n
    <3> HIDE DEF n
    <3>. QED
      BY <1>1, <2>3
  <2>6. FlattenSeq(Pieces(g)) = v
    <3>1. Pieces(g) = [a \in 1..n |-> <<v[a]>>]
      <4> HIDE DEF v, n
      <4>. QED
        BY <2>3, <2>5 DEF Pieces
    <3>2. v \in [1..n -> Wide]
      <4> HIDE DEF v, n
      <4>. QED
        BY <1>1, <1>2, <1>3
    <3> HIDE DEF v, n
    <3>3. FlattenSeq([a \in 1..n |-> <<v[a]>>]) = v
      BY <1>1, <3>2, FlattenSingles
    <3>. QED
      BY <3>1, <3>3
  <2>7. \A a \in 1..n : Piece(g[a]) \in Seq(Wide) /\ Piece(g[a]) # <<>>
    <3> SUFFICES ASSUME NEW a \in 1..n PROVE Piece(g[a]) \in Seq(Wide) /\ Piece(g[a]) # <<>>
      OBVIOUS
    <3> DEFINE c == v[a]
    <3>1. c \in Wide /\ Piece(g[a]) = <<c>>
      BY <2>2, <2>3
    <3> HIDE DEF c
    <3>2. <<c>> \in Seq(Wide) /\ <<c>> # <<>>
      BY <3>1
    <3>. QED
      BY <3>1, <3>2
  <2>8. Gives(g, v)
    <3> HIDE DEF v, n
    <3>. QED
      BY <2>3, <2>5, <2>6, <2>7 DEF Gives
  <2>. QED
    BY <2>1, <2>4, <2>8
<1>. QED
  BY <1>5, <1>6

\* A part and the rest.
LEMMA PartsJoin ==
  ASSUME NEW S, NEW s \in Seq(S), NEW j \in Nat \ {0}, NEW k \in Nat \ {0}, j <= k,
         k <= Len(s) + 1
  PROVE  SubSeq(s, j, k - 1) \o SubSeq(s, k, Len(s)) = SubSeq(s, j, Len(s))
<1> DEFINE N == Len(s)  u == SubSeq(s, j, k - 1)  v == SubSeq(s, k, N)  w == SubSeq(s, j, N)
           x == u \o v
<1>1. N \in Nat /\ k - 1 \in Nat
  OBVIOUS
<1>2. u \in Seq(S) /\ Len(u) = k - j /\ \A i \in 1..(k - j) : u[i] = s[j + i - 1]
  <2>1. k - 1 \in Nat /\ j <= (k - 1) + 1 /\ k - 1 <= N /\ (k - 1) - j + 1 = k - j
    BY <1>1
  <2> HIDE DEF u
  <2>2. /\ u \in Seq(S) /\ Len(u) = (k - 1) - j + 1
        /\ \A i \in 1..((k - 1) - j + 1) : u[i] = s[j + i - 1]
    BY <2>1, PartIs DEF u
  <2>. QED
    BY <2>1, <2>2
<1>3. v \in Seq(S) /\ Len(v) = N - k + 1 /\ \A i \in 1..(N - k + 1) : v[i] = s[k + i - 1]
  <2>1. k <= N + 1 /\ N <= Len(s)
    BY <1>1
  <2> HIDE DEF v
  <2>. QED
    BY <1>1, <2>1, PartIs DEF v
<1>4. w \in Seq(S) /\ Len(w) = N - j + 1 /\ \A i \in 1..(N - j + 1) : w[i] = s[j + i - 1]
  <2>1. j <= N + 1 /\ N <= Len(s)
    BY <1>1
  <2> HIDE DEF w
  <2>. QED
    BY <1>1, <2>1, PartIs DEF w
<1> HIDE DEF u, v, w
<1>5. /\ x \in Seq(S) /\ Len(x) = Len(u) + Len(v)
      /\ \A i \in 1..Len(u) : x[i] = u[i]
      /\ \A i \in 1..Len(v) : x[Len(u) + i] = v[i]
  <2>1. u \in Seq(S) /\ v \in Seq(S)
    BY <1>2, <1>3
  <2>. QED
    BY <2>1
<1> HIDE DEF x, N
<1>6. Len(x) = N - j + 1 /\ N - j + 1 \in Nat
  <2>1. N + 1 - j \in Nat /\ k <= N + 1
    BY <1>1 DEF N
  <2>. QED
    BY <1>1, <1>2, <1>3, <1>5, <2>1
<1>7. ASSUME NEW i \in 1..(N - j + 1) PROVE x[i] = w[i]
  <2>1. CASE i <= k - j
    <3>1. i \in 1..(k - j)
      BY <1>1, <2>1
    <3>. QED
      BY <1>2, <1>4, <1>5, <3>1
  <2>2. CASE i > k - j
    <3> DEFINE b == i - (k - j)
    <3>1. b \in 1..(N - k + 1) /\ (k - j) + b = i /\ k + b - 1 = j + i - 1
      BY <1>1, <2>2
    <3> HIDE DEF b
    <3>2. x[i] = v[b] /\ v[b] = s[k + b - 1]
      BY <1>2, <1>3, <1>5, <3>1
    <3>. QED
      BY <1>4, <3>1, <3>2
  <2>. QED
    BY <1>1, <2>1, <2>2
<1>8. x = w
  BY <1>4, <1>5, <1>6, <1>7, SeqEqual
<1>. QED
  BY <1>8 DEF x, u, v, w, N

\* The recursive function of Emission.
EmitFrom(f, i) ==
  IF i = 0 THEN <<>>
  ELSE (IF syms[i].n = 0 THEN <<>>
        ELSE Emitted(SubSeq(norm, syms[i].start, syms[i].start + syms[i].n - 1)))
       \o f[syms[i].next]
EmitSteps(f) == f = [i \in 0..Len(syms) |-> EmitFrom(f, i)]

\* It is there, since the links of the symbols go up.
LEMMA EmitStepsExist ==
  ASSUME Linked(syms), NEW nm, Spelling(syms, nm)
  PROVE  \E f : EmitSteps(f)
<1> DEFINE L == Len(syms)  D == 0..L
           rank == [i \in D |-> IF i = 0 THEN 0 ELSE L + 1 - i]
           a == [i \in D |-> IF syms[i].n = 0 THEN <<>>
                             ELSE Emitted(SubSeq(norm, syms[i].start, syms[i].start + syms[i].n - 1))]
           d == [i \in D |-> syms[i].next]
<1>1. L \in Nat /\ DOMAIN syms = 1..L
  BY DEF Linked
<1>2. \A i \in 1..L : syms[i].next # 0 => syms[i].next \in 1..L /\ i < syms[i].next
  BY <1>1 DEF Spelling
<1> HIDE DEF L
<1>3. \A i \in D : rank[i] = (IF i = 0 THEN 0 ELSE L + 1 - i) /\ d[i] = syms[i].next
  OBVIOUS
<1>4. Descends(D, d, rank, L + 1)
  <2>1. \A i \in D : rank[i] \in 0..(L + 1) /\ (rank[i] = 0 <=> i = 0)
    BY <1>1, <1>3
  <2>2. ASSUME NEW i \in D, rank[i] # 0 PROVE d[i] \in D /\ rank[d[i]] < rank[i]
    <3>1. i \in 1..L /\ d[i] = syms[i].next /\ rank[i] = L + 1 - i
      BY <1>1, <1>3, <2>1, <2>2
    <3> DEFINE e == d[i]
    <3>2. e = 0 \/ (e \in 1..L /\ i < e)
      BY <1>2, <3>1
    <3> HIDE DEF e
    <3>3. e \in D
      BY <1>1, <3>2
    <3>4. rank[e] < rank[i]
      BY <1>1, <1>3, <3>1, <3>2, <3>3
    <3>. QED
      BY <3>3, <3>4 DEF e
  <2> HIDE DEF d, rank
  <2>. QED
    BY <1>1, <2>1, <2>2 DEF Descends
<1>5. PICK f : Chained(f, D, a, d, rank)
  <2> HIDE DEF D, a, d, rank
  <2>. QED
    BY <1>4, ChainExists
<1>6. f = [i \in D |-> IF rank[i] = 0 THEN <<>> ELSE a[i] \o f[d[i]]]
  BY <1>5 DEF Chained
<1>7. ASSUME NEW i \in D
      PROVE  (IF rank[i] = 0 THEN <<>> ELSE a[i] \o f[d[i]]) = EmitFrom(f, i)
  <2>1. rank[i] = 0 <=> i = 0
    BY <1>1, <1>3
  <2>2. d[i] = syms[i].next
    BY <1>3
  <2>3. a[i] = IF syms[i].n = 0 THEN <<>>
               ELSE Emitted(SubSeq(norm, syms[i].start, syms[i].start + syms[i].n - 1))
    OBVIOUS
  <2> HIDE DEF a, d, rank, D
  <2>. QED
    BY <2>1, <2>2, <2>3, Zenon DEF EmitFrom
<1>8. f = [i \in D |-> EmitFrom(f, i)]
  <2> HIDE DEF D, a, d, rank
  <2>. QED
    BY <1>6, <1>7, Zenon
<1>. QED
  BY <1>8 DEF EmitSteps, L

\* The tokens of a fragment are its text.
LEMMA EmissionGives ==
  ASSUME TextInv, Spellable, PlainWords, Linked(syms), Spelled(norm), Spelling(syms, norm)
  PROVE  Gives(Emission, Spaced)
<1> DEFINE N == Len(Spaced)  L == Len(syms)
           f == CHOOSE f : EmitSteps(f)
           Rest(j) == SubSeq(Spaced, j, N)
           P(i) == \A j \in 1..N : \A k \in 1..(N + 1) :
                     Stands(syms, norm, i, j, k) => Gives(f[i], Rest(j))
           K == {c \in Nat : \A i \in Live(syms) : i > L - c => P(i)}
<1>1. N \in Nat /\ Spaced \in Seq(Alphabet) /\ L \in Nat /\ DOMAIN syms = 1..L
  BY SpacedIs DEF Linked
<1>2. EmitSteps(f)
  BY EmitStepsExist
<1>3. Emission = IF syms = <<>> THEN <<>> ELSE f[1]
  BY DEF Emission, EmitSteps, EmitFrom
<1> HIDE DEF f, N, L, Rest
<1>4. ASSUME NEW i \in 0..L PROVE f[i] = EmitFrom(f, i)
  BY <1>2 DEF EmitSteps, L
<1>5. \A i \in Live(syms) : \E j \in 1..N : \E k \in 1..(N + 1) : Stands(syms, norm, i, j, k)
  BY DEF Spelling, N
<1>6. ASSUME NEW i \in Live(syms), syms[i].next # 0 => P(syms[i].next) PROVE P(i)
  <2> SUFFICES ASSUME NEW j \in 1..N, NEW k \in 1..(N + 1), Stands(syms, norm, i, j, k)
               PROVE  Gives(f[i], Rest(j))
    OBVIOUS
  <2> DEFINE s == SubSeq(norm, Spot(j), Spot(k) - 1)  v == SubSeq(Spaced, j, k - 1)
  <2>1. i \in 1..L /\ i \in 0..L /\ i # 0 /\ syms[i].n # 0
    BY <1>1 DEF Live
  <2>2. /\ j < k /\ syms[i].start = Spot(j) /\ syms[i].start + syms[i].n = Spot(k)
        /\ IdFor(s) # 0 \/ \A e \in j..(k - 1) : Spaced[e] # Space
        /\ syms[i].next = 0 => k = N + 1
        /\ syms[i].next # 0 => syms[syms[i].next].start = Spot(k)
    BY DEF Stands, N
  <2>3. Gives(Emitted(s), v)
    BY <2>2, SymbolGives DEF N
  <2>4. f[i] = Emitted(s) \o f[syms[i].next]
    <3> DEFINE a == syms[i].start  b == syms[i].start + syms[i].n - 1  g == Spot(j)  h == Spot(k) - 1
    <3>1. f[i] = Emitted(SubSeq(norm, a, b)) \o f[syms[i].next]
      BY <1>4, <2>1, Zenon DEF EmitFrom
    <3>2. a = g /\ b = h
      <4>1. syms[i].start \in Int /\ syms[i].n \in Nat
        <5>1. syms \in Seq(Symbols)
          BY DEF Linked
        <5>2. syms[i] \in Symbols
          BY <1>1, <2>1, <5>1
        <5>. QED
          BY <5>2 DEF Symbols
      <4>. QED
        BY <2>2, <4>1
    <3>. QED
      BY <3>1, <3>2
  <2>5. Gives(f[syms[i].next], Rest(k))
    <3>1. CASE syms[i].next = 0
      <4>1. f[0] = <<>>
        BY <1>1, <1>4 DEF EmitFrom
      <4>2. Rest(k) = <<>>
        <5>1. N \in Nat /\ k = N + 1 /\ k \in Nat \ {0} /\ N - k + 1 = 0 /\ k <= N + 1
          BY <1>1, <2>2, <3>1
        <5> DEFINE w == Rest(k)
        <5> HIDE DEF w
        <5>2. w \in Seq(Alphabet) /\ Len(w) = N - k + 1
          BY <1>1, <5>1, PartIs DEF w, Rest, N
        <5>3. w = <<>>
          BY <5>1, <5>2
        <5>. QED
          BY <5>3 DEF w
      <4>. QED
        BY <3>1, <4>1, <4>2, GivesNothing
    <3>2. CASE syms[i].next # 0
      <4> DEFINE e == syms[i].next
      <4>1. e \in Live(syms) /\ P(e)
        BY <1>6, <3>2 DEF Linked
      <4>2. PICK g \in 1..N : \E h \in 1..(N + 1) : Stands(syms, norm, e, g, h)
        BY <1>5, <4>1
      <4>3. Spot(g) = Spot(k)
        BY <2>2, <3>2, <4>2 DEF Stands
      <4>4. g = k
        <5>1. g \in Nat \ {0} /\ k \in Nat \ {0}
          BY <1>1
        <5>. QED
          BY <4>3, <5>1, SpotOrder
      <4>5. Gives(f[e], Rest(g))
        BY <4>1, <4>2
      <4>. QED
        BY <4>4, <4>5
    <3>. QED
      BY <3>1, <3>2
  <2>6. v \o Rest(k) = Rest(j)
    <3>1. j \in Nat \ {0} /\ k \in Nat \ {0} /\ j <= k /\ k <= N + 1
      BY <1>1, <2>2
    <3>. QED
      BY <1>1, <3>1, PartsJoin DEF Rest, N
  <2> HIDE DEF s, v
  <2>7. Gives(Emitted(s) \o f[syms[i].next], v \o Rest(k))
    BY <2>3, <2>5, GivesBoth
  <2>. QED
    BY <2>4, <2>6, <2>7
<1>7. 0 \in K
  <2>1. \A i \in Live(syms) : ~(i > L - 0)
    BY <1>1 DEF Live
  <2>. QED
    BY <2>1
<1> HIDE DEF P
<1>8. ASSUME NEW c \in K PROVE c + 1 \in K
  <2>1. c \in Nat /\ c + 1 \in Nat /\ \A i \in Live(syms) : i > L - c => P(i)
    OBVIOUS
  <2>2. ASSUME NEW i \in Live(syms), i > L - (c + 1) PROVE P(i)
    <3>1. i \in 1..L
      BY <1>1 DEF Live
    <3>2. ASSUME syms[i].next # 0 PROVE P(syms[i].next)
      <4> DEFINE e == syms[i].next
      <4>1. e \in Live(syms) /\ i < e
        BY <3>2 DEF Linked
      <4>2. e \in 1..L
        BY <1>1, <4>1 DEF Live
      <4> HIDE DEF e
      <4>3. e > L - c
        BY <1>1, <2>1, <2>2, <3>1, <4>1, <4>2
      <4>4. P(e)
        BY <2>1, <4>1, <4>3
      <4>. QED
        BY <4>4 DEF e
    <3>. QED
      BY <1>6, <3>2
  <2>. QED
    BY <2>1, <2>2
<1>9. K = Nat
  <2>1. K \in SUBSET Nat
    OBVIOUS
  <2> HIDE DEF K
  <2>. QED
    BY <1>7, <1>8, <2>1, EveryNumber
<1>10. CASE syms = <<>>
  <2>1. Spaced = <<>> /\ Emission = <<>>
    BY <1>3, <1>10 DEF Spelling
  <2>. QED
    BY <2>1, GivesNothing
<1>11. CASE syms # <<>>
  <2>1. 1 \in Live(syms) /\ syms[1].start = 1
    BY <1>11 DEF Spelling
  <2>2. PICK j \in 1..N : \E k \in 1..(N + 1) : Stands(syms, norm, 1, j, k)
    BY <1>5, <2>1
  <2>3. j = 1
    <3>1. Spot(j) = Spot(1)
      <4>1. Spot(1) = 1
        BY SpotNext
      <4>. QED
        BY <2>1, <2>2, <4>1 DEF Stands
    <3>2. j \in Nat \ {0} /\ 1 \in Nat \ {0}
      BY <1>1
    <3>. QED
      BY <3>1, <3>2, SpotOrder
  <2>4. P(1)
    <3> HIDE DEF K
    <3>0. L \in K /\ 1 > L - L
      BY <1>1, <1>9
    <3>1. L \in Nat /\ \A i \in Live(syms) : i > L - L => P(i)
      BY <1>1, <3>0 DEF K
    <3>. QED
      BY <2>1, <3>0, <3>1
  <2>5. Gives(f[1], Rest(1))
    BY <2>2, <2>3, <2>4 DEF P
  <2>6. Rest(1) = Spaced
    <3> DEFINE w == Rest(1)
    <3>1. 1 \in Nat \ {0} /\ 1 <= N + 1 /\ N - 1 + 1 = N
      BY <1>1
    <3> HIDE DEF w
    <3>2. w \in Seq(Alphabet) /\ Len(w) = N - 1 + 1 /\ \A i \in 1..(N - 1 + 1) : w[i] = Spaced[1 + i - 1]
      BY <1>1, <3>1, PartIs DEF w, Rest, N
    <3>3. \A i \in 1..N : w[i] = Spaced[i]
      <4>1. \A i \in 1..N : 1 + i - 1 = i
        BY <1>1
      <4>. QED
        BY <3>1, <3>2, <4>1
    <3>4. w = Spaced
      BY <1>1, <3>1, <3>2, <3>3, SeqEqual DEF N
    <3>. QED
      BY <3>4 DEF w
  <2>. QED
    BY <1>3, <1>11, <2>5, <2>6
<1>. QED
  BY <1>10, <1>11

-----------------------------------------------------------------------------
(* What decode makes of the tokens.                                         *)

Unspaced(p) == IF vocab.prefix /\ p # <<>> /\ p[1] = Space THEN Tail(p) ELSE p
Shown(ids, i) ==
  IF Special(ids[i]) THEN <<>>
  ELSE IF \A j \in 1..(i - 1) : Special(ids[j]) THEN Unspaced(Piece(ids[i])) ELSE Piece(ids[i])
ShownAll(ids) == [i \in 1..Len(ids) |-> Shown(ids, i)]
Readable(w) == w \in Seq(Nat) /\ \A i \in 1..Len(w) : Special(w[i]) \/ Piece(w[i]) \in Seq(Wide)

\* decode() is what each token shows, one after the other.
LEMMA DecodedIs ==
  ASSUME NEW w \in Seq(Nat)
  PROVE  Decoded(w) = FlattenSeq(ShownAll(w))
<1>1. DOMAIN w = 1..Len(w)
  OBVIOUS
<1>2. Decoded(w) = FlattenSeq([i \in DOMAIN w |-> Shown(w, i)])
  BY DEF Decoded, Shown, Unspaced
<1>. QED
  BY <1>1, <1>2 DEF ShownAll

\* What the tokens show is a sequence of texts.
LEMMA ShownSeq ==
  ASSUME NEW w, Readable(w)
  PROVE  /\ ShownAll(w) \in Seq(Seq(Wide)) /\ Len(ShownAll(w)) = Len(w)
         /\ \A i \in 1..Len(w) : ShownAll(w)[i] = Shown(w, i)
<1> DEFINE U == Seq(Wide)
<1>1. Len(w) \in Nat
  BY DEF Readable
<1>2. ASSUME NEW p \in Seq(Wide) PROVE Unspaced(p) \in U
  <2>1. p # <<>> => Tail(p) \in Seq(Wide)
    OBVIOUS
  <2>. QED
    BY <2>1 DEF Unspaced
<1>3. <<>> \in U
  OBVIOUS
<1>4. ASSUME NEW i \in 1..Len(w) PROVE Shown(w, i) \in U
  <2>1. Special(w[i]) \/ Piece(w[i]) \in Seq(Wide)
    BY DEF Readable
  <2>. QED
    BY <1>2, <1>3, <2>1 DEF Shown
<1> HIDE DEF U
<1>5. ShownAll(w) \in Seq(U) /\ Len(ShownAll(w)) = Len(w)
      /\ \A i \in 1..Len(w) : ShownAll(w)[i] = Shown(w, i)
  <2> DEFINE a == ShownAll(w)  n == Len(w)
  <2>1. a = [i \in 1..n |-> Shown(w, i)] /\ n \in Nat /\ \A i \in 1..n : Shown(w, i) \in U
    BY <1>1, <1>4 DEF ShownAll
  <2> HIDE DEF a, n
  <2>2. a \in Seq(U) /\ Len(a) = n /\ \A i \in 1..n : a[i] = Shown(w, i)
    BY <2>1
  <2>. QED
    BY <2>2 DEF a, n
<1>. QED
  BY <1>5 DEF U

\* A special token in front.
LEMMA DecodedBefore ==
  ASSUME NEW b \in Nat, Special(b), NEW w, Readable(w)
  PROVE  Readable(<<b>> \o w) /\ Decoded(<<b>> \o w) = Decoded(w)
<1> DEFINE o == <<b>>  x == o \o w  m == << <<>> >>  s == ShownAll(w)  y == m \o s
           U == Seq(Wide)
<1>1. o \in Seq(Nat) /\ Len(o) = 1 /\ o[1] = b
  OBVIOUS
<1>2. m \in Seq(U) /\ Len(m) = 1 /\ m[1] = <<>>
  OBVIOUS
<1>3. w \in Seq(Nat)
  BY DEF Readable
<1>4. s \in Seq(U) /\ Len(s) = Len(w) /\ \A i \in 1..Len(w) : s[i] = Shown(w, i)
  BY ShownSeq
<1> HIDE DEF o, m, s, U
<1>5. /\ x \in Seq(Nat) /\ Len(x) = Len(o) + Len(w) /\ Len(w) \in Nat
      /\ \A i \in 1..Len(o) : x[i] = o[i]
      /\ \A i \in 1..Len(w) : x[Len(o) + i] = w[i]
      /\ \A i \in 1..Len(x) : i \in 1..Len(o)
                              \/ (i - Len(o) \in 1..Len(w) /\ i = Len(o) + (i - Len(o)))
  <2>1. o \in Seq(Nat)
    BY <1>1
  <2>. QED
    BY <1>3, <2>1, OneAfterOther
<1>6. /\ y \in Seq(U) /\ Len(y) = Len(m) + Len(s)
      /\ \A i \in 1..Len(m) : y[i] = m[i]
      /\ \A i \in 1..Len(s) : y[Len(m) + i] = s[i]
  <2>1. m \in Seq(U) /\ s \in Seq(U)
    BY <1>2, <1>4
  <2>. QED
    BY <2>1, OneAfterOther
<1> DEFINE L == Len(w)
<1> HIDE DEF x, y, L
<1>7. /\ L \in Nat /\ Len(x) = 1 + L /\ x[1] = b /\ \A i \in 1..L : x[1 + i] = w[i]
      /\ Len(y) = 1 + L /\ y[1] = <<>> /\ \A i \in 1..L : y[1 + i] = Shown(w, i)
      /\ \A i \in 1..(1 + L) : i = 1 \/ (i - 1 \in 1..L /\ i = 1 + (i - 1))
  <2>1. L \in Nat /\ Len(x) = 1 + L /\ x[1] = b /\ \A i \in 1..L : x[1 + i] = w[i]
    BY <1>1, <1>5 DEF L
  <2>2. Len(y) = 1 + L /\ y[1] = <<>> /\ \A i \in 1..L : y[1 + i] = Shown(w, i)
    BY <1>2, <1>4, <1>6 DEF L
  <2>3. \A i \in 1..(1 + L) : i = 1 \/ (i - 1 \in 1..L /\ i = 1 + (i - 1))
    BY <2>1
  <2>. QED
    BY <2>1, <2>2, <2>3
<1>8. Readable(x)
  <2>1. ASSUME NEW i \in 1..Len(x) PROVE Special(x[i]) \/ Piece(x[i]) \in Seq(Wide)
    <3>1. CASE i = 1
      BY <1>7, <3>1
    <3>2. CASE i # 1
      <4> DEFINE a == i - 1
      <4>1. a \in 1..L /\ i = 1 + a
        BY <1>7, <3>2
      <4> HIDE DEF a
      <4>2. x[i] = w[a]
        BY <1>7, <4>1
      <4>. QED
        BY <4>1, <4>2 DEF Readable, L
    <3>. QED
      BY <3>1, <3>2
  <2>. QED
    BY <1>5, <2>1 DEF Readable
<1>9. ASSUME NEW i \in 1..Len(x) PROVE Shown(x, i) = y[i]
  <2>1. CASE i = 1
    BY <1>7, <2>1 DEF Shown
  <2>2. CASE i # 1
    <3> DEFINE a == i - 1
    <3>1. a \in 1..L /\ i = 1 + a /\ i - 1 = a
      BY <1>7, <2>2
    <3> HIDE DEF a
    <3>2. x[i] = w[a] /\ y[i] = Shown(w, a)
      BY <1>7, <3>1
    <3>3. (\A j \in 1..(i - 1) : Special(x[j])) <=> (\A j \in 1..(a - 1) : Special(w[j]))
      <4>1. ASSUME \A j \in 1..(i - 1) : Special(x[j]), NEW j \in 1..(a - 1) PROVE Special(w[j])
        <5>1. 1 + j \in 1..(i - 1) /\ j \in 1..L
          BY <1>7, <3>1
        <5>2. x[1 + j] = w[j]
          BY <1>7, <5>1
        <5>. QED
          BY <4>1, <5>1, <5>2
      <4>2. ASSUME \A j \in 1..(a - 1) : Special(w[j]), NEW j \in 1..(i - 1) PROVE Special(x[j])
        <5>1. CASE j = 1
          BY <1>7, <5>1
        <5>2. CASE j # 1
          <6> DEFINE c == j - 1
          <6>1. c \in 1..(a - 1) /\ c \in 1..L /\ j = 1 + c
            BY <1>7, <3>1, <5>2
          <6> HIDE DEF c
          <6>2. x[j] = w[c]
            BY <1>7, <6>1
          <6>. QED
            BY <4>2, <6>1, <6>2
        <5>. QED
          BY <5>1, <5>2
      <4>. QED
        BY <4>1, <4>2
    <3>. QED
      BY <3>2, <3>3, Zenon DEF Shown
  <2>. QED
    BY <2>1, <2>2
<1>10. ShownAll(x) = y
  <2>1. ShownAll(x) \in Seq(U) /\ Len(ShownAll(x)) = Len(x)
        /\ \A i \in 1..Len(x) : ShownAll(x)[i] = Shown(x, i)
    BY <1>8, ShownSeq DEF U
  <2>. QED
    BY <1>6, <1>7, <1>9, <2>1, SeqEqual
<1>11. FlattenSeq(y) = FlattenSeq(m) \o FlattenSeq(s)
  BY <1>2, <1>4, FlattenConcat DEF y, U
<1>12. FlattenSeq(m) = <<>>
  <2>1. <<>> \in Seq(Wide)
    OBVIOUS
  <2>. QED
    BY <2>1, FlattenOne DEF m
<1>13. FlattenSeq(s) \in Seq(Wide)
  BY <1>4, FlattenedSeq DEF U
<1>14. FlattenSeq(y) = FlattenSeq(s)
  BY <1>11, <1>12, <1>13
<1>15. Decoded(x) = FlattenSeq(y) /\ Decoded(w) = FlattenSeq(s)
  BY <1>3, <1>5, <1>10, DecodedIs DEF s
<1>. QED
  BY <1>8, <1>14, <1>15 DEF x, o

\* A special token at the end.
LEMMA DecodedAfter ==
  ASSUME NEW z \in Nat, Special(z), NEW w, Readable(w)
  PROVE  Decoded(w \o <<z>>) = Decoded(w)
<1> DEFINE o == <<z>>  x == w \o o  m == << <<>> >>  s == ShownAll(w)  y == s \o m
           U == Seq(Wide)
<1>1. o \in Seq(Nat) /\ Len(o) = 1 /\ o[1] = z
  OBVIOUS
<1>2. m \in Seq(U) /\ Len(m) = 1 /\ m[1] = <<>>
  OBVIOUS
<1>3. w \in Seq(Nat)
  BY DEF Readable
<1>4. s \in Seq(U) /\ Len(s) = Len(w) /\ \A i \in 1..Len(w) : s[i] = Shown(w, i)
  BY ShownSeq
<1> HIDE DEF o, m, s, U
<1>5. /\ x \in Seq(Nat) /\ Len(x) = Len(w) + Len(o) /\ Len(w) \in Nat
      /\ \A i \in 1..Len(w) : x[i] = w[i]
      /\ \A i \in 1..Len(o) : x[Len(w) + i] = o[i]
  <2>1. o \in Seq(Nat)
    BY <1>1
  <2>. QED
    BY <1>3, <2>1, OneAfterOther
<1>6. /\ y \in Seq(U) /\ Len(y) = Len(s) + Len(m)
      /\ \A i \in 1..Len(s) : y[i] = s[i]
      /\ \A i \in 1..Len(m) : y[Len(s) + i] = m[i]
  <2>1. m \in Seq(U) /\ s \in Seq(U)
    BY <1>2, <1>4
  <2>. QED
    BY <2>1, OneAfterOther
<1> DEFINE L == Len(w)
<1> HIDE DEF x, y, L
<1>7. /\ L \in Nat /\ Len(x) = L + 1 /\ x[L + 1] = z /\ \A i \in 1..L : x[i] = w[i]
      /\ Len(y) = L + 1 /\ y[L + 1] = <<>> /\ \A i \in 1..L : y[i] = Shown(w, i)
      /\ \A i \in 1..(L + 1) : i = L + 1 \/ i \in 1..L
  <2>1. L \in Nat /\ Len(x) = L + 1 /\ x[L + 1] = z /\ \A i \in 1..L : x[i] = w[i]
    BY <1>1, <1>5 DEF L
  <2>2. Len(y) = L + 1 /\ y[L + 1] = <<>> /\ \A i \in 1..L : y[i] = Shown(w, i)
    BY <1>2, <1>4, <1>6 DEF L
  <2>3. \A i \in 1..(L + 1) : i = L + 1 \/ i \in 1..L
    BY <2>1
  <2>. QED
    BY <2>1, <2>2, <2>3
<1>8. Readable(x)
  <2>1. ASSUME NEW i \in 1..Len(x) PROVE Special(x[i]) \/ Piece(x[i]) \in Seq(Wide)
    <3>1. CASE i = L + 1
      BY <1>7, <3>1
    <3>2. CASE i \in 1..L
      <4>2. x[i] = w[i]
        BY <1>7, <3>2
      <4>. QED
        BY <3>2, <4>2 DEF Readable, L
    <3>. QED
      BY <1>7, <3>1, <3>2
  <2>. QED
    BY <1>5, <2>1 DEF Readable
<1>9. ASSUME NEW i \in 1..Len(x) PROVE Shown(x, i) = y[i]
  <2>1. CASE i = L + 1
    BY <1>7, <2>1 DEF Shown
  <2>2. CASE i \in 1..L
    <3>2. x[i] = w[i] /\ y[i] = Shown(w, i)
      BY <1>7, <2>2
    <3>3. \A j \in 1..(i - 1) : x[j] = w[j]
      <4>1. \A j \in 1..(i - 1) : j \in 1..L
        BY <1>7, <2>2
      <4>. QED
        BY <1>7, <4>1
    <3>. QED
      BY <3>2, <3>3, Zenon DEF Shown
  <2>. QED
    BY <1>7, <2>1, <2>2
<1>10. ShownAll(x) = y
  <2>1. ShownAll(x) \in Seq(U) /\ Len(ShownAll(x)) = Len(x)
        /\ \A i \in 1..Len(x) : ShownAll(x)[i] = Shown(x, i)
    BY <1>8, ShownSeq DEF U
  <2>. QED
    BY <1>6, <1>7, <1>9, <2>1, SeqEqual
<1>11. FlattenSeq(y) = FlattenSeq(s) \o FlattenSeq(m)
  BY <1>2, <1>4, FlattenConcat DEF y, U
<1>12. FlattenSeq(m) = <<>>
  <2>1. <<>> \in Seq(Wide)
    OBVIOUS
  <2>. QED
    BY <2>1, FlattenOne DEF m
<1>13. FlattenSeq(s) \in Seq(Wide)
  BY <1>4, FlattenedSeq DEF U
<1>14. FlattenSeq(y) = FlattenSeq(s)
  BY <1>11, <1>12, <1>13
<1>15. Decoded(x) = FlattenSeq(y) /\ Decoded(w) = FlattenSeq(s)
  BY <1>3, <1>5, <1>10, DecodedIs DEF s
<1>. QED
  BY <1>14, <1>15 DEF x, o

\* Of the tokens of the text, the space that the encoder put first is gone.
LEMMA DecodedText ==
  ASSUME TextInv, NEW e, Gives(e, Spaced)
  PROVE  Readable(e) /\ Decoded(e) = text
<1> DEFINE s == ShownAll(e)  p == Pieces(e)  U == Seq(Wide)  L == Len(e)
<1>1. /\ e \in Seq(Nat) /\ L \in Nat /\ FlattenSeq(p) = Spaced
      /\ \A i \in 1..L : ~Special(e[i]) /\ Piece(e[i]) \in Seq(Wide) /\ Piece(e[i]) # <<>>
  BY DEF Gives
<1>2. Readable(e)
  BY <1>1 DEF Readable
<1>3. s \in Seq(U) /\ Len(s) = L /\ \A i \in 1..L : s[i] = Shown(e, i)
  BY <1>2, ShownSeq
<1>4. p \in Seq(U) /\ Len(p) = L /\ \A i \in 1..L : p[i] = Piece(e[i])
  BY PiecesAreSeq DEF Pieces
<1>5. Decoded(e) = FlattenSeq(s)
  BY <1>1, DecodedIs
<1> HIDE DEF s, p, U, L
<1>6. CASE L = 0
  <2>1. s = <<>> /\ p = <<>>
    BY <1>3, <1>4, <1>6
  <2>2. Spaced = <<>>
    BY <1>1, <2>1 DEF FlattenSeq
  <2>3. text = <<>>
    <3>1. CASE ~Led
      BY <2>2, <3>1, SpacedIs
    <3>2. CASE Led
      <4>1. Len(Spaced) = Len(text) + 1 /\ Len(text) \in Nat
        BY <3>2, SpacedIs
      <4>2. Len(Spaced) = 0
        BY <2>2
      <4>. QED
        BY <4>1, <4>2
    <3>. QED
      BY <3>1, <3>2
  <2>4. FlattenSeq(s) = <<>>
    BY <2>1 DEF FlattenSeq
  <2>. QED
    BY <1>2, <1>5, <2>3, <2>4
<1>7. CASE L # 0
  <2> DEFINE f == Piece(e[1])  g == Unspaced(f)  t == Tail(p)  a == <<f>>  b == <<g>>
             R == FlattenSeq(t)
  <2>1. 1 \in 1..L /\ f \in U /\ f # <<>> /\ p[1] = f /\ p # <<>>
    BY <1>1, <1>4, <1>7 DEF U
  <2>2. t \in Seq(U) /\ Len(t) = L - 1 /\ \A i \in 1..(L - 1) : t[i] = p[i + 1]
    <3> HIDE DEF f
    <3>. QED
      BY <1>1, <1>4, <1>7
  <2>3. g \in U
    <3> HIDE DEF f
    <3>1. Tail(f) \in Seq(Wide)
      BY <2>1 DEF U
    <3>. QED
      BY <2>1, <3>1 DEF Unspaced, U
  <2>4. a \in Seq(U) /\ Len(a) = 1 /\ a[1] = f
    <3> HIDE DEF f
    <3>. QED
      BY <2>1
  <2>5. b \in Seq(U) /\ Len(b) = 1 /\ b[1] = g
    <3> HIDE DEF g
    <3>. QED
      BY <2>3
  <2>6. FlattenSeq(a) = f /\ FlattenSeq(b) = g
    <3> HIDE DEF f, g
    <3>. QED
      BY <2>1, <2>3, FlattenOne DEF U
  <2>7. R \in Seq(Wide)
    <3> HIDE DEF t
    <3>. QED
      BY <2>2, FlattenedSeq DEF U
  <2> HIDE DEF f, g, t, a, b, R
  <2>8. p = a \o t
    <3> DEFINE x == a \o t
    <3>1. /\ x \in Seq(U) /\ Len(x) = Len(a) + Len(t)
          /\ \A i \in 1..Len(a) : x[i] = a[i]
          /\ \A i \in 1..Len(t) : x[Len(a) + i] = t[i]
      <4>1. a \in Seq(U) /\ t \in Seq(U)
        BY <2>2, <2>4
      <4>. QED
        BY <4>1, OneAfterOther
    <3> HIDE DEF x
    <3>2. Len(x) = L
      BY <1>1, <2>2, <2>4, <3>1
    <3>3. ASSUME NEW i \in 1..L PROVE x[i] = p[i]
      <4>1. CASE i = 1
        BY <2>1, <2>4, <3>1, <4>1
      <4>2. CASE i # 1
        <5> DEFINE c == i - 1
        <5>1. c \in 1..(L - 1) /\ i = c + 1 /\ i = 1 + c
          BY <1>1, <4>2
        <5> HIDE DEF c
        <5>. QED
          BY <2>2, <2>4, <3>1, <5>1
      <4>. QED
        BY <4>1, <4>2
    <3>4. x = p
      BY <1>4, <3>1, <3>2, <3>3, SeqEqual
    <3>. QED
      BY <3>4 DEF x
  <2>9. s = b \o t
    <3> DEFINE x == b \o t
    <3>1. /\ x \in Seq(U) /\ Len(x) = Len(b) + Len(t)
          /\ \A i \in 1..Len(b) : x[i] = b[i]
          /\ \A i \in 1..Len(t) : x[Len(b) + i] = t[i]
      <4>1. b \in Seq(U) /\ t \in Seq(U)
        BY <2>2, <2>5
      <4>. QED
        BY <4>1, OneAfterOther
    <3> HIDE DEF x
    <3>2. Len(x) = L
      BY <1>1, <2>2, <2>5, <3>1
    <3>3. ASSUME NEW i \in 1..L PROVE x[i] = s[i]
      <4>1. CASE i = 1
        <5>1. Shown(e, 1) = g
          <6>1. ~Special(e[1]) /\ \A j \in 1..(1 - 1) : Special(e[j])
            BY <1>1, <2>1
          <6>. QED
            BY <6>1, Zenon DEF Shown, g, f
        <5>. QED
          BY <1>3, <2>1, <2>5, <3>1, <4>1, <5>1
      <4>2. CASE i # 1
        <5> DEFINE c == i - 1
        <5>1. c \in 1..(L - 1) /\ i = c + 1 /\ i = 1 + c /\ 1 \in 1..(i - 1)
          BY <1>1, <4>2
        <5> HIDE DEF c
        <5>2. x[i] = p[i]
          BY <2>2, <2>5, <3>1, <5>1
        <5>3. ~Special(e[i]) /\ ~Special(e[1])
          BY <1>1, <2>1
        <5>4. Shown(e, i) = Piece(e[i])
          BY <5>1, <5>3, Zenon DEF Shown
        <5>. QED
          BY <1>3, <1>4, <5>2, <5>4
      <4>. QED
        BY <4>1, <4>2
    <3>4. x = s
      BY <1>3, <3>1, <3>2, <3>3, SeqEqual
    <3>. QED
      BY <3>4 DEF x
  <2>10. Spaced = f \o R /\ Decoded(e) = g \o R
    <3>1. FlattenSeq(p) = FlattenSeq(a) \o FlattenSeq(t)
      BY <2>2, <2>4, <2>8, FlattenConcat DEF U
    <3>2. FlattenSeq(s) = FlattenSeq(b) \o FlattenSeq(t)
      BY <2>2, <2>5, <2>9, FlattenConcat DEF U
    <3>. QED
      BY <1>1, <1>5, <2>6, <3>1, <3>2 DEF R
  <2>11. /\ f \in Seq(Wide) /\ R \in Seq(Wide) /\ f # <<>> /\ Len(f) \in Nat \ {0} /\ Len(R) \in Nat
         /\ Len(Spaced) = Len(f) + Len(R)
         /\ \A i \in 1..Len(f) : Spaced[i] = f[i]
         /\ \A i \in 1..Len(R) : Spaced[Len(f) + i] = R[i]
    <3>1. f \in Seq(Wide) /\ R \in Seq(Wide) /\ f # <<>>
      BY <2>1, <2>7 DEF U
    <3>2. Len(f) \in Nat \ {0}
      BY <3>1
    <3>. QED
      BY <2>10, <3>1, <3>2, OneAfterOther
  <2>12. CASE Led
    <3>1. /\ Len(Spaced) = Len(text) + 1 /\ Spaced[1] = Space /\ Len(text) \in Nat
          /\ text \in Seq(Alphabet)
          /\ \A i \in 1..Len(text) : Spaced[i + 1] = text[i]
      BY <2>12, SpacedIs
    <3>2. f[1] = Space
      <4>1. 1 \in 1..Len(f)
        BY <2>11
      <4>. QED
        BY <2>11, <3>1, <4>1
    <3>3. g = Tail(f)
      BY <2>11, <2>12, <3>2 DEF g, Unspaced, Led
    <3>4. g \in Seq(Wide) /\ Len(g) = Len(f) - 1 /\ \A i \in 1..(Len(f) - 1) : g[i] = f[i + 1]
      BY <2>11, <3>3
    <3> DEFINE x == g \o R
    <3>5. /\ x \in Seq(Wide) /\ Len(x) = Len(g) + Len(R)
          /\ \A i \in 1..Len(g) : x[i] = g[i]
          /\ \A i \in 1..Len(R) : x[Len(g) + i] = R[i]
      <4>1. g \in Seq(Wide) /\ R \in Seq(Wide)
        BY <2>7, <3>4
      <4>. QED
        BY <4>1, OneAfterOther
    <3> DEFINE n == Len(f)  r == Len(R)  N == Len(text)
    <3> HIDE DEF x, n, r, N
    <3>6. n \in Nat \ {0} /\ r \in Nat /\ N \in Nat /\ n + r = N + 1 /\ Len(x) = N
      <4>1. n \in Nat \ {0} /\ r \in Nat /\ N \in Nat /\ n + r = N + 1
        BY <2>11, <3>1 DEF n, r, N
      <4>2. Len(x) = (n - 1) + r
        BY <3>4, <3>5 DEF n, r
      <4>. QED
        BY <4>1, <4>2
    <3>7. ASSUME NEW i \in 1..N PROVE x[i] = text[i]
      <4>1. Spaced[i + 1] = text[i]
        BY <3>1 DEF N
      <4>2. CASE i <= n - 1
        <5>1. i \in 1..(n - 1) /\ i + 1 \in 1..n
          BY <3>6, <4>2
        <5>2. x[i] = g[i] /\ g[i] = f[i + 1]
          BY <3>4, <3>5, <5>1 DEF n
        <5>3. Spaced[i + 1] = f[i + 1]
          BY <2>11, <5>1 DEF n
        <5>. QED
          BY <4>1, <5>2, <5>3
      <4>3. CASE i > n - 1
        <5> DEFINE c == i - (n - 1)
        <5>1. c \in 1..r /\ (n - 1) + c = i /\ n + c = i + 1
          BY <3>6, <4>3
        <5> HIDE DEF c
        <5>2. x[i] = R[c]
          BY <3>4, <3>5, <5>1 DEF n, r
        <5>3. Spaced[i + 1] = R[c]
          BY <2>11, <5>1 DEF n, r
        <5>. QED
          BY <4>1, <5>2, <5>3
      <4>. QED
        BY <3>6, <4>2, <4>3
    <3>8. x = text
      BY <3>1, <3>5, <3>6, <3>7, SeqEqual DEF N
    <3>. QED
      BY <1>2, <2>10, <3>8 DEF x
  <2>13. CASE ~Led
    <3>1. Spaced = text
      BY <2>13, SpacedIs
    <3>2. text # <<>>
      <4>1. Len(Spaced) # 0
        BY <2>11
      <4>. QED
        BY <3>1, <4>1
    <3>3. g = f
      BY <2>13, <3>2 DEF Led, g, Unspaced
    <3>. QED
      BY <1>2, <2>10, <3>1, <3>3
  <2>. QED
    BY <2>12, <2>13
<1>. QED
  BY <1>6, <1>7

-----------------------------------------------------------------------------
(* The invariant: how far such a text has come.                             *)

Opening == IF vocab.bos = 0 THEN <<>> ELSE <<vocab.bos>>

OnItsWay ==
  /\ phase \in {"scan", "merge"} => at = 1 /\ out = Opening
  /\ phase = "merge" => norm = Normalise(text) /\ Spelling(syms, norm)
  /\ phase = "encoded" => Decoded(out) = text
  /\ phase = "decoded" => back = text

PlainCase == PlainText /\ PlainVocab

TripInv == Tokens \in Seq(ToSet(Tokens)) /\ (PlainCase => OnItsWay)

\* What the lemmas above ask of vocabulary and text.
LEMMA PlainCaseIs ==
  ASSUME TokenizerInv, TripInv, PlainCase
  PROVE  Spellable /\ PlainWords
<1>1. DOMAIN Tokens = 1..Len(Tokens) /\ Len(Tokens) \in Nat
  BY DEF TripInv
<1>2. "<0x" \notin ToSet(text)
  BY DEF PlainCase, PlainText, ToSet
<1>3. /\ IdFor(Marker) # 0 /\ \A i \in DOMAIN text : ByteId(text[i]) # 0 \/ text[i] = Space
      /\ \A i \in DOMAIN Tokens :
           /\ Tokens[i].type = "BYTE" => "<0x" \in ToSet(Tokens[i].text)
           /\ Special(i) => Marker[1] \notin ToSet(Tokens[i].text)
      /\ \A id \in {vocab.bos, vocab.eos} \ {0} : id \in DOMAIN Tokens /\ Special(id)
  BY DEF PlainCase, PlainVocab
<1>4. Spellable
  BY <1>1, <1>2, <1>3 DEF Spellable
<1>. QED
  BY <1>3, <1>4 DEF PlainCase, PlainWords

\* What is said of vocabulary and text stays when they do.
LEMMA WordsStay ==
  ASSUME vocab' = vocab, text' = text
  PROVE  /\ Tokens' = Tokens
         /\ PlainCase' => PlainCase
         /\ Opening' = Opening
<1>1. Tokens' = Tokens
  BY DEF Tokens
<1>2. ASSUME NEW id PROVE Special(id)' = Special(id)
  BY <1>1 DEF Special
<1>3. ASSUME NEW s PROVE IdFor(s)' = IdFor(s)
  BY <1>1 DEF IdFor
<1>4. ASSUME NEW c PROVE ByteId(c)' = ByteId(c)
  BY <1>1 DEF ByteId
<1>5. ASSUME NEW i PROVE SpecialsAt(i)' = SpecialsAt(i)
  <2>1. SpecialLengths' = SpecialLengths
    BY <1>1, <1>2 DEF SpecialLengths
  <2>. QED
    BY <1>1, <1>2, <1>3, <2>1 DEF SpecialsAt
<1>6. PlainText' => PlainText
  BY <1>5 DEF PlainText
<1>7. PlainVocab' => PlainVocab
  <2>1. IdFor(Marker)' = IdFor(Marker)
    BY <1>3
  <2>2. ASSUME NEW i \in DOMAIN text PROVE ByteId(text[i])' = ByteId(text[i])
    BY <1>1 DEF ByteId
  <2>. QED
    BY <1>1, <1>2, <2>1, <2>2 DEF PlainVocab
<1>. QED
  BY <1>1, <1>6, <1>7 DEF Opening, PlainCase

\* So does what the symbols stand for.
LEMMA SpellingStays ==
  ASSUME vocab' = vocab, text' = text, Spelling(syms', norm')
  PROVE  Spelling(syms, norm)'
<1>1. Spaced' = Spaced
  BY DEF Spaced, Led
<1>2. ASSUME NEW i PROVE Spot(i)' = Spot(i)
  BY <1>1 DEF Spot, Spaces
<1>3. ASSUME NEW s PROVE IdFor(s)' = IdFor(s)
  BY DEF IdFor, Tokens
<1>4. ASSUME NEW i, NEW j, NEW k, Stands(syms', norm', i, j, k)
      PROVE  Stands(syms, norm, i, j, k)'
  <2>1. Spot(j)' = Spot(j) /\ Spot(k)' = Spot(k)
    BY <1>2
  <2>2. IdFor(SubSeq(norm, Spot(j), Spot(k) - 1))' = IdFor(SubSeq(norm', Spot(j), Spot(k) - 1))
    BY <2>1 DEF IdFor, Tokens
  <2>. QED
    BY <1>1, <1>4, <2>1, <2>2 DEF Stands
<1>. QED
  BY <1>1, <1>4 DEF Spelling, Live

\* Piece, of a token instead of its place.
TokenPiece(token) ==
  LET s == token.text
      from[i \in 1..(Len(s) + 3)] ==
        IF i > Len(s) THEN <<>>
        ELSE IF i + 2 <= Len(s) /\ SubSeq(s, i, i + 2) = Marker
             THEN <<Space>> \o from[i + 3]
        ELSE <<s[i]>> \o from[i + 1]
  IN  IF token.type = "BYTE" THEN <<s[2]>> ELSE from[1]

\* So does what tokens are decoded to.
LEMMA DecodedStays ==
  ASSUME vocab' = vocab, NEW w, w = out'
  PROVE  Decoded(out)' = Decoded(w)
<1>1. Tokens' = Tokens
  BY DEF Tokens
<1>2. ASSUME NEW id PROVE Special(id)' = Special(id)
  BY <1>1 DEF Special
<1>3. ASSUME NEW id PROVE Piece(id)' = Piece(id)
  <2>1. Piece(id) = TokenPiece(Tokens[id])
    BY DEF Piece, TokenPiece
  <2>2. Piece(id)' = TokenPiece(Tokens'[id])
    BY DEF Piece, TokenPiece
  <2>. QED
    BY <1>1, <2>1, <2>2
<1>4. ASSUME NEW i PROVE Shown(out, i)' = Shown(w, i)
  <2>1. Special(out[i])' = Special(w[i]) /\ Piece(out[i])' = Piece(w[i])
    BY <1>2, <1>3
  <2>. QED
    BY <1>2, <2>1 DEF Shown, Unspaced
<1>5. Decoded(w) = FlattenSeq([i \in DOMAIN w |-> Shown(w, i)])
  BY DEF Decoded, Shown, Unspaced
<1>6. Decoded(out)' = FlattenSeq([i \in DOMAIN out |-> Shown(out, i)])'
  BY DEF Decoded, Shown, Unspaced
<1>7. [i \in DOMAIN out |-> Shown(out, i)]' = [i \in DOMAIN w |-> Shown(w, i)]
  BY <1>4
<1>. QED
  BY <1>5, <1>6, <1>7

\* Such a text is one fragment.
LEMMA OneFragment ==
  ASSUME TokenizerInv, PlainText, at = 1
  PROVE  Hit = Len(text) + 1 /\ SubSeq(text, at, Hit - 1) = text
<1>1. text \in Seq(ToSet(text)) /\ Len(text) \in Nat
  BY DEF TokenizerInv, TextInv
<1>2. {i \in at..Len(text) : SpecialsAt(i) # {}} = {}
  <2>1. \A i \in 1..Len(text) : SpecialsAt(i) = {}
    BY <1>1 DEF PlainText
  <2>. QED
    BY <2>1
<1>3. Hit = Len(text) + 1
  BY <1>2 DEF Hit
<1>4. SubSeq(text, 1, Len(text)) = text
  <2> DEFINE w == SubSeq(text, 1, Len(text))
  <2>1. /\ w \in Seq(ToSet(text)) /\ Len(w) = Len(text) - 1 + 1
        /\ \A i \in 1..(Len(text) - 1 + 1) : w[i] = text[1 + i - 1]
    BY <1>1, PartIs
  <2> HIDE DEF w
  <2>2. Len(w) = Len(text) /\ \A i \in 1..Len(w) : w[i] = text[i]
    BY <1>1, <2>1
  <2>3. w = text
    BY <1>1, <2>1, <2>2, SeqEqual
  <2>. QED
    BY <2>3 DEF w
<1>5. Hit - 1 = Len(text)
  BY <1>1, <1>3
<1>. QED
  BY <1>3, <1>4, <1>5

\* A scan splits the text into its characters.
LEMMA TripScan ==
  ASSUME TokenizerInv, TripInv, Scan
  PROVE  TripInv'
<1>1. vocab' = vocab /\ text' = text /\ out' = out /\ at' = at /\ phase' = "merge" /\ phase = "scan"
  BY DEF Scan
<1>2. Tokens' = Tokens /\ (PlainCase' => PlainCase) /\ Opening' = Opening
  BY <1>1, WordsStay DEF TripInv
<1>3. ASSUME PlainCase PROVE OnItsWay'
  <2>1. at = 1 /\ out = Opening
    BY <1>1, <1>3 DEF TripInv, OnItsWay
  <2>2. PlainText /\ IdFor(Marker) # 0 /\ TextInv
    BY <1>3, PlainCaseIs DEF PlainWords, TokenizerInv
  <2>3. norm' = Normalise(text) /\ syms' = Split(norm')
    BY <2>1, <2>2, OneFragment DEF Scan
  <2>4. Spelled(norm')
    BY <2>2, <2>3, NormSpelled
  <2>5. Spelling(syms', norm')
    BY <2>2, <2>3, <2>4, SplitSpelling
  <2>6. Spelling(syms, norm)'
    BY <1>1, <2>5, SpellingStays
  <2>7. norm' = Normalise(text)'
    BY <1>1, <2>3 DEF Normalise
  <2>. QED
    BY <1>1, <1>2, <2>1, <2>6, <2>7 DEF OnItsWay
<1>. QED
  BY <1>2, <1>3 DEF TripInv

\* A merge leaves what the symbols stand for.
LEMMA TripPop ==
  ASSUME TokenizerInv, TripInv, Pop
  PROVE  TripInv'
<1>1. /\ vocab' = vocab /\ text' = text /\ out' = out /\ at' = at /\ norm' = norm
      /\ phase' = "merge" /\ phase = "merge"
  BY DEF Pop
<1>2. Tokens' = Tokens /\ (PlainCase' => PlainCase) /\ Opening' = Opening
  BY <1>1, WordsStay DEF TripInv
<1>3. ASSUME PlainCase PROVE OnItsWay'
  <2>1. at = 1 /\ out = Opening /\ norm = Normalise(text) /\ Spelling(syms, norm)
    BY <1>1, <1>3 DEF TripInv, OnItsWay
  <2>2. TextInv /\ Linked(syms)
    BY <1>1 DEF TokenizerInv, MergeInv
  <2>3. Spelling(syms', norm')
    <3>1. CASE syms' = syms
      BY <1>1, <2>1, <3>1
    <3>2. CASE syms' # syms
      <4>1. PICK b \in Mergeable(syms) : syms' = Merged(b)
        BY <3>2, PopStep
      <4>2. Spelling(Merged(b), norm)
        BY <2>1, <2>2, MergeSpelling
      <4>. QED
        BY <1>1, <4>1, <4>2
    <3>. QED
      BY <3>1, <3>2
  <2>4. Spelling(syms, norm)'
    BY <1>1, <2>3, SpellingStays
  <2>5. norm' = Normalise(text)'
    BY <1>1, <2>1 DEF Normalise
  <2>. QED
    BY <1>1, <1>2, <2>1, <2>4, <2>5 DEF OnItsWay
<1>. QED
  BY <1>2, <1>3 DEF TripInv

\* The tokens of the only fragment are those of the whole text.
LEMMA TripEmit ==
  ASSUME TokenizerInv, TripInv, Emit
  PROVE  TripInv'
<1>1. vocab' = vocab /\ text' = text /\ phase = "merge"
  BY DEF Emit
<1>2. Tokens' = Tokens /\ (PlainCase' => PlainCase)
  BY <1>1, WordsStay DEF TripInv
<1>3. ASSUME PlainCase PROVE OnItsWay'
  <2>1. at = 1 /\ out = Opening /\ norm = Normalise(text) /\ Spelling(syms, norm)
    BY <1>1, <1>3 DEF TripInv, OnItsWay
  <2>2. PlainText /\ TextInv /\ Linked(syms)
    BY <1>1, <1>3 DEF PlainCase, TokenizerInv, MergeInv
  <2>3. Spellable /\ PlainWords
    BY <1>3, PlainCaseIs
  <2>4. Spelled(norm)
    BY <2>1, <2>2, NormSpelled
  <2>5. Gives(Emission, Spaced)
    BY <2>1, <2>2, <2>4, <2>3, EmissionGives
  <2>6. Readable(Emission) /\ Decoded(Emission) = text
    BY <2>2, <2>5, DecodedText
  <2>7. Hit > Len(text)
    <3>1. Len(text) \in Nat /\ Hit = Len(text) + 1
      BY <2>1, <2>2, OneFragment DEF TextInv
    <3>. QED
      BY <3>1
  <2> DEFINE e == Emission  closing == IF vocab.eos = 0 THEN <<>> ELSE <<vocab.eos>>
             w == out \o e
  <2>8. out' = w \o closing /\ phase' = "encoded"
    BY <2>7 DEF Emit
  <2>9. ASSUME NEW id \in {vocab.bos, vocab.eos} \ {0} PROVE id \in Nat /\ Special(id)
    <3>1. id \in DOMAIN Tokens /\ Special(id)
      BY <2>3 DEF Spellable
    <3>2. PICK n \in Nat : DOMAIN Tokens = 1..n
      BY <2>3 DEF Spellable
    <3>. QED
      BY <3>1, <3>2
  <2>10. e \in Seq(Nat)
    BY <2>6 DEF Readable
  <2> HIDE DEF e
  <2>11. Readable(w) /\ Decoded(w) = text
    <3>1. CASE vocab.bos = 0
      <4>1. w = e
        BY <2>1, <2>10, <3>1 DEF Opening
      <4>. QED
        BY <2>6, <4>1 DEF e
    <3>2. CASE vocab.bos # 0
      <4>1. vocab.bos \in Nat /\ Special(vocab.bos)
        BY <2>9, <3>2
      <4>2. w = <<vocab.bos>> \o e
        BY <2>1, <3>2 DEF Opening
      <4>3. Readable(<<vocab.bos>> \o e) /\ Decoded(<<vocab.bos>> \o e) = Decoded(e)
        BY <2>6, <4>1, DecodedBefore DEF e
      <4>. QED
        BY <2>6, <4>2, <4>3 DEF e
    <3>. QED
      BY <3>1, <3>2
  <2> HIDE DEF w
  <2>12. Decoded(w \o closing) = text
    <3>1. CASE vocab.eos = 0
      <4>1. w \in Seq(Nat)
        BY <2>11 DEF Readable
      <4>2. w \o <<>> = w
        BY <4>1
      <4>. QED
        BY <2>11, <3>1, <4>2
    <3>2. CASE vocab.eos # 0
      <4>1. vocab.eos \in Nat /\ Special(vocab.eos)
        BY <2>9, <3>2
      <4>2. Decoded(w \o <<vocab.eos>>) = Decoded(w)
        BY <2>11, <4>1, DecodedAfter
      <4>. QED
        BY <2>11, <3>2, <4>2
    <3>. QED
      BY <3>1, <3>2
  <2> HIDE DEF closing
  <2>13. Decoded(out)' = Decoded(w \o closing)
    BY <1>1, <2>8, DecodedStays
  <2>. QED
    BY <1>1, <2>8, <2>12, <2>13 DEF OnItsWay
<1>. QED
  BY <1>2, <1>3 DEF TripInv

\* decode() gives the text.
LEMMA TripDecode ==
  ASSUME TripInv, Decode
  PROVE  TripInv'
<1>1. vocab' = vocab /\ text' = text /\ phase = "encoded" /\ phase' = "decoded"
      /\ back' = Decoded(out)
  BY DEF Decode
<1>2. Tokens' = Tokens /\ (PlainCase' => PlainCase)
  BY <1>1, WordsStay DEF TripInv
<1>3. ASSUME PlainCase PROVE OnItsWay'
  BY <1>1, <1>3 DEF TripInv, OnItsWay
<1>. QED
  BY <1>2, <1>3 DEF TripInv

\* A step of another part changes nothing.
LEMMA TripRests ==
  ASSUME TripInv, UNCHANGED tvars
  PROVE  TripInv'
<1>1. UNCHANGED <<vocab, text, at, norm, syms, out, back, phase>>
  BY DEF tvars
<1>2. Tokens' = Tokens /\ (PlainCase' => PlainCase) /\ Opening' = Opening
  BY <1>1, WordsStay DEF TripInv
<1>3. Spelling(syms, norm) => Spelling(syms, norm)'
  BY <1>1, SpellingStays
<1>4. Normalise(text)' = Normalise(text)
  BY <1>1 DEF Normalise
<1>5. Decoded(out)' = Decoded(out)
  BY <1>1, DecodedStays
<1>. QED
  BY <1>1, <1>2, <1>3, <1>4, <1>5 DEF TripInv, OnItsWay

\* At first nothing but the opening token is there.
LEMMA TripStarts ==
  ASSUME Init
  PROVE  TripInv
<1>1. CASE TokenizerInit
  <2>1. vocab \in Vocabs /\ text \in Texts /\ phase = "scan" /\ at = 1 /\ out = Opening
    BY <1>1 DEF TokenizerInit, Opening
  <2>2. Tokens \in Seq(ToSet(Tokens))
    BY <2>1, TokenizerAssumption DEF Tokens
  <2>. QED
    BY <2>1, <2>2 DEF TripInv, OnItsWay
<1>2. CASE TokenizerRests
  <2>1. /\ Tokens = <<>> /\ vocab.bos = 0 /\ vocab.eos = 0
        /\ text = <<>> /\ back = <<>> /\ phase = "decoded"
    BY <1>2 DEF TokenizerRests, Tokens
  <2>2. <<>> \in Seq(ToSet(<<>>))
    OBVIOUS
  <2>3. Tokens \in Seq(ToSet(Tokens))
    BY <2>1, <2>2
  <2>. QED
    BY <2>1, <2>3 DEF TripInv, OnItsWay
<1>. QED
  BY <1>1, <1>2 DEF Init

\* How far a text of whole characters has come: its symbols spell it until they
\* are emitted, its tokens are its text from then on.
THEOREM TripInductive == Spec => []TripInv
<1>1. Init => TripInv
  BY TripStarts
<1>2. TokenizerInv /\ TripInv /\ [Next]_avars => TripInv'
  <2>. SUFFICES ASSUME TokenizerInv, TripInv, [Next]_avars PROVE TripInv'
    OBVIOUS
  <2>1. CASE TokenizerNext
    BY <2>1, TripScan, TripPop, TripEmit, TripDecode DEF TokenizerNext
  <2>2. CASE UNCHANGED tvars
    BY <2>2, TripRests
  <2>. QED
    BY <2>1, <2>2 DEF Next, avars, tvars
<1>. QED
  BY <1>1, <1>2, TokenizerInductive, PTL DEF Spec

\* Nothing of a text of whole characters is lost, with any vocabulary that has
\* the marker and a token for each of its bytes: decode gives back what encode
\* was given (Tokenizer::encode, Tokenizer::decode).
THEOREM EveryTextReturns == Spec => []RoundTrips
<1>1. TripInv => RoundTrips
  BY DEF TripInv, OnItsWay, PlainCase, RoundTrips
<1>. QED
  BY <1>1, TripInductive, PTL
=============================================================================
