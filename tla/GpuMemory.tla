------------------------------ MODULE GpuMemory ------------------------------
(***************************************************************************)
(* Visibility of one buffer's memory, as Vulkan defines it, reduced to what *)
(* buffer.cpp and launch.cpp order: a write is seen by an agent only after  *)
(* something made it visible there, and an access may overtake another one  *)
(* unless something orders the two.                                         *)
(*                                                                         *)
(* Agents: compute shaders, transfer copies, the CPU, and "mem", the host's *)
(* side of memory behind the CPU's cache.                                   *)
(***************************************************************************)
EXTENDS FiniteSets

Device == {"shader", "copy"}
Agents == Device \cup {"mem", "cpu"}

\* by wrote last; seen are who sees that; over are the pairs <<a, b>> such that a
\* read of a may still be overtaken by a write of b.
Memory == [by : Agents, seen : SUBSET Agents, over : SUBSET (Device \X Device)]

Fresh == [by |-> "cpu", seen |-> Agents, over |-> {}]

CanRead(m, a)  == a \in m.seen
CanWrite(m, a) == a \in m.seen /\ \A b \in Device : <<b, a>> \notin m.over

Read(m, a)  == [m EXCEPT !.over = @ \cup ({a} \X Device)]
Write(m, a) == [by |-> a, seen |-> {}, over |-> {}]

\* vkCmdPipelineBarrier: what src wrote, or had been shown, is shown to dst; what
\* src read is not overtaken by dst.
Barrier(m, src, dst) ==
  [m EXCEPT !.seen = IF m.by \in src \/ @ \cap src # {} THEN @ \cup dst ELSE @,
            !.over = @ \ (src \X dst)]

\* A fence that was waited for: everything before it is over.  A copy's result is
\* taken to be in memory and for later copies to see; a shader's is where the
\* barriers recorded behind it brought it.
Waited(m) ==
  [m EXCEPT !.over = {}, !.seen = IF m.by = "copy" THEN @ \cup {"mem", "copy"} ELSE @]

\* vkQueueSubmit: the device sees what the host has in memory.
Submitted(m) == IF m.by = "cpu" /\ "mem" \in m.seen THEN [m EXCEPT !.seen = @ \cup Device] ELSE m

\* The CPU writes through a mapping; coherent memory needs no flush.
CpuWrite(m, coherent) == [Write(m, "cpu") EXCEPT !.seen = IF coherent THEN {"cpu", "mem"} ELSE {"cpu"}]
Flushed(m)            == [m EXCEPT !.seen = IF m.by = "cpu" THEN @ \cup {"mem"} ELSE @]

\* vkInvalidate: the CPU's cache is refreshed from memory.
Invalidated(m) == [m EXCEPT !.seen = IF "mem" \in @ THEN @ \cup {"cpu"} ELSE @ \ {"cpu"}]

\* Does the CPU read the newest value?  Coherent memory has no stale lines.
CpuReads(m, coherent) == IF coherent THEN "mem" \in m.seen ELSE "cpu" \in m.seen
=============================================================================
