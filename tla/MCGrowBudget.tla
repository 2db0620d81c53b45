---------------------------- MODULE MCGrowBudget ----------------------------
EXTENDS GrowBudget, TLC

CONSTANTS j1, j2

Call(inputs, cpu, ram) ==
    [inputs |-> inputs, cpu |-> cpu, ram |-> ram, gpu |-> FALSE, grow |-> TRUE]
GpuCall(inputs) == [Call(inputs, 1, 4) EXCEPT !.gpu = TRUE]
Fixed(call) == [call EXCEPT !.grow = FALSE]
Gpu(gpus) == [cpus |-> 2 * gpus, ram |-> 16 * gpus, gpus |-> gpus]
Wide == [cpus |-> 4, ram |-> 32, gpus |-> 0]

Mix(cap, gpus, configured, warm, calls, events) ==
    [maxVcpus |-> cap, maxGpus |-> gpus, configured |-> configured, gpuType |-> Gpu(2),
     warm |-> warm, calls |-> [j \in Jobs |-> IF j = j1 THEN calls[1] ELSE calls[2]],
     lost |-> events[1], deaths |-> events[2], losses |-> events[3]]

(* Two jobs for one warm node, by caps and calls that do and do not divide the
   sizes, and by memory that takes more vCPUs than the call asks for. *)
Both == {<<Call(3, 2, 4), Call(2, 1, 8)>>, <<Call(5, 1, 4), Fixed(Call(2, 1, 4))>>,
         <<Call(7, 1, 4), Call(1, 2, 4)>>, <<Call(2, 4, 4), Call(2, 3, 4)>>}
Two == {Mix(cap, 0, Packed(2), {1}, calls, <<0, 1, 0>>) : cap \in {5, 8, 12}, calls \in Both}
       \cup {Mix(cap, 0, Wide, {1}, <<Call(5, 1, 4), Call(3, 2, 4)>>, <<0, 0, 0>>) : cap \in {9, 16}}
       \cup {Mix(8, gpus, Packed(2), {}, <<GpuCall(3), Call(2, 1, 4)>>, <<0, 1, 0>>) : gpus \in {3, 4}}
(* One job whose nodes shed, twice, and may not hear an answer. *)
Sheds == {Mix(cap, 0, Packed(2), {}, <<call, Fixed(Call(1, 1, 4))>>, <<1, 0, 2>>) :
             cap \in {5, 8, 12}, call \in {Call(3, 2, 4), Call(6, 1, 4), Call(4, 1, 8)}}
         \cup {Mix(16, 0, Wide, {}, <<Call(5, 1, 4), Fixed(Call(1, 1, 4))>>, <<1, 0, 2>>)}
All == Two \cup Sheds

(* Two calls that start at once where the cap holds one. *)
Race == {Mix(4, 0, Packed(2), {}, <<Call(4, 1, 4), Call(4, 1, 4)>>, <<0, 0, 0>>)}
=============================================================================
