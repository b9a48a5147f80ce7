------------------------------ MODULE WasmCall ------------------------------
(***************************************************************************)
(* wasmPlugin.OnConnect (internal/plugins/wasm_plugin.go), called by the   *)
(* handlers of several streams.  They share one instance of the module and *)
(* its linear memory, and OnConnect takes no lock: it allocates a buffer   *)
(* in the module, writes the request there, calls on_connect, and then     *)
(* reads the response from where on_connect says it is.                    *)
(*                                                                         *)
(* A call of an exported function is one step, as if the runtime took care *)
(* of calls that overlap.  The module itself is external: it may put a     *)
(* response into a buffer of its own or into a new one.                    *)
(***************************************************************************)
EXTENDS Naturals

CONSTANTS
    Call,       \* calls of OnConnect, each with a request of its own
    Reuses,     \* the module has one buffer for its responses
    MaxBuffers, \* buffers that fit into the module's memory
    Nothing     \* no contents, no answer

Static == 0
Reply(request) == [to |-> request]

VARIABLES
    pc,         \* per call: alloc, write, call, read, done
    ptr,        \* per call: the buffer of its request
    out,        \* per call: the buffer of the response
    answer,     \* per call: the response it read; Nothing is an error
    memory,     \* contents of the module's buffers
    used        \* buffers allocated; none is ever released

vars == <<pc, ptr, out, answer, memory, used>>

Init ==
    /\ pc = [c \in Call |-> "alloc"]
    /\ ptr = [c \in Call |-> Static] /\ out = [c \in Call |-> Static]
    /\ answer = [c \in Call |-> Nothing]
    /\ memory = [b \in 0 .. MaxBuffers |-> Nothing]
    /\ used = 0

Goto(c, from, to) == pc[c] = from /\ pc' = [pc EXCEPT ![c] = to]

Alloc(c) ==
    /\ used < MaxBuffers
    /\ Goto(c, "alloc", "write")
    /\ used' = used + 1
    /\ ptr' = [ptr EXCEPT ![c] = used']
    /\ UNCHANGED <<out, answer, memory>>

\* The module has no memory left and traps, in alloc or for its response.
AllocFails(c) ==
    /\ used = MaxBuffers
    /\ Goto(c, "alloc", "done") \/ (~Reuses /\ Goto(c, "call", "done"))
    /\ UNCHANGED <<ptr, out, answer, memory, used>>

Write(c) ==
    /\ Goto(c, "write", "call")
    /\ memory' = [memory EXCEPT ![ptr[c]] = c]
    /\ UNCHANGED <<ptr, out, answer, used>>

\* The module reads the request and stores its response.
OnConnect(c) ==
    /\ Reuses \/ used < MaxBuffers
    /\ Goto(c, "call", "read")
    /\ used' = IF Reuses THEN used ELSE used + 1
    /\ out' = [out EXCEPT ![c] = IF Reuses THEN Static ELSE used']
    /\ memory' = [memory EXCEPT ![out'[c]] = Reply(memory[ptr[c]])]
    /\ UNCHANGED <<ptr, answer>>

Read(c) ==
    /\ Goto(c, "read", "done")
    /\ answer' = [answer EXCEPT ![c] = memory[out[c]]]
    /\ UNCHANGED <<ptr, out, memory, used>>

Next ==
    \E c \in Call : Alloc(c) \/ AllocFails(c) \/ Write(c) \/ OnConnect(c) \/ Read(c)

Spec == Init /\ [][Next]_vars

-----------------------------------------------------------------------------
\* What OnConnect returns for a client is the module's response to that client's
\* request, not to one that another stream made meanwhile.
AnswerIsOwn == \A c \in Call : answer[c] \in {Nothing, Reply(c)}
=============================================================================
