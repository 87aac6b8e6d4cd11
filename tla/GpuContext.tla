---------------------------- MODULE GpuContext ----------------------------
(***************************************************************************)
(* CUDA contexts of a guest process: cxl_gpu_context_state.c, whose        *)
(* operations are atomic (one mutex), and the calls of libcuda.c that use  *)
(* it.  cuCtxCreate, cuDevicePrimaryCtxRetain and cuCtxDestroy check the   *)
(* state, run a device command and commit its outcome; the mutex is free   *)
(* in between.  The device is external: a CTX_CREATE fails or issues a new *)
(* token.  Tokens are numbers; 0 is no context.                            *)
(***************************************************************************)
EXTENDS Naturals

CONSTANTS
  CudaThreads,      \* the threads of the process
  MaxDepth,         \* UINT32_MAX
  MaxTokens,        \* bound of the model: tokens the device issues
  MaxRetains        \* bound of the model: successful retains

ASSUME ContextAssumption ==
  /\ MaxDepth \in Nat \ {0} /\ MaxTokens \in Nat /\ MaxRetains \in Nat

VARIABLES
  mode, token, primary_retain_count,   \* g_state
  depth,            \* depth[t]: g_current_depth
  xpc,              \* xpc[t]: which call t is in, after its check
  ctx,              \* ctx[t]: the token the call works on
  issued,           \* tokens the device has issued
  \* history, not in the code:
  retained, released,                  \* successful retains and releases
  lost,             \* issued tokens whose commit was refused
  overlapped        \* two creating calls were under way at once

ctxVars == <<mode, token, primary_retain_count, depth, xpc, ctx, issued, retained, released, lost, overlapped>>

Live == {"ORDINARY_LIVE", "PRIMARY_LIVE"}
Dead == {"ORDINARY_DESTROYED", "PRIMARY_INACTIVE"}
Modes == {"EMPTY"} \cup Live \cup Dead
Creating == {"create", "retain"}
CallLabels == {"idle", "destroy", "destroyed", "use", "created", "retaken"} \cup Creating

ContextInit ==
  /\ mode = "EMPTY" /\ token = 0 /\ primary_retain_count = 0
  /\ depth = [t \in CudaThreads |-> 0]
  /\ xpc = [t \in CudaThreads |-> "idle"] /\ ctx = [t \in CudaThreads |-> 0]
  /\ issued = 0 /\ retained = 0 /\ released = 0 /\ lost = {} /\ overlapped = FALSE

token_is_live(k) == k # 0 /\ k = token /\ mode \in Live

\* A call that goes no further than its check changes nothing.
Enter(t, call, k) ==
  /\ xpc' = [xpc EXCEPT ![t] = call] /\ ctx' = [ctx EXCEPT ![t] = k]
  /\ UNCHANGED <<mode, token, depth, issued, released, lost>>
Leave(t) == xpc' = [xpc EXCEPT ![t] = "idle"] /\ ctx' = [ctx EXCEPT ![t] = 0]
StartsCreating(t) ==
  overlapped' = (overlapped \/ \E u \in CudaThreads : xpc[u] \in {"create", "retain", "created", "retaken"})
---------------------------------------------------------------------------
(* cuCtxCreate_v2 and cuDevicePrimaryCtxRetain                             *)

PrepareCreate(t) ==
  /\ xpc[t] = "idle" /\ mode = "EMPTY" /\ StartsCreating(t)
  /\ Enter(t, "create", 0) /\ UNCHANGED <<primary_retain_count, retained>>

PrepareRetain(t) ==     \* the context has to be created
  /\ xpc[t] = "idle" /\ mode = "EMPTY" /\ StartsCreating(t)
  /\ Enter(t, "retain", 0) /\ UNCHANGED <<primary_retain_count, retained>>

RetainLive(t) ==
  /\ xpc[t] = "idle" /\ mode = "PRIMARY_LIVE" /\ retained < MaxRetains
  /\ primary_retain_count' = primary_retain_count + 1 /\ retained' = retained + 1
  /\ UNCHANGED <<mode, token, depth, xpc, ctx, issued, released, lost, overlapped>>

DeviceCreate(t) ==
  /\ xpc[t] \in Creating
  /\ \/ Leave(t) /\ UNCHANGED issued
     \/ /\ issued < MaxTokens /\ issued' = issued + 1
        /\ ctx' = [ctx EXCEPT ![t] = issued']
        /\ xpc' = [xpc EXCEPT ![t] = IF @ = "create" THEN "created" ELSE "retaken"]
  /\ UNCHANGED <<mode, token, primary_retain_count, depth, retained, released, lost, overlapped>>

CommitCreate_Bug(t) ==
  /\ xpc[t] = "created" /\ Leave(t)
  /\ token' = ctx[t] /\ mode' = "ORDINARY_LIVE" /\ depth' = [depth EXCEPT ![t] = 1]
  /\ UNCHANGED <<primary_retain_count, issued, retained, released, lost, overlapped>>

\* Another call may have committed since the check: this one is then refused,
\* and its token stays with the device.
CommitCreate(t) ==
  /\ xpc[t] = "created" /\ Leave(t)
  /\ IF mode = "EMPTY"
       THEN /\ token' = ctx[t] /\ mode' = "ORDINARY_LIVE" /\ depth' = [depth EXCEPT ![t] = 1]
            /\ UNCHANGED lost
       ELSE lost' = lost \cup {ctx[t]} /\ UNCHANGED <<mode, token, depth>>
  /\ UNCHANGED <<primary_retain_count, issued, retained, released, overlapped>>

CommitRetain(t) ==
  /\ xpc[t] = "retaken" /\ Leave(t)
  /\ IF mode = "EMPTY"
       THEN /\ token' = ctx[t] /\ mode' = "PRIMARY_LIVE"
            /\ primary_retain_count' = 1 /\ retained' = retained + 1 /\ UNCHANGED lost
       ELSE lost' = lost \cup {ctx[t]} /\ UNCHANGED <<mode, token, primary_retain_count, retained>>
  /\ UNCHANGED <<depth, issued, released, overlapped>>

Release(t) ==           \* cuDevicePrimaryCtxRelease
  /\ xpc[t] = "idle" /\ mode = "PRIMARY_LIVE" /\ primary_retain_count # 0
  /\ primary_retain_count' = primary_retain_count - 1 /\ released' = released + 1
  /\ mode' = IF primary_retain_count = 1 THEN "PRIMARY_INACTIVE" ELSE mode
  /\ UNCHANGED <<token, depth, xpc, ctx, issued, retained, lost, overlapped>>
---------------------------------------------------------------------------
(* cuCtxDestroy_v2                                                         *)

PrepareDestroy(t) ==
  /\ xpc[t] = "idle" /\ token_is_live(token) /\ mode = "ORDINARY_LIVE"
  /\ Enter(t, "destroy", token) /\ UNCHANGED <<primary_retain_count, retained, overlapped>>

DeviceDestroy(t) ==
  /\ xpc[t] = "destroy"
  /\ Leave(t) \/ (xpc' = [xpc EXCEPT ![t] = "destroyed"] /\ UNCHANGED ctx)
  /\ UNCHANGED <<mode, token, primary_retain_count, depth, issued, retained, released, lost, overlapped>>

\* Only the destroying thread's stack loses its entry; others keep theirs.
CommitDestroy(t) ==
  /\ xpc[t] = "destroyed" /\ Leave(t)
  /\ IF token_is_live(ctx[t]) /\ mode = "ORDINARY_LIVE"
       THEN /\ mode' = "ORDINARY_DESTROYED"
            /\ depth' = [depth EXCEPT ![t] = IF @ > 0 THEN @ - 1 ELSE 0]
       ELSE UNCHANGED <<mode, depth>>
  /\ UNCHANGED <<token, primary_retain_count, issued, retained, released, lost, overlapped>>
---------------------------------------------------------------------------
(* cuCtxSetCurrent, cuCtxPushCurrent_v2, cuCtxPopCurrent_v2                *)

SetDepth(t, d) ==
  /\ xpc[t] = "idle" /\ depth' = [depth EXCEPT ![t] = d]
  /\ UNCHANGED <<mode, token, primary_retain_count, xpc, ctx, issued, retained, released, lost, overlapped>>

SetCurrent(t) == token_is_live(token) /\ depth[t] = 0 /\ SetDepth(t, 1)
PushCurrent(t) == token_is_live(token) /\ depth[t] < MaxDepth /\ SetDepth(t, depth[t] + 1)
PopCurrent(t) == depth[t] > 0 /\ SetDepth(t, depth[t] - 1)   \* and cuCtxSetCurrent(NULL)

\* cuMemGetInfo_v2: the token is read before the command lock is taken.
GetCurrentLive(t) ==
  /\ xpc[t] = "idle" /\ depth[t] > 0 /\ mode \notin Dead /\ token_is_live(token)
  /\ Enter(t, "use", token) /\ UNCHANGED <<primary_retain_count, retained, overlapped>>

UseToken(t) ==
  /\ xpc[t] = "use" /\ Leave(t)
  /\ UNCHANGED <<mode, token, primary_retain_count, depth, issued, retained, released, lost, overlapped>>

CudaCall(t) ==
  \/ PrepareCreate(t) \/ PrepareRetain(t) \/ RetainLive(t) \/ DeviceCreate(t)
  \/ CommitCreate(t) \/ CommitRetain(t) \/ Release(t)
  \/ PrepareDestroy(t) \/ DeviceDestroy(t) \/ CommitDestroy(t)
  \/ SetCurrent(t) \/ PushCurrent(t) \/ PopCurrent(t) \/ GetCurrentLive(t) \/ UseToken(t)
ContextNext == \E t \in CudaThreads : CudaCall(t)
ContextSpec == ContextInit /\ [][ContextNext]_ctxVars
---------------------------------------------------------------------------
\* Every variable has its type; a depth never wraps.
ContextTypeOK ==
  /\ mode \in Modes /\ token \in Nat /\ primary_retain_count \in Nat
  /\ depth \in [CudaThreads -> 0 .. MaxDepth] /\ xpc \in [CudaThreads -> CallLabels]
  /\ ctx \in [CudaThreads -> Nat] /\ issued \in Nat /\ retained \in Nat /\ released \in Nat
  /\ lost \in SUBSET Nat /\ overlapped \in BOOLEAN

\* "One QEMU-issued token exists per guest process. A thread stack only needs a
\* depth: every entry represents that same token": a thread with an entry, and
\* every call under way on the context, is about the one token the process has.
StackHasToken ==
  /\ mode = "EMPTY" <=> token = 0
  /\ \A t \in CudaThreads : depth[t] > 0 => token # 0
  /\ \A t \in CudaThreads : xpc[t] \in {"destroy", "destroyed", "use"} => ctx[t] = token /\ token # 0

\* The primary context is live exactly while retains outnumber releases, the
\* retains that raced through its creation included.
RetainsBalance ==
  /\ mode = "PRIMARY_LIVE" <=> primary_retain_count > 0
  /\ retained = released + primary_retain_count

\* A token of the device that the process does not know as its context, or is
\* about to commit, comes only from two creating calls that overlapped.
LostOnlyByOverlap ==
  /\ lost # {} => overlapped
  /\ \A k \in 1 .. issued : k = token \/ k \in lost
       \/ \E t \in CudaThreads : xpc[t] \in {"created", "retaken"} /\ ctx[t] = k

\* A process has one context in its life: no call brings back a destroyed or
\* released one, or exchanges the token under the threads that use it.
ContextNeverReplaced ==
  [][/\ token # 0 => token' = token
     /\ mode \in Dead => mode' = mode
     /\ mode # mode' /\ mode # "EMPTY" => mode' \in Dead]_ctxVars
===========================================================================
