---------------------------- MODULE TokenPools -----------------------------
(* add_token_to_grok2api_pools: a worker adds the sso token of its account   *)
(* to the local pool, a JSON file under _io_lock, and to a remote pool, by   *)
(* its add request or, when that fails, by reading the whole pool and        *)
(* posting it back. Errors are swallowed. Each adder has one token.          *)
EXTENDS Naturals

CONSTANTS Adders         \* accounts of this worker and of others, and so their tokens

VARIABLES local,       \* tokens in the local file; none where it holds no JSON
          remote,      \* tokens in the remote pool
          step,        \* how far each adder is
          current,     \* the pool as the adder read it, until it has written it back
          unread,      \* history: a read of a file with tokens failed
          cut,         \* history: a write over a file with tokens broke off
          put,         \* history: adders whose token was written to the file
          fellBack     \* history: adders that used the whole-map requests

poolVars == <<local, remote, step, current, unread, cut, put, fellBack>>

PoolTypeOK ==
    /\ unread \in BOOLEAN /\ cut \in BOOLEAN
    /\ local \subseteq Adders /\ remote \subseteq Adders
    /\ put \subseteq Adders /\ fellBack \subseteq Adders
    /\ step \in [Adders -> {"off", "local", "write", "add", "read", "save", "added", "failed"}]
    /\ current \in [Adders -> SUBSET Adders]

PoolInit ==
    /\ local = {} /\ remote = {}
    /\ step = [a \in Adders |-> "off"]
    /\ current = [a \in Adders |-> {}]
    /\ unread = FALSE /\ cut = FALSE /\ put = {} /\ fellBack = {}

StepTo(a, s) == step' = [step EXCEPT ![a] = s]

(* _io_lock: held from the read of the local file to its write.              *)
LocalFree == \A a \in Adders : step[a] # "write"

(* Mutant: the file is read before the lock is taken.                        *)
ReadLocalUnlocked(a) ==
    /\ step[a] = "local"
    /\ \/ StepTo(a, "add") /\ UNCHANGED <<current, unread>>
       \/ /\ StepTo(a, "write")
          /\ \/ current' = [current EXCEPT ![a] = local] /\ UNCHANGED unread
             \/ local # {} /\ current' = [current EXCEPT ![a] = {}] /\ unread' = TRUE
    /\ UNCHANGED <<local, remote, cut, put, fellBack>>

(* The local pool is read, unless its directory cannot be made: then nothing *)
(* is added. A file that is damaged or cannot be read is an empty pool.      *)
ReadLocal(a) ==
    /\ step[a] = "local"
    /\ \/ StepTo(a, "add") /\ UNCHANGED <<current, unread>>
       \/ /\ LocalFree /\ StepTo(a, "write")
          /\ \/ current' = [current EXCEPT ![a] = local] /\ UNCHANGED unread
             \/ local # {} /\ current' = [current EXCEPT ![a] = {}] /\ unread' = TRUE
    /\ UNCHANGED <<local, remote, cut, put, fellBack>>

(* It is written with the token, unless that was there; the file may not     *)
(* open, and is then left as it is, or the write breaks off half way and     *)
(* leaves no JSON.                                                           *)
WriteLocal(a) ==
    /\ step[a] = "write" /\ StepTo(a, "add")
    /\ current' = [current EXCEPT ![a] = {}]
    /\ \/ local' = current[a] \union {a} /\ put' = put \union {a} /\ UNCHANGED cut
       \/ a \notin current[a] /\ UNCHANGED <<local, put, cut>>
       \/ a \notin current[a] /\ local' = {} /\ cut' = (cut \/ local # {}) /\ UNCHANGED put
    /\ UNCHANGED <<remote, unread, fellBack>>

(* Mutant: the whole map is posted although the add request has succeeded.   *)
AddRemoteToo(a) ==
    /\ step[a] = "add"
    /\ \/ remote' = remote \union {a} /\ StepTo(a, "read")
       \/ StepTo(a, "read") /\ UNCHANGED remote
    /\ UNCHANGED <<local, current, unread, cut, put, fellBack>>

(* POST /tokens/add on each base: done with the first that succeeds; a lost  *)
(* answer is a failure.                                                      *)
AddRemote(a) ==
    /\ step[a] = "add"
    /\ \/ remote' = remote \union {a} /\ StepTo(a, "added") /\ UNCHANGED fellBack
       \/ /\ remote' \in {remote, remote \union {a}}
          /\ StepTo(a, "read") /\ fellBack' = fellBack \union {a}
    /\ UNCHANGED <<local, current, unread, cut, put>>

(* GET /tokens: no answer counts as an empty pool.                           *)
ReadRemote(a) ==
    /\ step[a] = "read"
    /\ \E answer \in {remote, {}} : current' = [current EXCEPT ![a] = answer]
    /\ StepTo(a, "save")
    /\ UNCHANGED <<local, remote, unread, cut, put, fellBack>>

(* POST /tokens replaces the pool by the map as it was read, with the token. *)
SaveRemote(a) ==
    /\ step[a] = "save"
    /\ current' = [current EXCEPT ![a] = {}]
    /\ \/ remote' = current[a] \union {a} /\ step' \in
             {[step EXCEPT ![a] = s] : s \in {"added", "failed"}}
       \/ StepTo(a, "failed") /\ UNCHANGED remote
    /\ UNCHANGED <<local, unread, cut, put, fellBack>>

Adds(a) == ReadLocal(a) \/ WriteLocal(a) \/ AddRemote(a) \/ ReadRemote(a) \/ SaveRemote(a)
-----------------------------------------------------------------------------
(* "优先使用 add 接口，避免全量覆盖远端池" (add first, lest the remote pool be      *)
(* overwritten): a token whose addition was reported is missing from the     *)
(* remote pool only if another adder fell back to the whole map, and from    *)
(* the local pool only if a file with tokens could once not be read, or a    *)
(* write over one broke off.                                                 *)
TokensLostExplained ==
    \A a \in Adders :
        /\ step[a] = "added" /\ a \notin remote => fellBack \ {a} # {}
        /\ a \in put /\ a \notin local => unread \/ cut
=============================================================================
