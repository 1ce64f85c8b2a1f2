----------------------------- MODULE AccountStore ---------------------------
(* The files an account leaves behind: accounts_all.txt, tokens.txt and      *)
(* full/<email>.json, written by the worker that registered it ("main") and  *)
(* by its OAuth thread ("mint"), with _io_lock around some of the steps and  *)
(* a process that may be killed between any two of them.                     *)
EXTENDS Naturals, Sequences, SequencesExt, FiniteSets

CONSTANTS Accounts,
          MaxKills       \* model bound on forced exits and restarts

ASSUME KillsAssumption == MaxKills \in Nat

Threads == Accounts \X {"main", "mint"}
Nobody  == <<"nobody", "nobody">>

VARIABLES async,     \* cpa_mint_async
          trouble,   \* what may go wrong: reads and writes raise, or a kill
          place,     \* where each thread is
          owner,     \* the thread inside _io_lock
          accounts,  \* the lines of accounts_all.txt
          tokens,    \* the lines of tokens.txt
          full,      \* what full/<email>.json holds: {} no file or torn
          auth,      \* whether auths/xai-<email>.json exists
          lines,     \* local: the lines a thread is about to write
          record,    \* local: the record a thread is about to write
          kills,
          overlap    \* history: both threads were between read and write

given == <<async, trouble>>
vars == <<given, place, owner, accounts, tokens, full, auth, lines, record, kills, overlap>>

DiskErrors == trouble = "disk"

Fields == {"secrets", "tokens"}
Places == {"idle", "mint", "replace", "accounts", "acc_write", "sso", "tok_write",
           "collect", "merge", "full", "full_write", "done", "killed"}

FlagsOK ==
    /\ async \in BOOLEAN
    /\ auth \in [Accounts -> BOOLEAN] /\ overlap \in [Accounts -> BOOLEAN]

PlaceOK ==
    /\ trouble \in {"none", "disk", "kill"}
    /\ place \in [Threads -> Places]
    /\ owner \in Threads \union {Nobody}
    /\ kills \in 0..MaxKills

FilesOK ==
    /\ accounts \in Seq(Accounts) /\ tokens \in Seq(Accounts)
    /\ full \in [Accounts -> SUBSET Fields]
    /\ lines \in [Threads -> Seq(Accounts)]
    /\ record \in [Threads -> SUBSET Fields]

TypeOK == FlagsOK /\ PlaceOK /\ FilesOK

Init ==
    /\ async \in BOOLEAN /\ trouble \in {"none", "disk", "kill"}
    /\ place = [t \in Threads |-> "idle"]
    /\ owner = Nobody
    /\ accounts = <<>> /\ tokens = <<>>
    /\ full = [a \in Accounts |-> {}]
    /\ auth = [a \in Accounts |-> FALSE]
    /\ lines = [t \in Threads |-> <<>>]
    /\ record = [t \in Threads |-> {}]
    /\ kills = 0
    /\ overlap = [a \in Accounts |-> FALSE]

GoTo(t, p) == place' = [place EXCEPT ![t] = p]

(* The account has its sso: the mint is handed to a thread, or done first.   *)
Start(a) ==
    /\ place[<<a, "main">>] = "idle"
    /\ place' = IF async
                THEN [place EXCEPT ![<<a, "main">>] = "accounts", ![<<a, "mint">>] = "mint"]
                ELSE [place EXCEPT ![<<a, "main">>] = "mint"]
    /\ UNCHANGED <<given, owner, accounts, tokens, full, auth, lines, record, kills, overlap>>

(* Mutant: the thread of the mint is not told what is next.                  *)
AfterMintLost(t) == "lost"

AfterMint(t) == IF t[2] = "main" THEN "accounts" ELSE "collect"

(* export_cpa_xai_for_account: the mint fails, or its temporary file is      *)
(* written and then renamed over the auth file.                              *)
Mint(t) ==
    /\ place[t] = "mint"
    /\ GoTo(t, "replace") \/ GoTo(t, AfterMint(t))
    /\ UNCHANGED <<given, owner, accounts, tokens, full, auth, lines, record, kills, overlap>>

Replace(t) ==
    /\ place[t] = "replace"
    /\ auth' = [auth EXCEPT ![t[1]] = TRUE]
    /\ GoTo(t, AfterMint(t))
    /\ UNCHANGED <<given, owner, accounts, tokens, full, lines, record, kills, overlap>>

Acquire(t) == owner = Nobody /\ owner' = t
Release == owner' = Nobody

(* What a read returns: the file, or nothing when it raises.                 *)
Read(file) == {file} \union (IF DiskErrors THEN {<<>>} ELSE {})

(* The same email keeps its line, a new one gets the last line.              *)
Upsert(old, a) == IF a \in ToSet(old) THEN old ELSE Append(old, a)

(* _upsert_accounts_all_line: under the lock the file is read, then opened   *)
(* for writing, which empties it, then written and closed.                   *)
(* Mutant: the lock covers the write only.                                   *)
OpenAccountsUnlocked(t) ==
    /\ place[t] = "accounts"
    /\ \E old \in Read(accounts) : lines' = [lines EXCEPT ![t] = Upsert(old, t[1])]
    /\ accounts' = <<>>
    /\ GoTo(t, "acc_write")
    /\ UNCHANGED <<given, owner, tokens, full, auth, record, kills, overlap>>

OpenAccounts(t) ==
    /\ place[t] = "accounts"
    /\ Acquire(t)
    /\ \E old \in Read(accounts) : lines' = [lines EXCEPT ![t] = Upsert(old, t[1])]
    /\ accounts' = <<>>
    /\ GoTo(t, "acc_write")
    /\ UNCHANGED <<given, tokens, full, auth, record, kills, overlap>>

(* A write that raises leaves a prefix; save_account_bundle goes on.         *)
WriteAccounts(t) ==
    /\ place[t] = "acc_write"
    /\ \/ accounts' = lines[t]
       \/ DiskErrors /\ accounts' \in Prefixes(lines[t])
    /\ lines' = [lines EXCEPT ![t] = <<>>]
    /\ Release
    /\ GoTo(t, "sso")
    /\ UNCHANGED <<given, tokens, full, auth, record, kills, overlap>>

(* _upsert_token_line: the token is looked for, and appended when missing.   *)
(* Mutant: the look-up is not under the lock.                                *)
FindTokenUnlocked(t) ==
    /\ place[t] = "sso"
    /\ \E old \in Read(tokens) :
           IF t[1] \in ToSet(old)
           THEN GoTo(t, "collect")
           ELSE GoTo(t, "tok_write")
    /\ UNCHANGED <<given, owner, accounts, tokens, full, auth, lines, record, kills, overlap>>

FindToken(t) ==
    /\ place[t] = "sso"
    /\ \E old \in Read(tokens) :
           IF t[1] \in ToSet(old)
           THEN owner = Nobody /\ UNCHANGED owner /\ GoTo(t, "collect")
           ELSE Acquire(t) /\ GoTo(t, "tok_write")
    /\ UNCHANGED <<given, accounts, tokens, full, auth, lines, record, kills, overlap>>

(* Mutant: the file is opened for writing.                                   *)
AppendTokenOver(t) ==
    /\ place[t] = "tok_write"
    /\ tokens' = <<t[1]>>
    /\ Release
    /\ GoTo(t, "collect")
    /\ UNCHANGED <<given, accounts, full, auth, lines, record, kills, overlap>>

AppendToken(t) ==
    /\ place[t] = "tok_write"
    /\ \/ tokens' = Append(tokens, t[1])
       \/ DiskErrors /\ UNCHANGED tokens
    /\ Release
    /\ GoTo(t, "collect")
    /\ UNCHANGED <<given, accounts, full, auth, lines, record, kills, overlap>>

Other(t) == <<t[1], IF t[2] = "main" THEN "mint" ELSE "main">>
Busy(t) == place[t] \in {"merge", "full", "full_write"}

(* Mutant: the auth file is not looked at.                                   *)
CollectBare(t) ==
    /\ place[t] = "collect"
    /\ record' = [record EXCEPT ![t] = {"secrets"}]
    /\ overlap' = [overlap EXCEPT ![t[1]] = @ \/ Busy(Other(t))]
    /\ GoTo(t, "merge")
    /\ UNCHANGED <<given, owner, accounts, tokens, full, auth, lines, kills>>

(* The new record: password and sso, and the tokens of the auth file if it   *)
(* is there by now.                                                          *)
Collect(t) ==
    /\ place[t] = "collect"
    /\ record' = [record EXCEPT ![t] = {"secrets"} \union
                                       (IF auth[t[1]] THEN {"tokens"} ELSE {})]
    /\ overlap' = [overlap EXCEPT ![t[1]] = @ \/ Busy(Other(t))]
    /\ GoTo(t, "merge")
    /\ UNCHANGED <<given, owner, accounts, tokens, full, auth, lines, kills>>

(* Mutant: the tokens of the auth file replace the record.                   *)
MergeReplace(t) ==
    /\ place[t] = "merge"
    /\ record' = [record EXCEPT ![t] = IF t[2] = "mint" /\ auth[t[1]] THEN {"tokens"} ELSE @]
    /\ GoTo(t, "full")
    /\ UNCHANGED <<given, owner, accounts, tokens, full, auth, lines, kills, overlap>>

(* The old record is merged in, without the lock; a torn or missing file     *)
(* gives nothing.                                                            *)
Merge(t) ==
    /\ place[t] = "merge"
    /\ record' = [record EXCEPT ![t] = @ \union full[t[1]]]
    /\ GoTo(t, "full")
    /\ UNCHANGED <<given, owner, accounts, tokens, full, auth, lines, kills, overlap>>

(* open(full_path, "w") under the lock empties the file ...                  *)
OpenFull(t) ==
    /\ place[t] = "full"
    /\ Acquire(t)
    /\ full' = [full EXCEPT ![t[1]] = {}]
    /\ GoTo(t, "full_write")
    /\ UNCHANGED <<given, accounts, tokens, auth, lines, record, kills, overlap>>

(* ... and json.dump fills it.                                               *)
(* Mutant: the lock is kept when the write raises.                           *)
WriteFullKept(t) ==
    /\ place[t] = "full_write"
    /\ \/ full' = [full EXCEPT ![t[1]] = record[t]] /\ Release
       \/ DiskErrors /\ UNCHANGED <<full, owner>>
    /\ record' = [record EXCEPT ![t] = {}]
    /\ GoTo(t, "done")
    /\ UNCHANGED <<given, accounts, tokens, auth, lines, kills, overlap>>

WriteFull(t) ==
    /\ place[t] = "full_write"
    /\ \/ full' = [full EXCEPT ![t[1]] = record[t]]
       \/ DiskErrors /\ UNCHANGED full
    /\ record' = [record EXCEPT ![t] = {}]
    /\ Release
    /\ GoTo(t, "done")
    /\ UNCHANGED <<given, accounts, tokens, auth, lines, kills, overlap>>

(* os._exit, and a process started again: the threads are gone, the files    *)
(* stay as they are, a file being written keeps what was flushed.            *)
Kill ==
    /\ trouble = "kill" /\ kills < MaxKills
    /\ kills' = kills + 1
    /\ place' = [t \in Threads |-> IF place[t] \in {"idle", "done"} THEN place[t]
                                   ELSE "killed"]
    /\ owner' = Nobody
    /\ \/ UNCHANGED accounts
       \/ \E t \in Threads : place[t] = "acc_write" /\ accounts' \in Prefixes(lines[t])
    /\ \/ UNCHANGED tokens
       \/ \E t \in Threads : place[t] = "tok_write" /\ tokens' = Append(tokens, t[1])
    /\ lines' = [t \in Threads |-> <<>>]
    /\ record' = [t \in Threads |-> {}]
    /\ UNCHANGED <<given, full, auth, overlap>>

Step(t) == \/ Mint(t) \/ Replace(t)
           \/ OpenAccounts(t) \/ WriteAccounts(t)
           \/ FindToken(t) \/ AppendToken(t)
           \/ Collect(t) \/ Merge(t) \/ OpenFull(t) \/ WriteFull(t)

Next == Kill \/ (\E a \in Accounts : Start(a)) \/ \E t \in Threads : Step(t)

Spec == Init /\ [][Next]_vars
FairSpec == Spec /\ \A t \in Threads : WF_vars(Step(t))
-----------------------------------------------------------------------------
Settled(t) == place[t] \in {"done", "killed"}

(* The lines a reader of accounts_all.txt can count on: while a thread is    *)
(* inside the lock rewriting it, what the file held before, all but the last *)
(* of the lines it is about to write.                                        *)
Rewriting == owner # Nobody /\ place[owner] = "acc_write"
Book == IF Rewriting THEN Front(lines[owner]) ELSE accounts

(* Where no write fails and nobody kills the process, the account file only  *)
(* gains lines, one per account, each after the lines that were there,       *)
(* however many workers rewrite it.                                          *)
Abstract == INSTANCE AccountBook WITH book <- IF trouble = "none" THEN Book ELSE <<>>
OneLinePerAccount == Abstract!Spec

(* Every account whose worker went past tokens.txt is in it, once, also      *)
(* after a restart, as long as no write fails.                               *)
Past(t, places) == t[2] = "main" /\ place[t] \in places
AfterTokens == {"collect", "merge", "full", "full_write", "done"}
Times(s, a) == Cardinality({n \in DOMAIN s : s[n] = a})

TokenOnce ==
    trouble # "disk" => \A t \in Threads : Past(t, AfterTokens) => Times(tokens, t[1]) = 1

(* Two threads of one account lose the OAuth tokens in the full record only  *)
(* if they were both between reading and writing it.                         *)
TokensLostByOverlapOnly ==
    trouble # "disk" => \A a \in Accounts :
        (auth[a] /\ ~overlap[a] /\ place[<<a, "main">>] = "done"
                 /\ (async => place[<<a, "mint">>] = "done"))
            => "tokens" \in full[a]

(* The record of a registered account always ends with its password and sso, *)
(* unless a write failed or was cut short.                                   *)
SecretsKept ==
    trouble = "none" => \A a \in Accounts :
        (place[<<a, "main">>] = "done" /\ ~Busy(<<a, "mint">>)) => "secrets" \in full[a]

(* What is on disk of an account that was saved, in tokens.txt and in its    *)
(* full record, whatever other threads write and whenever a run is killed.   *)
SavedAccountsKept == TypeOK /\ TokenOnce /\ SecretsKept

(* No thread waits for _io_lock for ever: every one that starts comes to its *)
(* end, for good.                                                            *)
SavesEnd == <>[](\A t \in Threads : place[t] = "idle" \/ Settled(t))
=============================================================================
