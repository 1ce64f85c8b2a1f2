------------------------- MODULE AccountStoreProofs -------------------------
(* For any number of accounts and kills: what is on disk of an account that  *)
(* was saved, how the tokens of its full record can get lost, and that the   *)
(* rewrites of accounts_all.txt implement the AccountBook.                   *)
EXTENDS AccountStore, FiniteSetTheorems, TLAPS

USE KillsAssumption DEF KillsAssumption

(* The lock is held by the thread that is at one of the three writes, if any *)
(* is: it excludes them from one another and is never left behind.           *)
Rewrites == {"acc_write", "tok_write", "full_write"}
LockInv == \A t \in Threads : place[t] \in Rewrites <=> owner = t

(* Which thread does what.                                                   *)
WayInv ==
    \A a \in Accounts :
        /\ place[<<a, "mint">>] \notin {"accounts", "acc_write", "sso", "tok_write"}
        /\ place[<<a, "main">>] = "idle" => place[<<a, "mint">>] = "idle"
        /\ async => place[<<a, "main">>] \notin {"mint", "replace"}
        /\ ~async => place[<<a, "mint">>] = "idle"

(* No account is in tokens.txt twice, and one is missing while its thread is *)
(* about to append it.                                                       *)
LinesInv ==
    trouble # "disk" =>
        /\ \A i, j \in DOMAIN tokens : tokens[i] = tokens[j] => i = j
        /\ \A t \in Threads : place[t] = "tok_write" => t[1] \notin ToSet(tokens)
        /\ \A t \in Threads : Past(t, AfterTokens) => t[1] \in ToSet(tokens)

(* Records hold the secrets from the start, and so does what they are        *)
(* written to, but for the time of the writing.                              *)
SecretInv ==
    trouble = "none" =>
        /\ \A t \in Threads : Busy(t) => "secrets" \in record[t]
        /\ \A a \in Accounts :
               place[<<a, "main">>] = "done" /\ place[<<a, "mint">>] # "full_write" =>
                   "secrets" \in full[a]

(* Tokens that are there when the mint's thread is done (or, without one,    *)
(* from the start) are in the record of the worker that still has to write,  *)
(* and in the file.                                                          *)
Minted(a) == auth[a] /\ (async => place[<<a, "mint">>] = "done")

Merged(a) ==
    /\ Busy(<<a, "main">>) /\ Busy(<<a, "mint">>) => overlap[a]
    /\ Busy(<<a, "mint">>) /\ auth[a] => "tokens" \in record[<<a, "mint">>]
    /\ Busy(<<a, "main">>) /\ Minted(a) /\ ~overlap[a] => "tokens" \in record[<<a, "main">>]
    /\ /\ Minted(a) /\ ~overlap[a]
       /\ \/ place[<<a, "main">>] = "done"
          \/ async /\ place[<<a, "main">>] \notin {"full_write", "killed"}
       => "tokens" \in full[a]

MergedInv == trouble # "disk" => \A a \in Accounts : Merged(a)

IInv == FlagsOK /\ PlaceOK /\ FilesOK /\ LockInv /\ WayInv /\ LinesInv /\ SecretInv /\ MergedInv

LEMMA Pairs ==
    /\ \A a \in Accounts : <<a, "main">> \in Threads /\ <<a, "mint">> \in Threads
    /\ \A t \in Threads : t[1] \in Accounts /\ t \in {<<t[1], "main">>, <<t[1], "mint">>}
    /\ Nobody \notin Threads
  BY DEF Threads, Nobody

LEMMA InitInvariant == Init => IInv
  <1> SUFFICES ASSUME Init PROVE IInv
    OBVIOUS
  <1>1. FlagsOK /\ PlaceOK /\ FilesOK
    BY DEF Init, FlagsOK, PlaceOK, FilesOK, Places
  <1>2. LockInv /\ WayInv /\ SecretInv /\ MergedInv
    BY Pairs DEF Init, LockInv, Rewrites, WayInv, SecretInv, MergedInv, Merged, Minted, Busy
  <1>3. LinesInv
    BY DEF Init, LinesInv, Past, AfterTokens
  <1> QED
    BY <1>1, <1>2, <1>3 DEF IInv

LEMMA AppendIsSeq ==
    ASSUME NEW S, NEW s \in Seq(S), NEW x \in S PROVE Append(s, x) \in Seq(S)
  OBVIOUS

LEMMA PrefixIsSeq ==
    ASSUME NEW S, NEW s \in Seq(S) PROVE Prefixes(s) \subseteq Seq(S)
  BY DEF Prefixes

LEMMA AppendDistinct ==
    ASSUME NEW S, NEW s \in Seq(S), NEW x \in S, x \notin ToSet(s),
           \A i, j \in DOMAIN s : s[i] = s[j] => i = j
    PROVE  LET r == Append(s, x)
           IN  /\ \A i, j \in DOMAIN r : r[i] = r[j] => i = j
               /\ ToSet(r) = ToSet(s) \union {x}
  <1> DEFINE r == Append(s, x)
  <1>1. /\ r \in Seq(S) /\ Len(r) = Len(s) + 1 /\ DOMAIN r = 1..(Len(s) + 1)
        /\ \A i \in 1..Len(s) : r[i] = s[i]
        /\ r[Len(s) + 1] = x /\ DOMAIN s = 1..Len(s) /\ Len(s) \in Nat
    OBVIOUS
  <1>2. \A i \in 1..Len(s) : s[i] \in ToSet(s)
    BY <1>1 DEF ToSet
  <1> HIDE DEF r
  <1>3. ASSUME NEW i \in DOMAIN r, NEW j \in DOMAIN r, r[i] = r[j] PROVE i = j
    BY <1>1, <1>2, <1>3
  <1>4. ToSet(r) = ToSet(s) \union {x}
    BY <1>1 DEF ToSet
  <1> QED
    BY <1>3, <1>4 DEF r

-----------------------------------------------------------------------------
(* Where a step takes its thread, and that it leaves the other threads and   *)
(* the other accounts alone.                                                 *)
LEMMA Moves ==
    ASSUME PlaceOK, NEW t \in Threads, Step(t)
    PROVE  /\ UNCHANGED given
           /\ \A u \in Threads \ {t} : place'[u] = place[u]
           /\ \/ place[t] = "mint" /\ place'[t] \in {"replace", AfterMint(t)} /\ owner' = owner
              \/ place[t] = "replace" /\ place'[t] = AfterMint(t) /\ owner' = owner
              \/ place[t] = "accounts" /\ place'[t] = "acc_write" /\ owner = Nobody /\ owner' = t
              \/ place[t] = "acc_write" /\ place'[t] = "sso" /\ owner' = Nobody
              \/ place[t] = "sso" /\ place'[t] = "collect" /\ owner' = owner
              \/ place[t] = "sso" /\ place'[t] = "tok_write" /\ owner = Nobody /\ owner' = t
              \/ place[t] = "tok_write" /\ place'[t] = "collect" /\ owner' = Nobody
              \/ place[t] = "collect" /\ place'[t] = "merge" /\ owner' = owner
              \/ place[t] = "merge" /\ place'[t] = "full" /\ owner' = owner
              \/ place[t] = "full" /\ place'[t] = "full_write" /\ owner = Nobody /\ owner' = t
              \/ place[t] = "full_write" /\ place'[t] = "done" /\ owner' = Nobody
  <1>1. CASE Mint(t) \/ Replace(t)
    BY <1>1 DEF PlaceOK, Mint, Replace, GoTo
  <1>2. CASE OpenAccounts(t) \/ WriteAccounts(t)
    BY <1>2 DEF PlaceOK, OpenAccounts, WriteAccounts, GoTo, Acquire, Release
  <1>3. CASE FindToken(t)
    BY <1>3 DEF PlaceOK, FindToken, GoTo, Acquire
  <1>4. CASE AppendToken(t)
    BY <1>4 DEF PlaceOK, AppendToken, GoTo, Release
  <1>5. CASE Collect(t) \/ Merge(t)
    BY <1>5 DEF PlaceOK, Collect, Merge, GoTo
  <1>6. CASE OpenFull(t)
    BY <1>6 DEF PlaceOK, OpenFull, GoTo, Acquire
  <1>7. CASE WriteFull(t)
    BY <1>7 DEF PlaceOK, WriteFull, GoTo, Release
  <1> QED
    BY <1>1, <1>2, <1>3, <1>4, <1>5, <1>6, <1>7 DEF Step

(* What becomes of the record, the file and the history of its account.      *)
LEMMA Writes ==
    ASSUME PlaceOK, FlagsOK, FilesOK, trouble # "disk", NEW t \in Threads, Step(t)
    PROVE  \/ /\ place[t] = "collect" /\ place'[t] = "merge" /\ UNCHANGED <<full, auth>>
              /\ record'[t] = {"secrets"} \union (IF auth[t[1]] THEN {"tokens"} ELSE {})
              /\ overlap[t[1]] \/ Busy(Other(t)) => overlap'[t[1]]
              /\ overlap'[t[1]] => overlap[t[1]] \/ Busy(Other(t))
           \/ /\ place[t] = "merge" /\ place'[t] = "full" /\ UNCHANGED <<full, auth, overlap>>
              /\ record'[t] = record[t] \union full[t[1]]
           \/ /\ place[t] = "full" /\ place'[t] = "full_write" /\ UNCHANGED <<record, auth, overlap>>
              /\ full'[t[1]] = {}
           \/ /\ place[t] = "full_write" /\ place'[t] = "done" /\ UNCHANGED <<auth, overlap>>
              /\ full'[t[1]] = record[t]
           \/ /\ place[t] = "replace" /\ place'[t] = AfterMint(t) /\ UNCHANGED <<full, record, overlap>>
           \/ /\ place[t] \notin {"collect", "merge", "full", "full_write", "replace"}
              /\ UNCHANGED <<full, record, auth, overlap>>
  <1>0. t[1] \in Accounts
    BY Pairs
  <1>1. CASE Collect(t)
    <2>1. overlap'[t[1]] <=> overlap[t[1]] \/ Busy(Other(t))
      BY <1>0, <1>1, Zenon DEF Collect, FlagsOK
    <2>2. record'[t] = {"secrets"} \union (IF auth[t[1]] THEN {"tokens"} ELSE {})
      BY <1>1 DEF Collect, FilesOK
    <2> QED
      BY <1>1, <2>1, <2>2 DEF Collect, PlaceOK, GoTo
  <1>2. CASE Merge(t) \/ OpenFull(t) \/ WriteFull(t)
    BY <1>0, <1>2 DEF Merge, OpenFull, WriteFull, DiskErrors, FilesOK, PlaceOK, GoTo
  <1>3. CASE Replace(t)
    BY <1>3 DEF Replace, PlaceOK, GoTo
  <1>4. CASE Mint(t) \/ OpenAccounts(t) \/ WriteAccounts(t) \/ FindToken(t) \/ AppendToken(t)
    BY <1>4 DEF Mint, OpenAccounts, WriteAccounts, FindToken, AppendToken
  <1> QED
    BY <1>1, <1>2, <1>3, <1>4 DEF Step

LEMMA OthersKeep ==
    ASSUME FilesOK, FlagsOK, NEW t \in Threads, Step(t)
    PROVE  /\ \A u \in Threads \ {t} : record'[u] = record[u]
           /\ \A a \in Accounts \ {t[1]} :
                  full'[a] = full[a] /\ auth'[a] = auth[a] /\ overlap'[a] = overlap[a]
  <1>1. CASE Mint(t) \/ OpenAccounts(t) \/ WriteAccounts(t) \/ FindToken(t) \/ AppendToken(t)
    BY <1>1 DEF Mint, OpenAccounts, WriteAccounts, FindToken, AppendToken
  <1>2. CASE Replace(t) \/ Collect(t) \/ Merge(t) \/ OpenFull(t) \/ WriteFull(t)
    BY <1>2 DEF Replace, Collect, Merge, OpenFull, WriteFull, FilesOK, FlagsOK
  <1> QED
    BY <1>1, <1>2 DEF Step

LEMMA FilesKeep ==
    ASSUME FilesOK, NEW t \in Threads, Step(t)
    PROVE  FilesOK'
  <1>0. t[1] \in Accounts
    BY Pairs
  <1>1. CASE OpenAccounts(t)
    <2>1. PICK old \in Read(accounts) : lines' = [lines EXCEPT ![t] = Upsert(old, t[1])]
      BY <1>1 DEF OpenAccounts
    <2>2. old \in Seq(Accounts)
      <3>1. accounts \in Seq(Accounts) /\ <<>> \in Seq(Accounts)
        BY DEF FilesOK
      <3>2. old = accounts \/ old = <<>>
        BY <2>1 DEF Read
      <3> QED
        BY <3>1, <3>2
    <2>3. Upsert(old, t[1]) \in Seq(Accounts)
      BY <1>0, <2>2, AppendIsSeq DEF Upsert
    <2> QED
      BY <1>1, <2>1, <2>3 DEF FilesOK, OpenAccounts
  <1>2. CASE WriteAccounts(t)
    <2>1. lines[t] \in Seq(Accounts) /\ <<>> \in Seq(Accounts)
      BY DEF FilesOK
    <2>2. accounts' = lines[t] \/ accounts' \in Prefixes(lines[t])
      BY <1>2 DEF WriteAccounts
    <2>3. accounts' \in Seq(Accounts)
      BY <2>1, <2>2, PrefixIsSeq, Zenon
    <2>4. /\ lines' = [lines EXCEPT ![t] = <<>>]
          /\ UNCHANGED <<tokens, full, record>>
      BY <1>2 DEF WriteAccounts
    <2> QED
      BY <2>1, <2>3, <2>4 DEF FilesOK
  <1>3. CASE AppendToken(t)
    <2>1. tokens' = tokens \/ tokens' = Append(tokens, t[1])
      BY <1>3 DEF AppendToken
    <2>2. tokens' \in Seq(Accounts)
      <3>1. tokens \in Seq(Accounts)
        BY DEF FilesOK
      <3>2. Append(tokens, t[1]) \in Seq(Accounts)
        BY <1>0, <3>1, AppendIsSeq
      <3> QED
        BY <2>1, <3>1, <3>2
    <2> QED
      BY <1>3, <2>2 DEF FilesOK, AppendToken
  <1>4. CASE Collect(t)
    <2>1. PICK r \in SUBSET Fields : record' = [record EXCEPT ![t] = r]
      BY <1>4 DEF Collect, Fields
    <2> QED
      BY <1>4, <2>1 DEF FilesOK, Collect
  <1>5. CASE Merge(t) \/ OpenFull(t)
    BY <1>0, <1>5 DEF FilesOK, Merge, OpenFull
  <1>6. CASE WriteFull(t)
    BY <1>0, <1>6 DEF FilesOK, WriteFull
  <1>7. CASE Mint(t) \/ Replace(t) \/ FindToken(t)
    BY <1>7 DEF FilesOK, Mint, Replace, FindToken
  <1> QED
    BY <1>1, <1>2, <1>3, <1>4, <1>5, <1>6, <1>7 DEF Step

LEMMA FlagsKeep ==
    ASSUME FlagsOK, NEW t \in Threads, Step(t)
    PROVE  FlagsOK'
  BY Pairs DEF FlagsOK, Step, Mint, Replace, OpenAccounts, WriteAccounts, FindToken, AppendToken,
     Collect, Merge, OpenFull, WriteFull, given

LEMMA PlaceKeeps ==
    ASSUME PlaceOK, NEW t \in Threads, Step(t)
    PROVE  PlaceOK'
  <1>1. place' \in [Threads -> Places]
    BY DEF PlaceOK, Places, AfterMint, GoTo, Step, Mint, Replace, OpenAccounts, WriteAccounts,
       FindToken, AppendToken, Collect, Merge, OpenFull, WriteFull
  <1>2. kills' = kills
    BY DEF Step, Mint, Replace, OpenAccounts, WriteAccounts, FindToken, AppendToken, Collect, Merge,
       OpenFull, WriteFull
  <1> QED
    BY <1>1, <1>2, Moves DEF PlaceOK, given

LEMMA LockKeeps ==
    ASSUME PlaceOK, LockInv, NEW t \in Threads, Step(t)
    PROVE  LockInv'
  BY Moves, Pairs DEF LockInv, Rewrites, AfterMint

LEMMA WayKeeps ==
    ASSUME FlagsOK, PlaceOK, WayInv, NEW t \in Threads, Step(t)
    PROVE  WayInv'
  <1> SUFFICES ASSUME NEW a \in Accounts
               PROVE  /\ place'[<<a, "mint">>] \notin {"accounts", "acc_write", "sso", "tok_write"}
                      /\ place'[<<a, "main">>] = "idle" => place'[<<a, "mint">>] = "idle"
                      /\ async' => place'[<<a, "main">>] \notin {"mint", "replace"}
                      /\ ~async' => place'[<<a, "mint">>] = "idle"
    BY DEF WayInv
  <1>1. UNCHANGED async
    BY Moves DEF given
  <1>2. CASE t = <<a, "main">>
    BY <1>1, <1>2, Moves, Pairs DEF WayInv, AfterMint
  <1>3. CASE t = <<a, "mint">>
    BY <1>1, <1>3, Moves, Pairs DEF WayInv, AfterMint
  <1>4. CASE t \notin {<<a, "main">>, <<a, "mint">>}
    BY <1>1, <1>4, Moves, Pairs DEF WayInv
  <1> QED
    BY <1>2, <1>3, <1>4

LEMMA LinesKeep ==
    ASSUME PlaceOK, FilesOK, LockInv, LinesInv, NEW t \in Threads, Step(t)
    PROVE  LinesInv'
  <1> SUFFICES ASSUME trouble # "disk"
               PROVE  /\ \A i, j \in DOMAIN tokens' : tokens'[i] = tokens'[j] => i = j
                      /\ \A u \in Threads : place'[u] = "tok_write" => u[1] \notin ToSet(tokens')
                      /\ \A u \in Threads : Past(u, AfterTokens)' => u[1] \in ToSet(tokens')
    BY Moves DEF LinesInv, given
  <1>0. /\ \A i, j \in DOMAIN tokens : tokens[i] = tokens[j] => i = j
        /\ \A u \in Threads : place[u] = "tok_write" => u[1] \notin ToSet(tokens)
        /\ \A u \in Threads : u[2] = "main" /\ place[u] \in AfterTokens => u[1] \in ToSet(tokens)
    BY DEF LinesInv, Past
  <1>1. CASE AppendToken(t)
    <2>1. place[t] = "tok_write" /\ place'[t] = "collect" /\ tokens' = Append(tokens, t[1])
      BY <1>1 DEF AppendToken, DiskErrors, PlaceOK, GoTo
    <2>2. t[1] \in Accounts /\ t[1] \notin ToSet(tokens) /\ tokens \in Seq(Accounts)
      BY <1>0, <2>1, Pairs DEF FilesOK
    <2>3. /\ \A i, j \in DOMAIN tokens' : tokens'[i] = tokens'[j] => i = j
          /\ ToSet(tokens') = ToSet(tokens) \union {t[1]}
      BY <1>0, <2>1, <2>2, AppendDistinct
    <2>4. \A u \in Threads \ {t} : place'[u] = place[u] /\ place[u] # "tok_write"
      BY <2>1, Moves DEF LockInv, Rewrites
    <2> QED
      BY <1>0, <2>1, <2>3, <2>4 DEF Past
  <1>2. CASE FindToken(t)
    <2>1. /\ tokens' = tokens /\ place'[t] \in {"collect", "tok_write"}
          /\ place'[t] = "collect" <=> t[1] \in ToSet(tokens)
          /\ \A u \in Threads \ {t} : place'[u] = place[u]
      BY <1>2 DEF FindToken, Read, DiskErrors, PlaceOK, GoTo
    <2> QED
      BY <1>0, <2>1 DEF Past, AfterTokens
  <1>3. CASE ~AppendToken(t) /\ ~FindToken(t)
    <2>1. tokens' = tokens /\ place[t] # "sso" /\ place[t] # "tok_write"
      BY <1>3 DEF Step, Mint, Replace, OpenAccounts, WriteAccounts, Collect, Merge, OpenFull, WriteFull
    <2>2. /\ place'[t] # "tok_write"
          /\ t[2] = "main" /\ place'[t] \in AfterTokens => place[t] \in AfterTokens
      BY <2>1, Moves DEF AfterMint, AfterTokens
    <2> QED
      BY <1>0, <2>1, <2>2, Moves DEF Past
  <1> QED
    BY <1>1, <1>2, <1>3

LEMMA SecretKeeps ==
    ASSUME PlaceOK, FlagsOK, FilesOK, SecretInv, NEW t \in Threads, Step(t)
    PROVE  SecretInv'
  <1> SUFFICES ASSUME trouble = "none"
               PROVE  /\ \A u \in Threads : Busy(u)' => "secrets" \in record'[u]
                      /\ \A a \in Accounts :
                             place'[<<a, "main">>] = "done" /\ place'[<<a, "mint">>] # "full_write" =>
                                 "secrets" \in full'[a]
    BY Moves DEF SecretInv, given
  <1>1. ASSUME NEW u \in Threads, Busy(u)' PROVE "secrets" \in record'[u]
    <2>1. CASE u # t
      BY <1>1, <2>1, Moves, OthersKeep DEF SecretInv, Busy
    <2>2. CASE u = t
      BY <1>1, <2>2, Moves, Writes DEF SecretInv, Busy, AfterMint
    <2> QED
      BY <2>1, <2>2
  <1>2. ASSUME NEW a \in Accounts, place'[<<a, "main">>] = "done", place'[<<a, "mint">>] # "full_write"
        PROVE  "secrets" \in full'[a]
    <2>1. CASE t[1] # a
      BY <1>2, <2>1, Moves, OthersKeep, Pairs DEF SecretInv
    <2>2. CASE t = <<a, "main">>
      BY <1>2, <2>2, Moves, Writes, Pairs DEF SecretInv, Busy, AfterMint
    <2>3. CASE t = <<a, "mint">>
      BY <1>2, <2>3, Moves, Writes, Pairs DEF SecretInv, Busy, AfterMint
    <2> QED
      BY <2>1, <2>2, <2>3, Pairs
  <1> QED
    BY <1>1, <1>2

LEMMA MergedKeeps ==
    ASSUME PlaceOK, FlagsOK, FilesOK, LockInv, WayInv, MergedInv, NEW t \in Threads, Step(t)
    PROVE  MergedInv'
  <1> SUFFICES ASSUME trouble # "disk", NEW a \in Accounts PROVE Merged(a)'
    BY Moves DEF MergedInv, given
  <1> DEFINE m == <<a, "main">>
             o == <<a, "mint">>
  <1>0. UNCHANGED async /\ async \in BOOLEAN /\ Merged(a) /\ m \in Threads /\ o \in Threads /\ m # o
    BY Moves, Pairs DEF given, MergedInv, FlagsOK
  <1>1. CASE t \notin {m, o}
    <2>1. /\ place'[m] = place[m] /\ place'[o] = place[o] /\ record'[m] = record[m] /\ record'[o] = record[o]
          /\ full'[a] = full[a] /\ auth'[a] = auth[a] /\ overlap'[a] = overlap[a]
      BY <1>0, <1>1, Moves, OthersKeep, Pairs
    <2> QED
      BY <1>0, <2>1 DEF Merged, Minted, Busy
  <1>2. CASE t = m
    <2>1. place'[o] = place[o] /\ record'[o] = record[o] /\ Other(m) = o
      BY <1>0, <1>2, Moves, OthersKeep DEF Other
    <2>2. place[m] \in Rewrites /\ place[o] \in Rewrites => FALSE
      BY <1>0 DEF LockInv
    <2>3. AfterMint(m) = "accounts" /\ (async => place[m] \notin {"mint", "replace"})
      BY DEF AfterMint, WayInv
    <2>4. /\ (Busy(m) /\ Busy(o) => overlap[a])'
          /\ (Busy(o) /\ auth[a] => "tokens" \in record[o])'
      BY <1>0, <1>2, <2>1, <2>2, <2>3, Moves, Writes DEF Merged, Minted, Busy, Rewrites, WayInv
    <2>5. (Busy(m) /\ Minted(a) /\ ~overlap[a] => "tokens" \in record[m])'
      BY <1>0, <1>2, <2>1, <2>2, <2>3, Moves, Writes DEF Merged, Minted, Busy, Rewrites, WayInv
    <2>6. (/\ Minted(a) /\ ~overlap[a]
           /\ place[m] = "done" \/ (async /\ place[m] \notin {"full_write", "killed"})
           => "tokens" \in full[a])'
      BY <1>0, <1>2, <2>1, <2>2, <2>3, Moves, Writes DEF Merged, Minted, Busy, Rewrites, WayInv
    <2> QED
      BY <2>4, <2>5, <2>6 DEF Merged
  <1>3. CASE t = o
    <2>1. place'[m] = place[m] /\ record'[m] = record[m] /\ Other(o) = m
      BY <1>0, <1>3, Moves, OthersKeep DEF Other
    <2>2. AfterMint(o) = "collect" /\ async
      BY <1>0, <1>3, Moves DEF AfterMint, WayInv
    <2>3. place[m] \in Rewrites /\ place[o] \in Rewrites => FALSE
      BY <1>0 DEF LockInv
    <2>4. /\ (Busy(m) /\ Busy(o) => overlap[a])'
          /\ (Busy(o) /\ auth[a] => "tokens" \in record[o])'
      BY <1>0, <1>3, <2>1, <2>2, <2>3, Moves, Writes DEF Merged, Minted, Busy, Rewrites, WayInv
    <2>5. (Busy(m) /\ Minted(a) /\ ~overlap[a] => "tokens" \in record[m])'
      BY <1>0, <1>3, <2>1, <2>2, <2>3, Moves, Writes DEF Merged, Minted, Busy, Rewrites, WayInv
    <2>6. (/\ Minted(a) /\ ~overlap[a]
           /\ place[m] = "done" \/ (async /\ place[m] \notin {"full_write", "killed"})
           => "tokens" \in full[a])'
      BY <1>0, <1>3, <2>1, <2>2, <2>3, Moves, Writes DEF Merged, Minted, Busy, Rewrites, WayInv
    <2> QED
      BY <2>4, <2>5, <2>6 DEF Merged
  <1> QED
    BY <1>1, <1>2, <1>3

LEMMA StepKeeps ==
    ASSUME IInv, NEW t \in Threads, Step(t)
    PROVE  IInv'
  <1>1. FlagsOK /\ PlaceOK /\ FilesOK /\ LockInv /\ WayInv /\ LinesInv /\ SecretInv /\ MergedInv
    BY DEF IInv
  <1>2. FlagsOK' /\ PlaceOK' /\ FilesOK' /\ LockInv' /\ WayInv'
    BY <1>1, FlagsKeep, PlaceKeeps, FilesKeep, LockKeeps, WayKeeps
  <1>3. LinesInv' /\ SecretInv' /\ MergedInv'
    BY <1>1, LinesKeep, SecretKeeps, MergedKeeps
  <1> QED
    BY <1>2, <1>3 DEF IInv

(* A worker comes to the end of its registration.                            *)
LEMMA StartKeeps ==
    ASSUME IInv, NEW a \in Accounts, Start(a)
    PROVE  IInv'
  <1> DEFINE m == <<a, "main">>
             o == <<a, "mint">>
  <1>0. m \in Threads /\ o \in Threads /\ m # o
    BY Pairs
  <1>1. /\ UNCHANGED <<given, owner, accounts, tokens, full, auth, lines, record, kills, overlap>>
        /\ place[m] = "idle" /\ place[o] = "idle"
        /\ place' \in [Threads -> Places]
        /\ IF async THEN place'[m] = "accounts" /\ place'[o] = "mint"
                    ELSE place'[m] = "mint" /\ place'[o] = "idle"
        /\ \A u \in Threads \ {m, o} : place'[u] = place[u]
    BY <1>0 DEF Start, IInv, PlaceOK, Places, WayInv
  <1>2. FlagsOK' /\ PlaceOK' /\ FilesOK' /\ LockInv'
    BY <1>0, <1>1 DEF IInv, FlagsOK, PlaceOK, FilesOK, LockInv, Rewrites, given
  <1>3. WayInv'
    BY <1>0, <1>1, Pairs DEF IInv, WayInv, given
  <1>4. LinesInv'
    BY <1>0, <1>1 DEF IInv, LinesInv, Past, AfterTokens, given
  <1>5. SecretInv'
    BY <1>0, <1>1, Pairs DEF IInv, SecretInv, Busy, given
  <1>6. MergedInv'
    <2> SUFFICES ASSUME trouble # "disk", NEW b \in Accounts PROVE Merged(b)'
      BY <1>1 DEF MergedInv, given
    <2>1. CASE b # a
      BY <1>1, <2>1, Pairs DEF IInv, MergedInv, Merged, Minted, Busy, given
    <2>2. CASE b = a
      BY <1>1, <2>2 DEF Merged, Minted, Busy, given
    <2> QED
      BY <2>1, <2>2
  <1> QED
    BY <1>2, <1>3, <1>4, <1>5, <1>6 DEF IInv

(* The process is killed and started again.                                  *)
LEMMA KillKeeps == IInv /\ Kill => IInv'
  <1> SUFFICES ASSUME IInv, Kill PROVE IInv'
    OBVIOUS
  <1>1. /\ trouble = "kill" /\ UNCHANGED <<given, full, auth, overlap>> /\ owner' = Nobody
        /\ \A u \in Threads : place'[u] \in {"idle", "done", "killed"}
        /\ \A u \in Threads : place'[u] # "killed" => place'[u] = place[u]
        /\ \A u \in Threads : place[u] = "idle" => place'[u] = "idle"
    BY DEF Kill
  <1>2. FlagsOK' /\ PlaceOK' /\ LockInv'
    BY <1>1, Pairs DEF Kill, IInv, FlagsOK, PlaceOK, Places, LockInv, Rewrites, given
  <1>3. WayInv' /\ SecretInv' /\ MergedInv'
    BY <1>1, Pairs DEF IInv, WayInv, SecretInv, MergedInv, Merged, Minted, Busy, given
  <1>4. \/ tokens' = tokens
        \/ \E t \in Threads : place[t] = "tok_write" /\ tokens' = Append(tokens, t[1])
    BY DEF Kill
  <1>5. FilesOK'
    <2>1. tokens' \in Seq(Accounts)
      <3>1. tokens \in Seq(Accounts)
        BY DEF IInv, FilesOK
      <3>2. \A t \in Threads : Append(tokens, t[1]) \in Seq(Accounts)
        BY <3>1, Pairs, AppendIsSeq
      <3> QED
        BY <1>4, <3>1, <3>2
    <2>2. accounts' \in Seq(Accounts)
      <3>1. accounts \in Seq(Accounts) /\ \A t \in Threads : lines[t] \in Seq(Accounts)
        BY DEF IInv, FilesOK
      <3>2. accounts' = accounts \/ \E t \in Threads : accounts' \in Prefixes(lines[t])
        BY DEF Kill
      <3> QED
        BY <3>1, <3>2, PrefixIsSeq, Zenon
    <2> QED
      BY <2>1, <2>2 DEF Kill, IInv, FilesOK
  <1>6. LinesInv'
    <2>0. /\ \A i, j \in DOMAIN tokens : tokens[i] = tokens[j] => i = j
          /\ \A u \in Threads : place[u] = "tok_write" => u[1] \notin ToSet(tokens)
          /\ \A u \in Threads : u[2] = "main" /\ place[u] \in AfterTokens => u[1] \in ToSet(tokens)
      BY <1>1 DEF IInv, LinesInv, Past
    <2>1. CASE tokens' = tokens
      BY <1>1, <2>0, <2>1 DEF LinesInv, Past, AfterTokens
    <2>2. ASSUME NEW t \in Threads, place[t] = "tok_write", tokens' = Append(tokens, t[1])
          PROVE  LinesInv'
      <3>1. t[1] \in Accounts /\ t[1] \notin ToSet(tokens) /\ tokens \in Seq(Accounts)
        BY <2>0, <2>2, Pairs DEF IInv, FilesOK
      <3>2. /\ \A i, j \in DOMAIN tokens' : tokens'[i] = tokens'[j] => i = j
            /\ ToSet(tokens') = ToSet(tokens) \union {t[1]}
        BY <2>0, <2>2, <3>1, AppendDistinct
      <3> QED
        BY <1>1, <2>0, <3>2 DEF LinesInv, Past, AfterTokens
    <2> QED
      BY <1>4, <2>1, <2>2
  <1> QED
    BY <1>2, <1>3, <1>5, <1>6 DEF IInv

LEMMA Invariance == Spec => []IInv
  <1>1. IInv /\ UNCHANGED vars => IInv'
    <2> SUFFICES ASSUME IInv, UNCHANGED vars PROVE IInv'
      OBVIOUS
    <2>1. FlagsOK' /\ PlaceOK' /\ FilesOK' /\ LockInv' /\ WayInv'
      BY DEF vars, given, IInv, FlagsOK, PlaceOK, FilesOK, LockInv, WayInv
    <2>2. LinesInv' /\ SecretInv' /\ MergedInv'
      BY DEF vars, given, IInv, LinesInv, Past, SecretInv, MergedInv, Merged, Minted, Busy
    <2> QED
      BY <2>1, <2>2 DEF IInv
  <1>2. IInv /\ [Next]_vars => IInv'
    BY <1>1, StepKeeps, StartKeeps, KillKeeps DEF Next
  <1> QED
    BY InitInvariant, <1>2, PTL DEF Spec

(* For any accounts and kills: every account that was saved is in tokens.txt *)
(* exactly once, as long as no write fails, and its full record ends with    *)
(* the password and the sso, as long as none is cut short either.            *)
THEOREM SavedAccountsAreKept == Spec => []SavedAccountsKept
  <1>1. IInv => SavedAccountsKept
    <2> SUFFICES ASSUME IInv PROVE SavedAccountsKept
      OBVIOUS
    <2>1. TypeOK
      BY DEF IInv, TypeOK
    <2>2. TokenOnce
      <3> SUFFICES ASSUME trouble # "disk", NEW t \in Threads, Past(t, AfterTokens)
                   PROVE  Times(tokens, t[1]) = 1
        BY DEF TokenOnce
      <3>1. PICK n \in DOMAIN tokens : tokens[n] = t[1]
        BY DEF IInv, LinesInv, ToSet
      <3>2. {k \in DOMAIN tokens : tokens[k] = t[1]} = {n}
        BY <3>1 DEF IInv, LinesInv
      <3> QED
        BY <3>2, FS_Singleton DEF Times
    <2>3. SecretsKept
      BY DEF IInv, SecretInv, SecretsKept, Busy
    <2> QED
      BY <2>1, <2>2, <2>3 DEF SavedAccountsKept
  <1> QED
    BY <1>1, Invariance, PTL

(* For any accounts and kills: _io_lock is free or with a thread at a write, *)
(* which waits for nothing, whatever write fails and whenever the process is *)
(* killed. So a thread that waits for the lock does not wait for ever.       *)
THEOREM LockIsWithAWriter ==
    Spec => [](owner = Nobody \/ (owner \in Threads /\ place[owner] \in Rewrites))
  <1>1. IInv => owner = Nobody \/ (owner \in Threads /\ place[owner] \in Rewrites)
    <2> SUFFICES ASSUME IInv, owner # Nobody
                 PROVE  owner \in Threads /\ place[owner] \in Rewrites
      OBVIOUS
    <2>1. owner \in Threads
      BY DEF IInv, PlaceOK
    <2> QED
      BY <2>1 DEF IInv, LockInv
  <1> QED
    BY <1>1, Invariance, PTL

(* For any accounts and kills: the OAuth tokens of an account that was saved *)
(* are missing from its full record only if its two threads were both        *)
(* between reading the record and writing it.                                *)
THEOREM TokensLostOnlyByOverlap == Spec => []TokensLostByOverlapOnly
  <1>1. IInv => TokensLostByOverlapOnly
    BY DEF IInv, MergedInv, Merged, Minted, TokensLostByOverlapOnly
  <1> QED
    BY <1>1, Invariance, PTL

-----------------------------------------------------------------------------
(* The account file as a book. A worker that rewrites it is about to write   *)
(* the lines it read and its own account, which nobody has a line for before *)
(* its worker has passed the file.                                           *)
BeforeLine == {"idle", "mint", "replace", "accounts", "acc_write"}

BookInv ==
    trouble = "none" =>
        /\ \A t \in Threads : place[t] = "acc_write" => lines[t] = Append(Front(lines[t]), t[1])
        /\ \A a \in Accounts : place[<<a, "main">>] \in BeforeLine => a \notin ToSet(Book)

LEMMA FrontOfAppend ==
    ASSUME NEW S, NEW s \in Seq(S), NEW x \in S
    PROVE  Front(Append(s, x)) = s /\ ToSet(Append(s, x)) = ToSet(s) \union {x}
  <1> DEFINE r == Append(s, x)
  <1>1. /\ r \in Seq(S) /\ Len(r) = Len(s) + 1 /\ DOMAIN r = 1..(Len(s) + 1)
        /\ \A i \in 1..Len(s) : r[i] = s[i]
        /\ r[Len(s) + 1] = x /\ DOMAIN s = 1..Len(s) /\ Len(s) \in Nat
    OBVIOUS
  <1> HIDE DEF r
  <1>2. Front(r) = s
    <2>1. Front(r) = SubSeq(r, 1, Len(s))
      BY <1>1 DEF Front
    <2>2. SubSeq(r, 1, Len(s)) \in Seq(S) /\ Len(SubSeq(r, 1, Len(s))) = Len(s)
      BY <1>1
    <2>3. \A i \in 1..Len(s) : SubSeq(r, 1, Len(s))[i] = s[i]
      BY <1>1
    <2> QED
      BY <2>1, <2>2, <2>3
  <1>3. ToSet(r) = ToSet(s) \union {x}
    BY <1>1 DEF ToSet
  <1> QED
    BY <1>2, <1>3 DEF r

(* What a step without disk errors does to the file and to the lines.        *)
LEMMA LineMoves ==
    ASSUME PlaceOK, FilesOK, trouble = "none", NEW t \in Threads, Step(t)
    PROVE  \/ /\ place[t] = "accounts"
              /\ accounts' = <<>> /\ lines' = [lines EXCEPT ![t] = Upsert(accounts, t[1])]
           \/ place[t] = "acc_write" /\ accounts' = lines[t] /\ lines' = [lines EXCEPT ![t] = <<>>]
           \/ place[t] \notin {"accounts", "acc_write"} /\ UNCHANGED <<accounts, lines>>
  <1>1. CASE OpenAccounts(t)
    BY <1>1 DEF OpenAccounts, Read, DiskErrors
  <1>2. CASE WriteAccounts(t)
    BY <1>2 DEF WriteAccounts, DiskErrors
  <1>3. CASE ~OpenAccounts(t) /\ ~WriteAccounts(t)
    BY <1>3 DEF Step, Mint, Replace, FindToken, AppendToken, Collect, Merge, OpenFull, WriteFull
  <1> QED
    BY <1>1, <1>2, <1>3

(* A thread that steps while another one rewrites the file takes no lock and *)
(* leaves none; so the book stays, or the thread's account gets its line.    *)
LEMMA BookStep ==
    ASSUME PlaceOK, FilesOK, LockInv, WayInv, BookInv, trouble = "none", NEW t \in Threads, Step(t)
    PROVE  /\ \/ Book' = Book /\ place[t] # "acc_write"
              \/ /\ place[t] = "acc_write" /\ place'[t] = "sso" /\ t = <<t[1], "main">>
                 /\ t[1] \notin ToSet(Book) /\ Book \in Seq(Accounts)
                 /\ Book' = Append(Book, t[1])
           /\ \A u \in Threads : place'[u] = "acc_write" => lines'[u] = Append(Front(lines'[u]), u[1])
  <1>0. /\ t[1] \in Accounts /\ Nobody \notin Threads
        /\ accounts \in Seq(Accounts) /\ lines \in [Threads -> Seq(Accounts)]
        /\ owner \in Threads \union {Nobody}
    BY Pairs DEF PlaceOK, FilesOK
  <1>1. CASE place[t] = "accounts"
    <2>1. /\ accounts' = <<>> /\ lines' = [lines EXCEPT ![t] = Upsert(accounts, t[1])]
          /\ place'[t] = "acc_write" /\ owner = Nobody /\ owner' = t
      BY <1>1, LineMoves, Moves
    <2>2. t = <<t[1], "main">>
      BY <1>1, Pairs DEF WayInv
    <2>3. ~Rewriting /\ Book = accounts
      BY <2>1 DEF Rewriting, Book
    <2>4. t[1] \notin ToSet(accounts)
      BY <1>0, <1>1, <2>2, <2>3 DEF BookInv, BeforeLine
    <2>5. lines'[t] = Append(accounts, t[1])
      BY <1>0, <2>1, <2>4 DEF Upsert
    <2>6. Front(lines'[t]) = accounts
      BY <1>0, <2>5, FrontOfAppend
    <2>7. Book' = Front(lines'[t])
      BY <1>0, <2>1 DEF Rewriting, Book
    <2>8. ASSUME NEW u \in Threads, place'[u] = "acc_write", u # t PROVE FALSE
      BY <1>0, <2>1, <2>8, Moves DEF LockInv, Rewrites
    <2> QED
      BY <1>1, <2>3, <2>5, <2>6, <2>7, <2>8
  <1>2. CASE place[t] = "acc_write"
    <2>1. /\ accounts' = lines[t] /\ lines' = [lines EXCEPT ![t] = <<>>]
          /\ place'[t] = "sso" /\ owner = t /\ owner' = Nobody
      BY <1>2, LineMoves, Moves DEF LockInv, Rewrites
    <2>2. t = <<t[1], "main">>
      BY <1>2, Pairs DEF WayInv
    <2>3. Book = Front(lines[t])
      BY <1>0, <1>2, <2>1 DEF Rewriting, Book
    <2>4. t[1] \notin ToSet(Book) /\ lines[t] = Append(Front(lines[t]), t[1])
      BY <1>0, <1>2, <2>2 DEF BookInv, BeforeLine
    <2>5. Book' = Append(Book, t[1])
      BY <2>1, <2>3, <2>4 DEF Rewriting, Book
    <2>6. Book \in Seq(Accounts)
      <3>1. lines[t] \in Seq(Accounts) /\ Len(lines[t]) \in Nat
        BY <1>0
      <3>2. SubSeq(lines[t], 1, Len(lines[t]) - 1) \in Seq(Accounts)
        BY <3>1
      <3> QED
        BY <2>3, <3>2 DEF Front
    <2>7. ASSUME NEW u \in Threads, place'[u] = "acc_write" PROVE FALSE
      BY <1>0, <2>1, <2>7, Moves DEF LockInv, Rewrites
    <2> QED
      BY <1>2, <2>1, <2>2, <2>4, <2>5, <2>6, <2>7
  <1>3. CASE place[t] \notin {"accounts", "acc_write"}
    <2>1. UNCHANGED <<accounts, lines>>
      BY <1>3, LineMoves
    <2>2. place'[t] # "acc_write" /\ \A u \in Threads \ {t} : place'[u] = place[u]
      BY <1>3, Moves DEF AfterMint
    <2>3. CASE Rewriting
      <3>1. owner \in Threads /\ owner # t /\ place'[owner] = "acc_write"
        BY <1>0, <1>3, <2>2, <2>3 DEF Rewriting
      <3>2. place[t] \notin Rewrites
        BY <3>1 DEF LockInv
      <3>3. owner' = owner
        BY <1>0, <3>1, <3>2, Moves DEF Rewrites
      <3>4. Book' = Book
        BY <2>1, <2>3, <3>1, <3>3 DEF Rewriting, Book
      <3> QED
        BY <1>3, <2>1, <2>2, <3>4 DEF BookInv
    <2>4. CASE ~Rewriting
      <3>1. owner' \in {owner, t, Nobody}
        BY Moves
      <3>2. ~Rewriting'
        BY <1>0, <2>2, <2>4, <3>1 DEF Rewriting
      <3>3. Book' = Book
        BY <2>1, <2>4, <3>2 DEF Book
      <3> QED
        BY <1>3, <2>1, <2>2, <3>3 DEF BookInv
    <2> QED
      BY <2>3, <2>4
  <1> QED
    BY <1>1, <1>2, <1>3

LEMMA BookKeeps ==
    ASSUME IInv, BookInv, NEW t \in Threads, Step(t)
    PROVE  BookInv'
  <1>0. PlaceOK /\ FilesOK /\ LockInv /\ WayInv
    BY DEF IInv
  <1> SUFFICES ASSUME trouble = "none", NEW a \in Accounts, place'[<<a, "main">>] \in BeforeLine
               PROVE  a \notin ToSet(Book')
    <2>1. trouble' = trouble /\ ToSet(Book)' = ToSet(Book')
      BY <1>0, Moves DEF given, ToSet
    <2> QED
      BY <1>0, <2>1, BookStep DEF BookInv
  <1>1. place[<<a, "main">>] \in BeforeLine
    BY <1>0, Moves, Pairs DEF BeforeLine, AfterMint
  <1>2. a \notin ToSet(Book)
    BY <1>1 DEF BookInv
  <1>3. CASE Book' = Book
    BY <1>2, <1>3
  <1>4. CASE Book' # Book
    <2>1. /\ place'[t] = "sso" /\ t = <<t[1], "main">> /\ Book \in Seq(Accounts)
          /\ Book' = Append(Book, t[1])
      BY <1>0, <1>4, BookStep
    <2>2. t[1] # a /\ t[1] \in Accounts
      BY <2>1, Pairs DEF BeforeLine
    <2>3. ToSet(Book') = ToSet(Book) \union {t[1]}
      BY <2>1, <2>2, FrontOfAppend
    <2> QED
      BY <1>2, <2>2, <2>3
  <1> QED
    BY <1>3, <1>4

(* The start of a thread, and nothing at all, leave the book as it is.       *)
LEMMA BookRests ==
    ASSUME IInv, BookInv, (\E a \in Accounts : Start(a)) \/ UNCHANGED vars
    PROVE  trouble' = trouble /\ (trouble = "none" => Book' = Book) /\ BookInv'
  <1>0. PlaceOK /\ FilesOK /\ LockInv /\ WayInv
    BY DEF IInv
  <1>1. CASE UNCHANGED vars
    <2>1. Book' = Book /\ ToSet(Book)' = ToSet(Book')
      BY <1>1 DEF vars, Book, Rewriting, ToSet
    <2> QED
      BY <1>1, <2>1 DEF vars, given, BookInv
  <1>2. ASSUME NEW a \in Accounts, Start(a)
        PROVE  trouble' = trouble /\ (trouble = "none" => Book' = Book) /\ BookInv'
    <2>1. /\ UNCHANGED <<given, owner, accounts, lines>>
          /\ place[<<a, "main">>] = "idle"
          /\ \A u \in Threads :
                 place'[u] = place[u] \/ (place'[u] \in {"accounts", "mint"} /\ place[u] = "idle")
      BY <1>0, <1>2, Pairs DEF Start, PlaceOK, WayInv
    <2>2. Rewriting' <=> Rewriting
      BY <1>0, <2>1 DEF Rewriting, PlaceOK
    <2>3. Book' = Book /\ ToSet(Book)' = ToSet(Book')
      BY <2>1, <2>2 DEF Book, ToSet
    <2> QED
      BY <2>1, <2>3, Pairs DEF given, BookInv, BeforeLine
  <1> QED
    BY <1>1, <1>2

LEMMA BookNext ==
    ASSUME IInv, BookInv, [Next]_vars
    PROVE  BookInv'
  <1>1. CASE Kill
    BY <1>1 DEF Kill, given, BookInv
  <1> QED
    BY <1>1, BookKeeps, BookRests DEF Next

(* Every step writes one new line of the book or leaves it.                  *)
LEMMA StepOfBook ==
    ASSUME IInv, BookInv, [Next]_vars
    PROVE  [Abstract!Next]_(IF trouble = "none" THEN Book ELSE <<>>)
  <1> DEFINE book == IF trouble = "none" THEN Book ELSE <<>>
  <1>0. PlaceOK /\ FilesOK /\ LockInv /\ WayInv
    BY DEF IInv
  <1>1. CASE trouble # "none"
    <2>1. trouble' = trouble
      BY BookRests, Moves, <1>0 DEF Next, Kill, given
    <2> QED
      BY <1>1, <2>1
  <1>2. CASE trouble = "none" /\ ~\E t \in Threads : Step(t)
    <2>1. (\E a \in Accounts : Start(a)) \/ UNCHANGED vars
      BY <1>2 DEF Next, Kill
    <2> QED
      BY <1>2, <2>1, BookRests
  <1>3. ASSUME trouble = "none", NEW t \in Threads, Step(t)
        PROVE  [Abstract!Next]_book
    <2>1. trouble' = trouble
      BY <1>0, <1>3, Moves DEF given
    <2>2. CASE Book' = Book
      BY <1>3, <2>1, <2>2
    <2>3. CASE Book' # Book
      <3>1. t[1] \notin ToSet(Book) /\ Book' = Append(Book, t[1]) /\ t[1] \in Accounts
        BY <1>0, <1>3, <2>3, BookStep, Pairs
      <3>2. book = Book /\ book' = Append(Book, t[1])
        BY <1>3, <2>1, <3>1
      <3>3. Abstract!ToSet(Book) = ToSet(Book)
        BY DEF Abstract!ToSet, ToSet
      <3> QED
        BY <3>1, <3>2, <3>3 DEF Abstract!Next
    <2> QED
      BY <2>2, <2>3
  <1> QED
    BY <1>1, <1>2, <1>3

(* For any number of accounts: where no write fails and nobody kills the     *)
(* process, accounts_all.txt only gains lines, one per account, each after   *)
(* those that were there, however many workers rewrite it.                   *)
THEOREM AccountsFileIsABook == Spec => OneLinePerAccount
  <1>1. Init => BookInv /\ Abstract!Init
    <2> SUFFICES ASSUME Init PROVE BookInv /\ Abstract!Init
      OBVIOUS
    <2>1. Book = <<>> /\ ToSet(Book) = {}
      BY DEF Init, Rewriting, Book, ToSet
    <2> QED
      BY <2>1 DEF Init, BookInv, Abstract!Init
  <1>2. IInv /\ BookInv /\ [Next]_vars => BookInv'
    BY BookNext
  <1>3. IInv /\ BookInv /\ [Next]_vars => [Abstract!Next]_(IF trouble = "none" THEN Book ELSE <<>>)
    BY StepOfBook
  <1>4. Spec => []BookInv
    BY Invariance, <1>1, <1>2, PTL DEF Spec
  <1> QED
    BY Invariance, <1>1, <1>3, <1>4, PTL DEF Spec, OneLinePerAccount, Abstract!Spec
=============================================================================
