-------------------------- MODULE HookedEngineProofs --------------------------
(***************************************************************************)
(* What the installer keeps true beside any number of engine threads, any  *)
(* names and any changes of the directory.                                 *)
(***************************************************************************)
EXTENDS HookedEngine, TLAPS

\* HookOrder has five hooks; a prefix of it with the pack hook has the save hook.
LEMMA PackBehindSave ==
    /\ Len(HookOrder) = 5
    /\ \A n \in 0..5 : "pack" \in ToSet(SubSeq(HookOrder, 1, n))
                         => "save" \in ToSet(SubSeq(HookOrder, 1, n))
<1>1. HookOrder \in Seq({"GetFileAttributesW", "CopyFileW", "save", "pack", "png"})
      /\ Len(HookOrder) = 5
  BY DEF HookOrder
<1>2. ASSUME NEW n \in 0..5, "pack" \in ToSet(SubSeq(HookOrder, 1, n))
      PROVE  "save" \in ToSet(SubSeq(HookOrder, 1, n))
  <2>1. /\ DOMAIN SubSeq(HookOrder, 1, n) = 1..n
        /\ \A i \in 1..n : SubSeq(HookOrder, 1, n)[i] = HookOrder[i]
    BY <1>1
  <2>2. PICK i \in 1..n : HookOrder[i] = "pack"
    BY <1>2, <2>1 DEF ToSet
  <2>3. i = 4
    BY <2>2, n \in 0..5, i \in {1, 2, 3, 4, 5} DEF HookOrder
  <2>4. 3 \in 1..n /\ HookOrder[3] = "save"
    BY <2>3 DEF HookOrder
  <2> QED
    BY <2>1, <2>4 DEF ToSet
<1> QED
  BY <1>1, <1>2

\* Why PlaceholderMeetsHook holds: no hook is enabled before the installation
\* ends, the save hook is with the pack hook, and only the pack hook makes
\* placeholders.
SaveInv ==
    /\ created \in 0..5
    /\ installer = "create" => created < 5
    /\ enabled # {} => installer \in {"installed", "failed"}
    /\ "pack" \in enabled => "save" \in enabled
    /\ \A t \in Threads : buffer[t] = "placeholder" => "pack" \in enabled
    /\ buffer \in [Threads -> {"none", "packed", "placeholder"}]
    /\ spilled = FALSE

\* Nothing is enabled at first, and nothing is packed.
LEMMA InitSave == Init => SaveInv
BY DEF Init, HookInit, SaveInv

\* A step that leaves what SaveInv is about alone keeps it.
LEMMA SaveStutter ==
    ASSUME SaveInv, UNCHANGED hookVars PROVE SaveInv'
BY DEF SaveInv, hookVars

\* No step of the installer or of the engine disturbs SaveInv.
LEMMA NextSave == SaveInv /\ [Next]_vars => SaveInv'
<1> SUFFICES ASSUME SaveInv, [Next]_vars PROVE SaveInv'
  OBVIOUS
<1>1. CASE Install
  <2>1. CASE CreateHook
    BY <2>1 DEF CreateHook, engineVars, SaveInv
  <2>2. CASE StoreOriginal
    BY <2>2, PackBehindSave DEF StoreOriginal, engineVars, SaveInv
  <2>3. CASE BeginWrite
    BY <2>3 DEF BeginWrite, engineVars, SaveInv
  <2>4. CASE EndWrite
    BY <2>4 DEF EndWrite, engineVars, SaveInv
  <2>5. CASE EnableAllHooks
    <3>1. PICK n \in 0..created : enabled' = ToSet(SubSeq(HookOrder, 1, n))
      BY <2>5 DEF EnableAllHooks
    <3>2. "pack" \in enabled' => "save" \in enabled'
      BY <3>1, PackBehindSave DEF SaveInv
    <3>3. installer' \in {"installed", "failed"} /\ enabled = {}
      BY <2>5 DEF EnableAllHooks, SaveInv
    <3> QED
      BY <2>5, <3>2, <3>3 DEF EnableAllHooks, engineVars, SaveInv
  <2>6. CASE InstallFails
    BY <2>6 DEF InstallFails, engineVars, SaveInv
  <2> QED
    BY <1>1, <2>1, <2>2, <2>3, <2>4, <2>5, <2>6 DEF Install
<1>2. ASSUME NEW t \in Threads, PackBuffer(t) PROVE SaveInv'
  BY <1>2 DEF PackBuffer, installVars, SaveInv
<1>3. ASSUME NEW t \in Threads, SaveToFile(t) PROVE SaveInv'
  BY <1>3 DEF SaveToFile, installVars, SaveInv
<1>4. CASE NewMovie
  BY <1>4 DEF NewMovie, installVars, SaveInv
<1>5. ASSUME NEW op \in Calls, MovieCall(op) PROVE SaveInv'
  BY <1>5 DEF MovieCall, installVars, SaveInv
<1>6. CASE UNCHANGED hookVars
  BY <1>6, SaveStutter
<1>7. CASE UNCHANGED vars
  BY <1>7, SaveStutter DEF vars, hookVars
<1> QED
  BY <1>1, <1>2, <1>3, <1>4, <1>5, <1>6, <1>7
  DEF Next, InstallHooksThread, SaveGame, PlayMovie, AskAttributes

\* However the installation ends and whenever the engine's threads pack and
\* save, no placeholder comes to the engine's own save.
THEOREM PlaceholderMeetsHookHolds == Spec => []PlaceholderMeetsHook
<1>1. SaveInv => PlaceholderMeetsHook
  BY DEF SaveInv, PlaceholderMeetsHook
<1> QED
  BY InitSave, NextSave, <1>1, PTL DEF Spec

------------------------------------------------------------------------------

\* A map whose entries are attributes that files have had since the scan began.
Gathered(m) ==
    \A e \in m : \E n \in Names : \E a \in was[n] \intersect Attributes :
        e = <<Key(n, "own"), a>>

\* A map that lacks none of these names, unless there was no such file for a time.
Complete(m, names) ==
    \A n \in names : \/ \E e \in m : e[1] = Key(n, "own")
                     \/ was[n] \intersect {Missing, Folder} # {}

\* Why CacheWasTrue holds: the map under construction is right about the names
\* read so far, and nobody can see it before it is complete.
CacheInv ==
    /\ disk \in [Dirs -> [Names -> Entries]]
    /\ was \in [Names -> SUBSET Entries]
    /\ scan \in {"no", "reading", "loaded", "failed"}
    /\ scan = "no" => attributes = {}
    /\ scan = "reading" => /\ Gathered(attributes)
                           /\ Complete(attributes, Names \ unread)
                           /\ \A n \in Names : disk[Game][n] \in was[n]
    /\ scan = "loaded" => Gathered(cache) /\ Complete(cache, Names)
    /\ scan # "loaded" => held = {} /\ answer = NoAnswer
    /\ answer # NoAnswer => answer.path \in Paths
    /\ CacheWasTrue

\* A key tells the names apart, and every spelling of a name whose letters are
\* ASCII gives the same one.
LEMMA Keys ==
    /\ \A n, s : Key(n, s)[1] = n
    /\ \A n, s : s = "own" \/ n \notin WideNames => Key(n, s) = Key(n, "own")
BY DEF Key

\* History only grows once the scan has begun, and both parts of the map's
\* correctness survive that.
LEMMA Monotone ==
    ASSUME was \in [Names -> SUBSET Entries], \A n \in Names : was[n] \subseteq was'[n],
           NEW m, NEW names, names \subseteq Names
    PROVE  /\ Gathered(m) => Gathered(m)'
           /\ Complete(m, names) => Complete(m, names)'
BY DEF Gathered, Complete, Key

\* What is found in a map that is right is a true answer.
LEMMA LookupTrue ==
    ASSUME Gathered(cache), Complete(cache, Names), NEW path \in Paths,
           path.spelling = "own" \/ path.name \notin WideNames
    PROVE  \E e \in was[path.name] :
              Lookup(path) = IF e = Folder THEN Missing ELSE e
<1> DEFINE found == {e \in cache : e[1] = Key(path.name, path.spelling)}
<1>1. path.name \in Names
      /\ Key(path.name, path.spelling) = Key(path.name, "own")
  BY Keys DEF Paths
<1>2. CASE found = {}
  <2>1. PICK e \in was[path.name] : e \in {Missing, Folder}
    BY <1>1, <1>2 DEF Complete
  <2>2. Lookup(path) = Missing
    BY <1>2 DEF Lookup
  <2> QED
    BY <2>1, <2>2
<1>3. CASE found # {}
  <2>1. PICK f \in found : Lookup(path) = f[2]
    BY <1>3 DEF Lookup
  <2>2. PICK n \in Names : \E a \in was[n] \intersect Attributes :
                              f = <<Key(n, "own"), a>>
    BY DEF Gathered
  <2>3. PICK a \in was[n] \intersect Attributes : f = <<Key(n, "own"), a>>
    BY <2>2
  <2>4. n = path.name
    BY <2>3, <1>1, Keys
  <2>5. a # Folder
    BY DEF Attributes, Folder
  <2> QED
    BY <2>1, <2>3, <2>4, <2>5
<1> QED
  BY <1>2, <1>3

\* There is no map before the scan.
LEMMA InitCacheInv == Init => CacheInv
BY CacheAssumption DEF Init, CacheInit, CacheInv, CacheWasTrue

\* Steps that leave the cache alone keep CacheInv.
LEMMA CacheStutter == ASSUME CacheInv, UNCHANGED cacheVars PROVE CacheInv'
BY DEF CacheInv, cacheVars, CacheWasTrue, Gathered, Complete, Key

\* No entry that is read, no change of the directory and no lookup disturbs it.
LEMMA NextCache == CacheInv /\ [Next]_vars => CacheInv'
<1> SUFFICES ASSUME CacheInv, [Next]_vars PROVE CacheInv'
  OBVIOUS
<1>1. CASE BeginScan
  <2>1. was' \in [Names -> SUBSET Entries] /\ \A n \in Names : disk[Game][n] \in was'[n]
    BY <1>1 DEF BeginScan, CacheInv, Dirs
  <2>2. attributes' = {} /\ unread' = Names /\ held' = {} /\ answer' = NoAnswer
    BY <1>1 DEF BeginScan, CacheInv
  <2> QED
    BY <1>1, <2>1, <2>2 DEF BeginScan, CacheInv, CacheWasTrue, Gathered, Complete
<1>2. ASSUME NEW n \in Names, ReadEntry(n) PROVE CacheInv'
  <2> USE DEF ReadEntry
  <2>1. disk[Game][n] \in was[n] /\ disk[Game][n] \in Attributes \union {Missing, Folder}
    BY <1>2 DEF CacheInv, Dirs, Entries
  <2>2. Gathered(attributes')
    BY <1>2, <2>1 DEF CacheInv, Gathered
  <2>3. Complete(attributes', Names \ unread')
    <3> SUFFICES ASSUME NEW k \in Names \ unread'
                 PROVE  \/ \E e \in attributes' : e[1] = Key(k, "own")
                        \/ was[k] \intersect {Missing, Folder} # {}
      BY DEF Complete
    <3>1. CASE k = n /\ disk[Game][n] \in Attributes
      <4>1. <<Key(n, "own"), disk[Game][n]>> \in attributes'
        BY <1>2, <3>1
      <4>2. <<Key(n, "own"), disk[Game][n]>>[1] = Key(k, "own")
        BY <3>1
      <4> QED
        BY <4>1, <4>2
    <3>2. CASE k = n /\ disk[Game][n] \in {Missing, Folder}
      BY <2>1, <3>2
    <3>3. CASE k \in Names \ unread
      BY <1>2, <3>3 DEF CacheInv, Complete
    <3> QED
      BY <1>2, <2>1, <3>1, <3>2, <3>3
  <2> QED
    BY <1>2, <2>2, <2>3 DEF CacheInv, CacheWasTrue, Gathered, Complete, Key
<1>3. CASE Publish
  BY <1>3 DEF Publish, CacheInv, CacheWasTrue, Gathered, Complete, Key
<1>4. CASE ScanFails
  BY <1>4 DEF ScanFails, CacheInv, CacheWasTrue, Gathered, Complete, Key
<1>5. ASSUME NEW path \in Paths, NEW t, NEW hooked, GetFileAttributesW(t, path, hooked)
      PROVE  CacheInv'
  <2> USE DEF GetFileAttributesW
  <2>1. /\ UNCHANGED <<disk, scan, unread, attributes, cache, was>>
        /\ Gathered(attributes)' = Gathered(attributes)
        /\ Gathered(cache)' = Gathered(cache)
        /\ Complete(attributes, Names \ unread)' = Complete(attributes, Names \ unread)
        /\ Complete(cache, Names)' = Complete(cache, Names)
    BY <1>5 DEF Gathered, Complete, Key
  <2>2. CASE scan # "loaded"
    <3>1. held' = {} /\ answer' = NoAnswer
      BY <1>5, <2>2 DEF CacheInv
    <3> QED
      BY <2>1, <2>2, <3>1 DEF CacheInv, CacheWasTrue
  <2>3. CASE scan = "loaded"
    <3>1. answer' = NoAnswer \/ answer' = [path |-> path, value |-> Lookup(path)]
      BY <1>5
    <3>2. CacheWasTrue'
      <4> SUFFICES ASSUME answer' = [path |-> path, value |-> Lookup(path)],
                          path.spelling = "own" \/ path.name \notin WideNames
                   PROVE  \E e \in was[path.name] :
                             Lookup(path) = IF e = Folder THEN Missing ELSE e
        BY <2>1, <3>1 DEF CacheWasTrue
      <4> QED
        BY <2>3, LookupTrue DEF CacheInv
    <3>3. answer' # NoAnswer => answer'.path \in Paths
      BY <3>1
    <3> QED
      BY <2>1, <2>3, <3>2, <3>3 DEF CacheInv
  <2> QED
    BY <2>2, <2>3 DEF CacheInv
<1>6. ASSUME NEW n \in Names, Change(n) PROVE CacheInv'
  <2>1. PICK e \in Entries : /\ disk' = [disk EXCEPT ![Game][n] = e]
                              /\ was' = [was EXCEPT ![n] = @ \union {e}]
    BY <1>6 DEF Change
  <2>2. UNCHANGED <<scan, unread, attributes, cache, held, answer>>
    BY <1>6 DEF Change
  <2>3. /\ disk' \in [Dirs -> [Names -> Entries]]
        /\ was' \in [Names -> SUBSET Entries]
        /\ \A k \in Names : was[k] \subseteq was'[k]
        /\ \A k \in Names : disk'[Game][k] \in {e, disk[Game][k]}
        /\ disk'[Game][n] \in was'[n]
        /\ \A k \in Names \ {n} : disk'[Game][k] = disk[Game][k]
    BY <2>1 DEF CacheInv, Dirs
  <2>4. scan' = "reading" => /\ Gathered(attributes)'
                             /\ Complete(attributes, Names \ unread)'
                             /\ \A k \in Names : disk'[Game][k] \in was'[k]
    BY <2>2, <2>3, Monotone DEF CacheInv
  <2>5. scan' = "loaded" => Gathered(cache)' /\ Complete(cache, Names)'
    BY <2>2, <2>3, Monotone DEF CacheInv
  <2>6. CacheWasTrue'
    BY <2>2, <2>3 DEF CacheInv, CacheWasTrue, Paths
  <2> QED
    BY <2>2, <2>3, <2>4, <2>5, <2>6 DEF CacheInv
<1>7. CASE UNCHANGED cacheVars
  BY <1>7, CacheStutter
<1>8. CASE UNCHANGED vars
  BY <1>8, CacheStutter DEF vars, cacheVars
<1> QED
  BY <1>1, <1>2, <1>3, <1>4, <1>5, <1>6, <1>7, <1>8
  DEF Next, InstallHooksThread, Load, SaveGame, PlayMovie, AskAttributes

\* Whatever happens to the files and wherever the scan is cut short, an answer
\* of the cache about a file in the game's g00 was true since the scan began.
THEOREM CacheWasTrueHolds == Spec => []CacheWasTrue
<1>1. CacheInv => CacheWasTrue
  BY DEF CacheInv
<1> QED
  BY InitCacheInv, NextCache, <1>1, PTL DEF Spec

------------------------------------------------------------------------------

\* The elements of two sequences put together.
LEMMA ToSetConcat ==
    ASSUME NEW S, NEW s \in Seq(S), NEW t \in Seq(S)
    PROVE  s \o t \in Seq(S) /\ ToSet(s \o t) = ToSet(s) \union ToSet(t)
<1>1. /\ s \o t \in Seq(S) /\ Len(s \o t) = Len(s) + Len(t)
      /\ DOMAIN (s \o t) = 1..Len(s \o t)
      /\ \A i \in 1..Len(s) : (s \o t)[i] = s[i]
      /\ \A i \in 1..Len(t) : (s \o t)[Len(s) + i] = t[i]
  OBVIOUS
<1>2. ASSUME NEW x \in ToSet(s \o t) PROVE x \in ToSet(s) \union ToSet(t)
  <2>1. PICK i \in 1..(Len(s) + Len(t)) : x = (s \o t)[i]
    BY <1>1 DEF ToSet
  <2>2. CASE i <= Len(s)
    BY <1>1, <2>1, <2>2 DEF ToSet
  <2>3. CASE i > Len(s)
    <3>1. (i - Len(s)) \in 1..Len(t) /\ Len(s) + (i - Len(s)) = i
      BY <2>3
    <3> QED
      BY <1>1, <2>1, <3>1 DEF ToSet
  <2> QED
    BY <2>2, <2>3
<1>3. ASSUME NEW x \in ToSet(s) PROVE x \in ToSet(s \o t)
  <2>1. PICK i \in 1..Len(s) : x = s[i]
    BY DEF ToSet
  <2>2. i \in 1..Len(s \o t)
    BY <1>1
  <2> QED
    BY <1>1, <2>1, <2>2 DEF ToSet
<1>4. ASSUME NEW x \in ToSet(t) PROVE x \in ToSet(s \o t)
  <2>1. PICK i \in 1..Len(t) : x = t[i]
    BY DEF ToSet
  <2> QED
    BY <1>1, <2>1, Len(s) + i \in 1..Len(s \o t) DEF ToSet
<1> QED
  BY <1>1, <1>2, <1>3, <1>4

\* The names of the sites.
SiteNames ==
    {"end_loop", "is_playing_alt", "is_playing_alt_jnz", "is_playing",
     "is_playing_jz", "seek_nop", "destroy", "new", "new_nop_1", "new_store",
     "new_nop_2", "new_nop_3", "init_nop_pre", "init_nop", "init_call",
     "last_error", "get_size", "get_size_nop", "is_rgb", "total_time",
     "check_error_nop", "check_error", "check_need_update", "fill_ecx",
     "fill_force", "fill_buffer"}

\* Every operation runs through some site, and all its sites are patched.
LEMMA OperationSites ==
    /\ SiteOrder \in Seq(SiteNames)
    /\ \A op \in DOMAIN Operation :
          ToSet(Operation[op]) # {} /\ ToSet(Operation[op]) \subseteq ToSet(SiteOrder)
<1> DEFINE
      S1 == EndLoopSites
      S2 == S1 \o IsPlayingAltSites
      S3 == S2 \o IsPlayingSites
      S4 == S3 \o SeekSites
      S5 == S4 \o DestroySites
      S6 == S5 \o NewSites
      S7 == S6 \o InitSites
      S8 == S7 \o LastErrorSites
      S9 == S8 \o GetSizeSites
      S10 == S9 \o IsRgbSites
      S11 == S10 \o TotalTimeSites
      S12 == S11 \o CheckErrorSites
      S13 == S12 \o NeedUpdateSites
      S14 == S13 \o FillSites
<1>1. \A x \in {EndLoopSites, IsPlayingAltSites, IsPlayingSites, SeekSites, DestroySites,
             NewSites, InitSites, LastErrorSites, GetSizeSites, IsRgbSites,
             TotalTimeSites, CheckErrorSites, NeedUpdateSites, FillSites} :
        x \in Seq(SiteNames) /\ Len(x) > 0
  <2>1. EndLoopSites \in Seq(SiteNames) /\ Len(EndLoopSites) > 0
    BY DEF EndLoopSites, SiteNames
  <2>2. IsPlayingAltSites \in Seq(SiteNames) /\ Len(IsPlayingAltSites) > 0
    BY DEF IsPlayingAltSites, SiteNames
  <2>3. IsPlayingSites \in Seq(SiteNames) /\ Len(IsPlayingSites) > 0
    BY DEF IsPlayingSites, SiteNames
  <2>4. SeekSites \in Seq(SiteNames) /\ Len(SeekSites) > 0
    BY DEF SeekSites, SiteNames
  <2>5. DestroySites \in Seq(SiteNames) /\ Len(DestroySites) > 0
    BY DEF DestroySites, SiteNames
  <2>6. NewSites \in Seq(SiteNames) /\ Len(NewSites) > 0
    BY DEF NewSites, SiteNames
  <2>7. InitSites \in Seq(SiteNames) /\ Len(InitSites) > 0
    BY DEF InitSites, SiteNames
  <2>8. LastErrorSites \in Seq(SiteNames) /\ Len(LastErrorSites) > 0
    BY DEF LastErrorSites, SiteNames
  <2>9. GetSizeSites \in Seq(SiteNames) /\ Len(GetSizeSites) > 0
    BY DEF GetSizeSites, SiteNames
  <2>10. IsRgbSites \in Seq(SiteNames) /\ Len(IsRgbSites) > 0
    BY DEF IsRgbSites, SiteNames
  <2>11. TotalTimeSites \in Seq(SiteNames) /\ Len(TotalTimeSites) > 0
    BY DEF TotalTimeSites, SiteNames
  <2>12. CheckErrorSites \in Seq(SiteNames) /\ Len(CheckErrorSites) > 0
    BY DEF CheckErrorSites, SiteNames
  <2>13. NeedUpdateSites \in Seq(SiteNames) /\ Len(NeedUpdateSites) > 0
    BY DEF NeedUpdateSites, SiteNames
  <2>14. FillSites \in Seq(SiteNames) /\ Len(FillSites) > 0
    BY DEF FillSites, SiteNames
  <2> QED
    BY <2>1, <2>2, <2>3, <2>4, <2>5, <2>6, <2>7, <2>8, <2>9, <2>10, <2>11, <2>12, <2>13, <2>14
<1>2. S1 \in Seq(SiteNames)
  BY <1>1
<1> HIDE DEF S1
<1>3. S2 \in Seq(SiteNames) /\ ToSet(S2) = ToSet(S1) \union ToSet(IsPlayingAltSites)
  BY <1>1, <1>2, ToSetConcat
<1> HIDE DEF S2
<1>4. S3 \in Seq(SiteNames) /\ ToSet(S3) = ToSet(S2) \union ToSet(IsPlayingSites)
  BY <1>1, <1>3, ToSetConcat
<1> HIDE DEF S3
<1>5. S4 \in Seq(SiteNames) /\ ToSet(S4) = ToSet(S3) \union ToSet(SeekSites)
  BY <1>1, <1>4, ToSetConcat
<1> HIDE DEF S4
<1>6. S5 \in Seq(SiteNames) /\ ToSet(S5) = ToSet(S4) \union ToSet(DestroySites)
  BY <1>1, <1>5, ToSetConcat
<1> HIDE DEF S5
<1>7. S6 \in Seq(SiteNames) /\ ToSet(S6) = ToSet(S5) \union ToSet(NewSites)
  BY <1>1, <1>6, ToSetConcat
<1> HIDE DEF S6
<1>8. S7 \in Seq(SiteNames) /\ ToSet(S7) = ToSet(S6) \union ToSet(InitSites)
  BY <1>1, <1>7, ToSetConcat
<1> HIDE DEF S7
<1>9. S8 \in Seq(SiteNames) /\ ToSet(S8) = ToSet(S7) \union ToSet(LastErrorSites)
  BY <1>1, <1>8, ToSetConcat
<1> HIDE DEF S8
<1>10. S9 \in Seq(SiteNames) /\ ToSet(S9) = ToSet(S8) \union ToSet(GetSizeSites)
  BY <1>1, <1>9, ToSetConcat
<1> HIDE DEF S9
<1>11. S10 \in Seq(SiteNames) /\ ToSet(S10) = ToSet(S9) \union ToSet(IsRgbSites)
  BY <1>1, <1>10, ToSetConcat
<1> HIDE DEF S10
<1>12. S11 \in Seq(SiteNames) /\ ToSet(S11) = ToSet(S10) \union ToSet(TotalTimeSites)
  BY <1>1, <1>11, ToSetConcat
<1> HIDE DEF S11
<1>13. S12 \in Seq(SiteNames) /\ ToSet(S12) = ToSet(S11) \union ToSet(CheckErrorSites)
  BY <1>1, <1>12, ToSetConcat
<1> HIDE DEF S12
<1>14. S13 \in Seq(SiteNames) /\ ToSet(S13) = ToSet(S12) \union ToSet(NeedUpdateSites)
  BY <1>1, <1>13, ToSetConcat
<1> HIDE DEF S13
<1>15. S14 \in Seq(SiteNames) /\ ToSet(S14) = ToSet(S13) \union ToSet(FillSites)
  BY <1>1, <1>14, ToSetConcat
<1> HIDE DEF S14
<1>16. SiteOrder = S14
  BY DEF SiteOrder, S1, S2, S3, S4, S5, S6, S7, S8, S9, S10, S11, S12, S13, S14
<1>17. \A x \in {EndLoopSites, IsPlayingAltSites, IsPlayingSites, SeekSites, DestroySites,
             NewSites, InitSites, LastErrorSites, GetSizeSites, IsRgbSites,
             TotalTimeSites, CheckErrorSites, NeedUpdateSites, FillSites} :
         ToSet(x) # {} /\ ToSet(x) \subseteq ToSet(SiteOrder)
  <2>1. ASSUME NEW x \in Seq(SiteNames), Len(x) > 0 PROVE ToSet(x) # {}
    <3>1. 1 \in DOMAIN x
      BY <2>1
    <3> QED
      BY <3>1 DEF ToSet
  <2>2. \A x \in {EndLoopSites, IsPlayingAltSites, IsPlayingSites, SeekSites, DestroySites,
               NewSites, InitSites, LastErrorSites, GetSizeSites, IsRgbSites,
               TotalTimeSites, CheckErrorSites, NeedUpdateSites, FillSites} :
           ToSet(x) \subseteq ToSet(S14)
    <3>1. EndLoopSites = S1
      BY DEF S1
    <3> QED
      BY <3>1, <1>3, <1>4, <1>5, <1>6, <1>7, <1>8, <1>9, <1>10, <1>11, <1>12, <1>13, <1>14, <1>15
  <2> QED
    BY <1>1, <1>16, <2>1, <2>2
<1>18. \A op \in DOMAIN Operation : Operation[op] \in
         {EndLoopSites, IsPlayingAltSites, IsPlayingSites, SeekSites, DestroySites,
             NewSites, InitSites, LastErrorSites, GetSizeSites, IsRgbSites,
             TotalTimeSites, CheckErrorSites, NeedUpdateSites, FillSites}
  BY DEF Operation
<1> QED
  BY <1>15, <1>16, <1>17, <1>18

\* Before the first patch every operation runs the engine's code, and after the
\* last one the hook's.
LEMMA ServedAtTheEnds ==
    ASSUME NEW op \in DOMAIN Operation, installer # "write"
    PROVE  /\ written = 0 => ServedBy(op) = "engine"
           /\ written = Len(SiteOrder) => ServedBy(op) = "hook"
<1>1. ToSet(SubSeq(SiteOrder, 1, 0)) = {}
  BY OperationSites DEF ToSet
<1>2. ToSet(SubSeq(SiteOrder, 1, Len(SiteOrder))) = ToSet(SiteOrder)
  <2>1. SubSeq(SiteOrder, 1, Len(SiteOrder)) = SiteOrder
    BY OperationSites
  <2> QED
    BY <2>1
<1> QED
  BY <1>1, <1>2, OperationSites DEF ServedBy

\* Why MovieMeetsItsOwn holds: the movie's object is of the kind that new's code
\* was, which is the hook's after a whole installation and the engine's before
\* the first patch.
MovieInv ==
    /\ written \in 0..Len(SiteOrder) /\ Len(SiteOrder) \in Nat \ {0}
    /\ installer = "write" => written < Len(SiteOrder)
    /\ installer = "installed" => written = Len(SiteOrder)
    /\ movie \in {"nobody", "engine", "hook"} /\ early \in BOOLEAN /\ mixed \in BOOLEAN
    /\ written = 0 => movie # "hook"
    /\ movie # "nobody" /\ ~early => installer \in {"installed", "failed"}
    /\ movie # "nobody" /\ ~early /\ installer = "installed" => movie = "hook"
    /\ MovieMeetsItsOwn

\* There is no movie, and no patch, at first.
LEMMA InitMovie == Init => MovieInv
<1>1. Len(SiteOrder) \in Nat \ {0}
  <2>1. "seek" \in DOMAIN Operation
    BY DEF Operation
  <2>2. ToSet(SiteOrder) # {}
    BY <2>1, OperationSites
  <2>3. Len(SiteOrder) \in Nat /\ DOMAIN SiteOrder = 1..Len(SiteOrder)
    BY OperationSites
  <2> QED
    BY <2>2, <2>3 DEF ToSet
<1> SUFFICES ASSUME Init PROVE MovieInv
  OBVIOUS
<1>2. /\ installer = "create" /\ written = 0 /\ movie = "nobody"
      /\ early = FALSE /\ mixed = FALSE
  BY DEF Init, HookInit
<1>3. MovieMeetsItsOwn
  BY <1>2 DEF MovieMeetsItsOwn
<1>4. early \in BOOLEAN /\ mixed \in BOOLEAN
  BY <1>2
<1>5. written \in 0..Len(SiteOrder)
  BY <1>1, <1>2
<1> QED
  BY <1>1, <1>2, <1>3, <1>4, <1>5 DEF MovieInv

\* Steps that leave the hooks and the movie alone keep MovieInv.
LEMMA MovieStutter == ASSUME MovieInv, UNCHANGED hookVars PROVE MovieInv'
BY DEF MovieInv, hookVars, MovieMeetsItsOwn

\* No patch and no operation of the movie disturbs it.
LEMMA NextMovie == MovieInv /\ [Next]_vars => MovieInv'
<1> SUFFICES ASSUME MovieInv, [Next]_vars PROVE MovieInv'
  OBVIOUS
<1> USE DEF MovieMeetsItsOwn
<1>1. CASE Install
  <2>1. CASE CreateHook
    BY <2>1 DEF CreateHook, engineVars, MovieInv
  <2>2. CASE StoreOriginal
    BY <2>2 DEF StoreOriginal, engineVars, MovieInv
  <2>3. CASE BeginWrite
    BY <2>3 DEF BeginWrite, engineVars, MovieInv
  <2>4. CASE EndWrite
    BY <2>4 DEF EndWrite, engineVars, MovieInv
  <2>5. CASE EnableAllHooks
    <3>1. installer' \in {"installed", "failed"} /\ written = Len(SiteOrder)
          /\ installer = "patch" /\ UNCHANGED <<written, movie, early, mixed>>
      BY <2>5 DEF EnableAllHooks, engineVars
    <3> QED
      BY <3>1 DEF MovieInv
  <2>6. CASE InstallFails
    BY <2>6 DEF InstallFails, engineVars, MovieInv
  <2> QED
    BY <1>1, <2>1, <2>2, <2>3, <2>4, <2>5, <2>6 DEF Install
<1>2. ASSUME NEW t \in Threads, PackBuffer(t) PROVE MovieInv'
  BY <1>2 DEF PackBuffer, installVars, MovieInv
<1>3. ASSUME NEW t \in Threads, SaveToFile(t) PROVE MovieInv'
  BY <1>3 DEF SaveToFile, installVars, MovieInv
<1>4. CASE NewMovie
  <2>1. /\ UNCHANGED <<installer, written>>
        /\ movie' \in {"engine", "hook"} /\ early' \in BOOLEAN /\ mixed' \in BOOLEAN
        /\ movie' = "hook" <=> ServedBy("new") = "hook"
        /\ ~early' <=> installer \in {"installed", "failed"}
        /\ mixed' <=> ServedBy("new") = "nobody"
    BY <1>4 DEF NewMovie, installVars
  <2>2. "new" \in DOMAIN Operation
    BY DEF Operation
  <2>3. CASE installer = "write"
    <3>1. written = 0 => ServedBy("new") # "hook"
      <4>1. ToSet(SubSeq(SiteOrder, 1, 0)) = {}
        BY OperationSites DEF ToSet
      <4> QED
        BY <4>1, <2>2, OperationSites DEF ServedBy
    <3> QED
      BY <2>1, <2>3, <3>1 DEF MovieInv
  <2>4. CASE installer # "write"
    <3>1. /\ written = 0 => ServedBy("new") = "engine"
          /\ written = Len(SiteOrder) => ServedBy("new") = "hook"
      BY <2>2, <2>4, ServedAtTheEnds
    <3> QED
      BY <2>1, <2>4, <3>1 DEF MovieInv
  <2> QED
    BY <2>3, <2>4
<1>5. ASSUME NEW op \in Calls, MovieCall(op) PROVE MovieInv'
  <2>1. /\ UNCHANGED <<installer, written, early>> /\ movie # "nobody"
        /\ mixed' <=> mixed \/ ServedBy(op) # movie
        /\ mixed' \in BOOLEAN
        /\ movie' \in {movie, "nobody"}
    BY <1>5 DEF MovieCall, installVars
  <2>2. op \in DOMAIN Operation
    BY DEF Calls
  <2>3. CASE installer = "write"
    BY <2>1, <2>3 DEF MovieInv
  <2>4. CASE installer # "write"
    <3>1. /\ written = 0 => ServedBy(op) = "engine"
          /\ written = Len(SiteOrder) => ServedBy(op) = "hook"
      BY <2>2, <2>4, ServedAtTheEnds
    <3> QED
      BY <2>1, <2>4, <3>1 DEF MovieInv
  <2> QED
    BY <2>3, <2>4
<1>6. CASE UNCHANGED hookVars
  BY <1>6, MovieStutter
<1>7. CASE UNCHANGED vars
  BY <1>7, MovieStutter DEF vars, hookVars
<1> QED
  BY <1>1, <1>2, <1>3, <1>4, <1>5, <1>6, <1>7
  DEF Next, InstallHooksThread, SaveGame, PlayMovie, AskAttributes

\* A movie meets code that is not its own only if it was made while the patches
\* were written, or the installation failed among them.
THEOREM MovieMeetsItsOwnHolds == Spec => []MovieMeetsItsOwn
<1>1. MovieInv => MovieMeetsItsOwn
  BY DEF MovieInv
<1> QED
  BY InitMovie, NextMovie, <1>1, PTL DEF Spec

------------------------------------------------------------------------------

\* The original of a hook is stored before the next one is created, and of all
\* of them before the first patch.
HooksTyped ==
    /\ installer \in {"create", "store", "patch", "write", "installed", "failed"}
    /\ created \in 0..5
    /\ installer = "create" => created < 5
    /\ installer = "store" => created > 0
    /\ installer \in {"patch", "write"} => created = 5
    /\ enabled \subseteq original /\ original \subseteq Hooks
    /\ \A i \in 1..created :
          HookOrder[i] \in original \/ (installer = "store" /\ i = created)

\* The variables of the cache that CacheInv does not speak of.
CacheTyped ==
    /\ changes \in 0..MaxChanges /\ unread \subseteq Names
    /\ \A e \in attributes : e[1][1] \in Names /\ e[2] \in Attributes
    /\ \A e \in cache : e[1][1] \in Names /\ e[2] \in Attributes
    /\ held \subseteq Threads
    /\ answer.value \in Entries \/ answer = NoAnswer

\* The steps of the installer keep the order of its calls.
LEMMA InstallTyped == HooksTyped /\ Install => HooksTyped'
<1> SUFFICES ASSUME HooksTyped, Install PROVE HooksTyped'
  OBVIOUS
<1> USE PackBehindSave
<1>0. \A i \in 1..5 : HookOrder[i] \in Hooks
  <2>1. DOMAIN HookOrder = 1..5
    BY DEF HookOrder
  <2> QED
    BY <2>1 DEF Hooks, ToSet
<1>1. CASE CreateHook
  BY <1>1 DEF CreateHook, engineVars, HooksTyped
<1>2. CASE StoreOriginal
  BY <1>0, <1>2 DEF StoreOriginal, engineVars, HooksTyped
<1>3. CASE BeginWrite
  BY <1>3 DEF BeginWrite, engineVars, HooksTyped
<1>4. CASE EndWrite
  BY <1>4 DEF EndWrite, engineVars, HooksTyped
<1>5. CASE EnableAllHooks
  <2>1. PICK n \in 0..created : enabled' = ToSet(SubSeq(HookOrder, 1, n))
    BY <1>5 DEF EnableAllHooks
  <2>2. n \in 0..5 /\ installer = "patch" /\ created = 5
    BY <1>5 DEF EnableAllHooks, HooksTyped
  <2>3. HookOrder \in Seq(Hooks)
    BY <1>0 DEF HookOrder
  <2>4. /\ DOMAIN SubSeq(HookOrder, 1, n) = 1..n
        /\ \A i \in 1..n : SubSeq(HookOrder, 1, n)[i] = HookOrder[i]
    BY <2>2, <2>3
  <2>5. \A i \in 1..n : HookOrder[i] \in original
    BY <2>2 DEF HooksTyped
  <2>6. enabled' \subseteq original
    BY <2>1, <2>4, <2>5 DEF ToSet
  <2>7. installer' \in {"installed", "failed"}
    BY <1>5 DEF EnableAllHooks
  <2>8. UNCHANGED <<created, original>>
    BY <1>5 DEF EnableAllHooks
  <2> QED
    BY <2>2, <2>6, <2>7, <2>8 DEF HooksTyped
<1>6. CASE InstallFails
  BY <1>6 DEF InstallFails, engineVars, HooksTyped
<1> QED
  BY <1>1, <1>2, <1>3, <1>4, <1>5, <1>6 DEF Install

\* Nobody else touches what the installer has made.
LEMMA NextHooksTyped == HooksTyped /\ [Next]_vars => HooksTyped'
<1> SUFFICES ASSUME HooksTyped, [Next]_vars PROVE HooksTyped'
  OBVIOUS
<1>1. CASE UNCHANGED installVars
  BY <1>1 DEF installVars, HooksTyped
<1>2. CASE Install
  BY <1>2, InstallTyped
<1>3. UNCHANGED installVars \/ Install
  BY DEF Next, InstallHooksThread, SaveGame, PlayMovie, AskAttributes, PackBuffer,
         SaveToFile, NewMovie, MovieCall, installVars, hookVars, vars
<1> QED
  BY <1>1, <1>2, <1>3

\* What a lookup finds is a file's attributes.
LEMMA LookupTyped ==
    ASSUME CacheTyped, NEW path PROVE Lookup(path) \in Entries
<1> DEFINE found == {e \in cache : e[1] = Key(path.name, path.spelling)}
<1>1. CASE found = {}
  BY <1>1 DEF Lookup, Entries
<1>2. CASE found # {}
  <2>1. (CHOOSE e \in found : TRUE) \in found
    BY <1>2
  <2>2. (CHOOSE e \in found : TRUE)[2] \in Attributes
    BY <2>1 DEF CacheTyped
  <2> QED
    BY <1>2, <2>2 DEF Lookup, Entries
<1> QED
  BY <1>1, <1>2

\* Entries of the directory are names, however it changes.
LEMMA NextCacheTyped == CacheTyped /\ [Next]_vars => CacheTyped'
<1> SUFFICES ASSUME CacheTyped, [Next]_vars PROVE CacheTyped'
  OBVIOUS
<1>1. CASE UNCHANGED cacheVars
  BY <1>1 DEF cacheVars, CacheTyped
<1>2. CASE BeginScan
  BY <1>2 DEF BeginScan, CacheTyped
<1>3. ASSUME NEW n \in Names, ReadEntry(n) PROVE CacheTyped'
  <2>1. Key(n, "own")[1] = n
    BY DEF Key
  <2> QED
    BY <1>3, <2>1 DEF ReadEntry, CacheTyped
<1>4. CASE Publish
  BY <1>4 DEF Publish, CacheTyped
<1>5. CASE ScanFails
  BY <1>5 DEF ScanFails, CacheTyped
<1>6. ASSUME NEW t \in Threads, NEW path \in Paths, NEW hooked,
             GetFileAttributesW(t, path, hooked)
      PROVE  CacheTyped'
  <2>1. held' \subseteq Threads
    BY <1>6 DEF GetFileAttributesW, CacheTyped
  <2>2. answer' = NoAnswer \/ answer' = [path |-> path, value |-> Lookup(path)]
    BY <1>6 DEF GetFileAttributesW
  <2>3. answer'.value \in Entries \/ answer' = NoAnswer
    BY <2>2, LookupTyped
  <2> QED
    BY <1>6, <2>1, <2>3 DEF GetFileAttributesW, CacheTyped
<1>7. ASSUME NEW n \in Names, Change(n) PROVE CacheTyped'
  BY <1>7, CacheAssumption DEF Change, CacheTyped
<1> QED
  BY <1>1, <1>2, <1>3, <1>4, <1>5, <1>6, <1>7
  DEF Next, InstallHooksThread, Load, SaveGame, PlayMovie, AskAttributes, vars, cacheVars

\* Each variable keeps its type, and a hook is enabled only when the detour can
\* call the original.
THEOREM TypeCorrect == Spec => []TypeOK
<1>1. Init => HooksTyped /\ CacheTyped
  BY CacheAssumption DEF Init, HookInit, CacheInit, HooksTyped, CacheTyped
<1>2. HooksTyped /\ CacheTyped /\ SaveInv /\ MovieInv /\ CacheInv => TypeOK
  <2> SUFFICES ASSUME HooksTyped, CacheTyped, SaveInv, MovieInv, CacheInv PROVE TypeOK
    OBVIOUS
  <2>1. /\ installer \in {"create", "store", "patch", "write", "installed", "failed"}
        /\ created \in 0..Len(HookOrder) /\ written \in 0..Len(SiteOrder)
        /\ enabled \subseteq original /\ original \subseteq Hooks
    BY PackBehindSave DEF HooksTyped, MovieInv
  <2>2. /\ buffer \in [Threads -> {"none", "packed", "placeholder"}]
        /\ movie \in {"nobody", "engine", "hook"} /\ {spilled, early, mixed} \subseteq BOOLEAN
    BY DEF SaveInv, MovieInv
  <2>3. /\ disk \in [Dirs -> [Names -> Entries]] /\ was \in [Names -> SUBSET Entries]
        /\ scan \in {"no", "reading", "loaded", "failed"}
    BY DEF CacheInv
  <2> QED
    BY <2>1, <2>2, <2>3 DEF CacheTyped, TypeOK
<1> QED
  BY <1>1, <1>2, NextHooksTyped, NextCacheTyped, InitSave, NextSave, InitMovie, NextMovie,
     InitCacheInv, NextCache, PTL DEF Spec

==============================================================================
