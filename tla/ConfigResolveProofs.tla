------------------------ MODULE ConfigResolveProofs ------------------------
(***************************************************************************)
(* What TLAPS proves of ConfigResolve: whatever the texts in config.json,  *)
(* the directories searched and the order of failed saves, deaths and      *)
(* edits, start-up binds nothing unguarded and rewrites no file that loads,*)
(* a damaged file is copied before it is replaced, what the app saves is   *)
(* what the next start finds, a start is refused only for its host's name  *)
(* or for blanks, and an accepted address and endpoint are usable.         *)
(* ConfigTextProofs has the lemmas on texts.                               *)
(***************************************************************************)
EXTENDS ConfigResolve, ConfigTextProofs, TLAPS

\* The files are where the program looks for them.
PlaceInv ==
    /\ DOMAIN json = Dir /\ DOMAIN bak = Dir
    /\ dirs \in Searched /\ at \in DOMAIN dirs
    /\ corrupt_dir = NoDir \/ \E i \in DOMAIN dirs : corrupt_dir = dirs[i]
    /\ minted \in Nat /\ minted >= EmptyToken

\* While start-up is looking, none of the directories it has looked into has a
\* config.json that loads.
NothingFound ==
    \A i \in DOMAIN dirs :
        \/ phase = "search" /\ i < at
        \/ phase \in {"migrate", "seed"}
      => ~IsDoc(json[dirs[i]])

\* The first damaged file has been copied, unless the copy failed.
Kept ==
    (phase # "down" /\ corrupt_dir # NoDir /\ json[corrupt_dir] \in Garbage)
        => backup = "failed" \/ bak[corrupt_dir] = json[corrupt_dir]

Resolved == phase \in {"bind", "up", "refused"}

\* What start-up and the commands accept.
Accepted(c) ==
    /\ c = [addr |-> c.addr, url |-> c.url, expose |-> c.expose, token |-> c.token]
    /\ c.addr = DefaultAddr \/ ValidateListenAddr(c.addr)
    /\ c.url = <<>> \/ Url!ValidateEndpointUrl(c.url) # Url!NoApi

\* A start that reads doc comes to the configuration in memory.
Resumes(doc) ==
    /\ Sanitized(doc).url = config.url /\ Sanitized(doc).expose = config.expose
    /\ (config.expose \/ IsLoopback(config.addr)) => Sanitized(doc).addr = config.addr
    /\ Sanitized(doc).token = config.token \/ MustMint(doc)

\* No directory searched before the one saved to has a file that loads.
FirstIsDir ==
    \E k \in DOMAIN dirs :
        /\ dirs[k] = dir
        /\ \A j \in DOMAIN dirs : j < k /\ IsDoc(json[dirs[j]]) => dirs[j] = dir

ResolvedInv ==
    Resolved =>
        /\ Accepted(config)
        /\ FirstIsDir
        /\ saved => IsDoc(json[dir]) /\ Resumes(json[dir])

Inv == PlaceInv /\ NothingFound /\ Kept /\ ResolvedInv
-----------------------------------------------------------------------------
(* Configurations.                                                         *)

\* The directories searched are directories, and there is one.
LEMMA SearchedDirs ==
    ASSUME NEW ds \in Searched
    PROVE  /\ DOMAIN ds = 1..Len(ds) /\ Len(ds) \in Nat
           /\ 1 \in DOMAIN ds
           /\ \A i \in DOMAIN ds : ds[i] \in Dir /\ ds[i] # NoDir
BY ResolveAssumption

\* What has the fields of a configuration loads.
LEMMA AcceptedIsDoc ==
    ASSUME NEW c, Accepted(c) PROVE IsDoc(c)
<1>1. DOMAIN c = ConfigField
  BY DEF Accepted, ConfigField
<1> QED BY <1>1, ResolveAssumption DEF IsDoc

\* The configuration start-up makes of any file is accepted.
LEMMA SanitizedAccepted ==
    ASSUME NEW doc PROVE Accepted(Sanitized(doc))
<1>1. SafeAddr(doc) = DefaultAddr \/ ValidateListenAddr(SafeAddr(doc))
  BY DEF SafeAddr
<1> QED BY <1>1 DEF Sanitized, Accepted

\* The default configuration is one that start-up accepts.
LEMMA DefaultAccepted == Accepted(DefaultConfig)
BY DEF DefaultConfig, Accepted

\* An accepted configuration that has been saved is found again.
LEMMA SelfResumes ==
    ASSUME Accepted(config') PROVE Resumes(config)'
<1>1. (config'.expose \/ IsLoopback(config'.addr)) => SafeAddr(config') = config'.addr
  BY DEF Accepted, SafeAddr
<1> QED BY <1>1 DEF Accepted, Resumes, Sanitized, MustMint
-----------------------------------------------------------------------------
(* The search.                                                             *)

\* A saved configuration that the search comes to first resumes.
LEMMA ResolvedResumes ==
    ASSUME PlaceInv, ResolvedInv PROVE RestartResumes
<1> SUFFICES ASSUME phase = "up", saved
             PROVE  LET first == Min({i \in DOMAIN dirs : IsDoc(json[dirs[i]])})
                    IN  dirs[first] = dir
  BY DEF RestartResumes, ResolvedInv, Resolved, Resumes
<1> DEFINE Docs == {i \in DOMAIN dirs : IsDoc(json[dirs[i]])}
<1>1. PICK k \in DOMAIN dirs :
          /\ dirs[k] = dir
          /\ \A j \in DOMAIN dirs : j < k /\ IsDoc(json[dirs[j]]) => dirs[j] = dir
  BY DEF ResolvedInv, Resolved, FirstIsDir
<1>2. k \in Docs /\ Docs \in SUBSET Nat
  BY <1>1, SearchedDirs DEF ResolvedInv, Resolved, PlaceInv
<1>3. Min(Docs) \in Docs /\ Min(Docs) =< k
  BY <1>2, FirstPosition
<1> QED BY <1>1, <1>2, <1>3, SearchedDirs DEF PlaceInv

\* The initial states satisfy the invariant.
LEMMA InitInv == Init => Inv
<1> SUFFICES ASSUME Init PROVE Inv
  OBVIOUS
<1>1. PlaceInv
  BY SearchedDirs, ResolveAssumption DEF Init, PlaceInv, EmptyToken
<1> QED BY <1>1 DEF Init, Inv, NothingFound, Kept, ResolvedInv, Resolved
-----------------------------------------------------------------------------
(* What a step does.                                                       *)

\* The directory at hand is one of those searched.
LEMMA HereSearched ==
    ASSUME PlaceInv PROVE Here \in Dir /\ Here # NoDir
BY SearchedDirs DEF PlaceInv, Here

\* A save reaches one directory, with a configuration, or nothing.
LEMMA SaveEffect ==
    ASSUME PlaceInv, NEW d \in Dir, Save(d), Accepted(config')
    PROVE  /\ DOMAIN json' = Dir
           /\ \A e \in Dir : e # d => json'[e] = json[e]
           /\ json' = json \/ IsDoc(json'[d])
           /\ saved' => IsDoc(json'[d]) /\ json'[d] = config'
<1>1. IsDoc(config')
  BY AcceptedIsDoc
<1> QED BY <1>1 DEF Save, PlaceInv

\* Every command changes the configuration to one that start-up accepts, and
\* saves it where start-up said.
LEMMA CommandEffect ==
    ASSUME Inv,
           SetEndpoint \/ SetListenAddr \/ SetExposeToNetwork \/ RegenerateProxyToken
    PROVE  /\ phase = "up" /\ Accepted(config') /\ Save(dir)
           /\ minted' \in Nat /\ minted' >= minted
           /\ UNCHANGED <<bak, toml, phase, at, dirs, corrupt_dir, backup, dir>>
<1>1. /\ phase = "up" /\ Save(dir)
      /\ UNCHANGED <<bak, toml, phase, at, dirs, corrupt_dir, backup, dir>>
  BY DEF SetEndpoint, SetListenAddr, SetExposeToNetwork, RegenerateProxyToken,
         Command, search
<1>2. Accepted(config) /\ minted \in Nat
  BY <1>1 DEF Inv, ResolvedInv, Resolved, PlaceInv
<1>3. CASE SetEndpoint
  <2>1. PICK url : Enterable(url) /\ config' = [config EXCEPT !.url = url]
    BY <1>3 DEF SetEndpoint, EnteredUrls, ChipUrls
  <2>2. minted' = minted
    BY <1>3 DEF SetEndpoint
  <2> QED BY <1>1, <1>2, <2>1, <2>2 DEF Accepted, Enterable
<1>4. CASE SetListenAddr
  <2>1. PICK addr : ValidateListenAddr(addr) /\ config' = [config EXCEPT !.addr = addr]
    BY <1>4 DEF SetListenAddr, EnteredAddrs
  <2>2. minted' = minted
    BY <1>4 DEF SetListenAddr
  <2> QED BY <1>1, <1>2, <2>1, <2>2 DEF Accepted
<1>5. CASE SetExposeToNetwork
  <2>1. PICK on, t :
          /\ config' = [config EXCEPT !.expose = on, !.token = t]
          /\ minted' = minted \/ minted' = minted + 1
    BY <1>5 DEF SetExposeToNetwork
  <2>2. config' = [addr |-> config.addr, url |-> config.url, expose |-> on, token |-> t]
    BY <1>2, <2>1 DEF Accepted
  <2>3. Accepted(config')
    BY <1>2, <2>2 DEF Accepted
  <2>4. minted' \in Nat /\ minted' >= minted
    BY <1>2, <2>1
  <2> QED BY <1>1, <2>3, <2>4
<1>6. CASE RegenerateProxyToken
  BY <1>1, <1>2, <1>6 DEF RegenerateProxyToken, Accepted
<1> QED BY <1>3, <1>4, <1>5, <1>6

\* The directory saved to is one of those searched.
LEMMA ResolvedDir ==
    ASSUME PlaceInv, ResolvedInv, Resolved PROVE dir \in Dir
BY SearchedDirs DEF PlaceInv, ResolvedInv, FirstIsDir

\* So is the one that the defaults go to, and nothing there loads.
LEMMA SeedEffect ==
    ASSUME Inv, SeedDefaults
    PROVE  /\ dir' \in Dir /\ Save(dir') /\ Accepted(config')
           /\ \E k \in DOMAIN dirs : dirs[k] = dir'
           /\ \A i \in DOMAIN dirs : ~IsDoc(json[dirs[i]])
           /\ phase' = "bind"
           /\ UNCHANGED <<bak, at, dirs, corrupt_dir, backup, minted>>
<1>1. Accepted(config')
  BY DefaultAccepted DEF SeedDefaults
<1>2. \E k \in DOMAIN dirs : dirs[k] = dir'
  BY SearchedDirs DEF Inv, PlaceInv, SeedDefaults
<1> QED BY <1>1, <1>2, SearchedDirs DEF Inv, PlaceInv, NothingFound, SeedDefaults, search

\* A migration accepts and saves where it found the old file.
LEMMA MigrateEffect ==
    ASSUME Inv, MigrateToml
    PROVE  /\ dir' = Here /\ Save(Here) /\ Accepted(config')
           /\ \A i \in DOMAIN dirs : ~IsDoc(json[dirs[i]])
           /\ phase' = "bind"
           /\ minted' \in Nat /\ minted' >= minted
           /\ UNCHANGED <<bak, at, dirs, corrupt_dir, backup>>
BY SanitizedAccepted DEF Inv, PlaceInv, NothingFound, MigrateToml, Adopt, search
-----------------------------------------------------------------------------
(* Each part of the invariant is preserved.                                *)

\* Each step preserves the four parts of the invariant.
LEMMA PlaceStep == ASSUME Inv, [Next]_vars PROVE PlaceInv'
<1> USE DEF PlaceInv, EmptyToken
<1>1. CASE SetEndpoint \/ SetListenAddr \/ SetExposeToNetwork \/ RegenerateProxyToken
  <2>1. dir \in Dir
    BY <1>1, CommandEffect, ResolvedDir DEF Inv, Resolved
  <2>2. DOMAIN json' = Dir
    BY <1>1, <2>1, CommandEffect, SaveEffect DEF Inv
  <2> QED BY <1>1, <2>2, CommandEffect DEF Inv
<1>2. CASE SeedDefaults
  BY <1>2, SeedEffect, SaveEffect DEF Inv
<1>3. CASE MigrateToml
  BY <1>3, MigrateEffect, HereSearched, SaveEffect DEF Inv
<1>4. CASE Start
  BY <1>4, SearchedDirs DEF Start, Inv, files
<1>5. CASE NoJson
  BY <1>5, SearchedDirs DEF NoJson, NextDir, Inv, files, search
<1>6. CASE LoadJson
  BY <1>6 DEF LoadJson, Adopt, Inv, files, search
<1>7. CASE BackUpCorrupt
  BY <1>7, SearchedDirs DEF BackUpCorrupt, NextDir, Here, Inv
<1>8. CASE NoToml
  BY <1>8, SearchedDirs DEF NoToml, NextDir, Inv, files, search
<1>9. CASE Bind
  BY <1>9 DEF Bind, Inv, files, search
<1>10. CASE Die
  BY <1>10 DEF Die, Inv, files, search
<1>11. CASE EditByHand
  BY <1>11 DEF EditByHand, Inv, search
<1>12. CASE UNCHANGED vars
  BY <1>12 DEF Inv, vars, files, search
<1> QED BY <1>1, <1>2, <1>3, <1>4, <1>5, <1>6, <1>7, <1>8, <1>9, <1>10, <1>11, <1>12
        DEF Next, StartUp

\* Start-up passes by a directory only when it holds no file that loads.
LEMMA NothingFoundStep == ASSUME Inv, [Next]_vars PROVE NothingFound'
<1> USE DEF NothingFound
<1>1. CASE SetEndpoint \/ SetListenAddr \/ SetExposeToNetwork \/ RegenerateProxyToken
  BY <1>1, CommandEffect
<1>2. CASE SeedDefaults
  BY <1>2, SeedEffect
<1>3. CASE MigrateToml
  BY <1>3, MigrateEffect
<1>4. CASE Start
  BY <1>4, SearchedDirs DEF Start
<1>5. CASE NoJson
  BY <1>5, SearchedDirs DEF NoJson, NextDir, Here, IsDoc, Inv, PlaceInv, files, search
<1>6. CASE LoadJson
  BY <1>6 DEF LoadJson, Adopt
<1>7. CASE BackUpCorrupt
  BY <1>7, SearchedDirs DEF BackUpCorrupt, NextDir, Here, IsDoc, Inv, PlaceInv
<1>8. CASE NoToml
  BY <1>8, SearchedDirs DEF NoToml, NextDir, Inv, PlaceInv, files, search
<1>9. CASE Bind
  BY <1>9 DEF Bind
<1>10. CASE Die
  BY <1>10 DEF Die
<1>11. CASE EditByHand
  BY <1>11 DEF EditByHand
<1>12. CASE UNCHANGED vars
  BY <1>12 DEF Inv, IsDoc, vars, files, search
<1> QED BY <1>1, <1>2, <1>3, <1>4, <1>5, <1>6, <1>7, <1>8, <1>9, <1>10, <1>11, <1>12
        DEF Next, StartUp

\* The copy of the damaged file outlives everything until the next start.
LEMMA KeptStep == ASSUME Inv, [Next]_vars PROVE Kept'
<1> USE DEF Kept
<1> HIDE DEF Inv
<1>1. ASSUME NEW d \in Dir, Save(d), Accepted(config'), phase # "down",
             UNCHANGED <<bak, corrupt_dir, backup>>
      PROVE  Kept'
  <2>1. corrupt_dir # NoDir => corrupt_dir \in Dir
    BY SearchedDirs DEF Inv, PlaceInv
  <2> QED BY <1>1, <2>1, SaveEffect DEF IsDoc, Inv
<1>2. CASE SetEndpoint \/ SetListenAddr \/ SetExposeToNetwork \/ RegenerateProxyToken
  <2>1. dir \in Dir
    BY <1>2, CommandEffect, ResolvedDir DEF Inv, Resolved
  <2> QED BY <1>1, <1>2, <2>1, CommandEffect
<1>3. CASE SeedDefaults
  BY <1>1, <1>3, SeedEffect DEF SeedDefaults
<1>4. CASE MigrateToml
  BY <1>1, <1>4, MigrateEffect, HereSearched DEF MigrateToml, Inv
<1>5. CASE Start
  BY <1>5 DEF Start
<1>6. CASE NoJson
  BY <1>6 DEF NoJson, NextDir, Inv, files, search
<1>7. CASE LoadJson
  BY <1>7 DEF LoadJson, Inv, files, search
<1>8. CASE BackUpCorrupt
  <2>1. Here \in Dir /\ Here # NoDir
    BY HereSearched DEF Inv
  <2>2. CASE corrupt_dir # NoDir
    BY <1>8, <2>2 DEF BackUpCorrupt, Inv
  <2>3. CASE corrupt_dir = NoDir
    BY <1>8, <2>1, <2>3 DEF BackUpCorrupt, Inv, PlaceInv
  <2> QED BY <2>2, <2>3
<1>9. CASE NoToml
  BY <1>9 DEF NoToml, NextDir, Inv, files, search
<1>10. CASE Bind
  BY <1>10 DEF Bind, Inv, files, search
<1>11. CASE Die
  BY <1>11 DEF Die
<1>12. CASE EditByHand
  BY <1>12 DEF EditByHand
<1>13. CASE UNCHANGED vars
  BY <1>13 DEF Inv, vars, files, search
<1> QED BY <1>2, <1>3, <1>4, <1>5, <1>6, <1>7, <1>8, <1>9, <1>10, <1>11, <1>12, <1>13
        DEF Next, StartUp

\* What is saved stays what a start would find, with the failed saves in between.
LEMMA ResolvedStep == ASSUME Inv, [Next]_vars PROVE ResolvedInv'
<1> USE DEF ResolvedInv
<1> HIDE DEF Inv
<1>1. CASE SetEndpoint \/ SetListenAddr \/ SetExposeToNetwork \/ RegenerateProxyToken
  <2>1. /\ Resolved /\ dir \in Dir
        /\ PlaceInv /\ FirstIsDir
    BY <1>1, CommandEffect, ResolvedDir DEF Inv, Resolved
  <2>2. /\ Accepted(config') /\ Save(dir)
        /\ UNCHANGED <<dirs, dir>>
    BY <1>1, CommandEffect
  <2>3. /\ \A e \in Dir : e # dir => json'[e] = json[e]
        /\ saved' => IsDoc(json'[dir]) /\ json'[dir] = config'
    BY <2>1, <2>2, SaveEffect
  <2>4. FirstIsDir'
    BY <2>1, <2>2, <2>3, SearchedDirs DEF FirstIsDir, PlaceInv, IsDoc
  <2>5. Resumes(config)'
    BY <2>2, SelfResumes
  <2> QED BY <2>2, <2>3, <2>4, <2>5 DEF IsDoc, Resumes
<1>2. ASSUME NEW d \in Dir, Save(d), dir' = d, Accepted(config'),
             \E k \in DOMAIN dirs : dirs[k] = d,
             \A i \in DOMAIN dirs : ~IsDoc(json[dirs[i]]),
             UNCHANGED dirs
      PROVE  ResolvedInv'
  <2>1. /\ \A e \in Dir : e # d => json'[e] = json[e]
        /\ saved' => IsDoc(json'[d]) /\ json'[d] = config'
    BY <1>2, SaveEffect DEF Inv
  <2>2. FirstIsDir'
    BY <1>2, <2>1, SearchedDirs DEF FirstIsDir, PlaceInv, IsDoc, Inv
  <2>3. Resumes(config)'
    BY <1>2, SelfResumes
  <2> QED BY <1>2, <2>1, <2>2, <2>3 DEF IsDoc, Resumes
<1>3. CASE SeedDefaults
  BY <1>2, <1>3, SeedEffect
<1>4. CASE MigrateToml
  <2>1. \E k \in DOMAIN dirs : dirs[k] = Here
    BY DEF Inv, PlaceInv, Here
  <2> QED BY <1>2, <1>4, <2>1, MigrateEffect, HereSearched DEF Inv
<1>5. CASE LoadJson
  <2>1. /\ IsDoc(json[Here]) /\ config' = Sanitized(json[Here]) /\ dir' = Here
        /\ UNCHANGED <<json, dirs, at>> /\ phase = "search"
    BY <1>5 DEF LoadJson, Adopt, files, search
  <2>2. Accepted(config')
    BY <2>1, SanitizedAccepted
  <2>3. FirstIsDir'
    BY <2>1, SearchedDirs DEF FirstIsDir, Here, Inv, PlaceInv, NothingFound, IsDoc
  <2>4. Resumes(json[dir])'
    BY <2>1 DEF Resumes, Sanitized, SafeAddr, MustMint
  <2> QED BY <2>1, <2>2, <2>3, <2>4 DEF IsDoc
<1>6. CASE Start
  BY <1>6 DEF Start, Resolved
<1>7. CASE NoJson
  BY <1>7 DEF NoJson, NextDir, Resolved
<1>8. CASE BackUpCorrupt
  BY <1>8 DEF BackUpCorrupt, NextDir, Resolved
<1>9. CASE NoToml
  BY <1>9 DEF NoToml, NextDir, Resolved
<1>10. CASE Die
  BY <1>10 DEF Die, Resolved
<1>11. CASE EditByHand
  BY <1>11 DEF EditByHand, Resolved
<1>12. ASSUME UNCHANGED <<json, dirs, dir, config, saved, minted>>, Resolved' => Resolved
       PROVE  ResolvedInv'
  <2>1. Resolved => Resumes(json[dir])' = Resumes(json[dir])
    BY <1>12 DEF Resumes, Sanitized, MustMint
  <2> QED BY <1>12, <2>1 DEF Inv, FirstIsDir, IsDoc, Accepted
<1>13. CASE Bind
  BY <1>12, <1>13 DEF Bind, Resolved, files, search
<1>14. CASE UNCHANGED vars
  BY <1>12, <1>14 DEF vars, Resolved, files, search
<1> QED BY <1>1, <1>3, <1>4, <1>5, <1>6, <1>7, <1>8, <1>9, <1>10, <1>11, <1>13, <1>14
        DEF Next, StartUp
-----------------------------------------------------------------------------
(* The theorems about files.                                               *)

\* The invariant holds in every state.
THEOREM InvHolds == Spec => []Inv
<1>1. Inv /\ [Next]_vars => Inv'
  BY PlaceStep, NothingFoundStep, KeptStep, ResolvedStep DEF Inv
<1> QED BY InitInv, <1>1, PTL DEF Spec

\* What the app has saved is what a restart finds, whatever files were there at
\* first, whichever directory was chosen and whatever was changed since.
THEOREM RestartAlwaysResumes == Spec => []RestartResumes
<1>1. Inv => RestartResumes
  BY ResolvedResumes DEF Inv
<1> QED BY InvHolds, <1>1, PTL

\* Start-up writes no config.json that loads, in any directory.
THEOREM ReadableIsNeverRewritten == Spec => SourceOfTruth
<1>1. ASSUME Inv, [Next]_vars, NEW d \in Dir,
             phase # "up", phase # "down", IsDoc(json[d])
      PROVE  json'[d] = json[d]
  <2>1. ASSUME NEW e \in Dir, Save(e), Accepted(config'), ~IsDoc(json[e])
        PROVE  json'[d] = json[d]
    BY <1>1, <2>1, SaveEffect DEF Inv
  <2>2. CASE MigrateToml
    <3>1. ~IsDoc(json[Here])
      BY <1>1, <2>2, MigrateEffect DEF Inv, PlaceInv, Here
    <3> QED BY <1>1, <2>1, <2>2, <3>1, MigrateEffect, HereSearched DEF Inv
  <2>3. CASE SeedDefaults
    BY <1>1, <2>1, <2>3, SeedEffect
  <2>4. CASE ~(MigrateToml \/ SeedDefaults)
    BY <1>1, <2>4 DEF Next, StartUp, Start, NoJson, LoadJson, BackUpCorrupt, NoToml, Bind,
       SetEndpoint, SetListenAddr, SetExposeToNetwork, RegenerateProxyToken, Command,
       Die, EditByHand, vars, files
  <2> QED BY <2>2, <2>3, <2>4
<1>2. Inv /\ [Next]_vars =>
        [\A d \in Dir : (phase # "up" /\ phase # "down" /\ IsDoc(json[d]))
                           => json'[d] = json[d]]_vars
  BY <1>1
<1> QED BY InvHolds, <1>2, PTL DEF Spec, SourceOfTruth

\* The app replaces the damaged file that start-up found first only after it has
\* been copied, or its copy has failed.
THEOREM CorruptIsAlwaysKept == Spec => CorruptIsKept
<1>1. Inv => \A d \in Dir :
        (phase # "down" /\ json[d] \in Garbage)
          => bak[d] = json[d] \/ backup = "failed" \/ corrupt_dir # d
  BY ResolveAssumption DEF Inv, Kept
<1>2. Inv /\ [Next]_vars =>
        [\A d \in Dir :
           (phase # "down" /\ json[d] \in Garbage /\ json'[d] # json[d])
             => bak[d] = json[d] \/ backup = "failed" \/ corrupt_dir # d]_vars
  BY <1>1
<1> QED BY InvHolds, <1>2, PTL DEF Spec, CorruptIsKept
-----------------------------------------------------------------------------
(* The address that start-up binds.                                        *)

\* An address of this machine, or exposure with a token.
Guarded(c) == OfThisMachine(c.addr) \/ (c.expose /\ c.token \notin Tokenless)

\* Whatever a file says, start-up makes something guarded of it.
LEMMA SanitizedGuarded ==
    ASSUME NEW doc, minted \in Nat, minted >= EmptyToken
    PROVE  Guarded(Sanitized(doc))
<1>1. /\ Sanitized(doc).addr = SafeAddr(doc) /\ Sanitized(doc).expose = doc.expose
      /\ Sanitized(doc).token = IF MustMint(doc) THEN minted + 1 ELSE doc.token
  BY DEF Sanitized
<1>2. CASE doc.expose
  <2>1. minted + 1 \notin Tokenless
    BY DEF Tokenless, NoToken, EmptyToken
  <2> QED BY <1>1, <1>2, <2>1 DEF Guarded, MustMint
<1>3. CASE ~doc.expose
  <2>1. CASE SafeAddr(doc) = DefaultAddr
    BY <1>1, <2>1, DefaultIsLocal DEF Guarded
  <2>2. CASE SafeAddr(doc) # DefaultAddr
    BY <1>1, <1>3, <2>2, ValidLoopback DEF Guarded, SafeAddr
  <2> QED BY <2>1, <2>2
<1> QED BY <1>2, <1>3

\* A step that ends start-up's search leaves something guarded to bind.
LEMMA GuardedStep ==
    ASSUME Inv, [Next]_vars, phase = "bind" => Guarded(config), phase' = "bind"
    PROVE  Guarded(config')
<1>1. minted \in Nat /\ minted >= EmptyToken
  BY DEF Inv, PlaceInv
<1>2. CASE LoadJson
  BY <1>1, <1>2, SanitizedGuarded DEF LoadJson, Adopt
<1>3. CASE MigrateToml
  BY <1>1, <1>3, SanitizedGuarded DEF MigrateToml, Adopt
<1>4. CASE SeedDefaults
  BY <1>4, DefaultIsLocal DEF SeedDefaults, DefaultConfig, Guarded
<1>5. CASE ~(LoadJson \/ MigrateToml \/ SeedDefaults)
  <2>1. phase = "bind" /\ config' = config
    BY <1>5 DEF Next, StartUp, Start, NoJson, BackUpCorrupt, NoToml, NextDir, Bind,
       SetEndpoint, SetListenAddr, SetExposeToNetwork, RegenerateProxyToken, Command,
       Die, EditByHand, vars
  <2> QED BY <2>1
<1> QED BY <1>2, <1>3, <1>4, <1>5

\* Whatever config.json holds, start-up binds an address of this machine, or
\* exposure is on and there is a token.
THEOREM StartIsAlwaysGuarded == Spec => []StartsGuarded
<1>1. Init => StartsGuarded
  BY DEF Init, StartsGuarded
<1>2. StartsGuarded <=> (phase = "bind" => Guarded(config))
  BY DEF StartsGuarded, Guarded, OfThisMachine
<1>3. Inv /\ StartsGuarded /\ [Next]_vars => StartsGuarded'
  BY <1>2, GuardedStep DEF StartsGuarded, Guarded, OfThisMachine
<1> QED BY InvHolds, <1>1, <1>3, PTL DEF Spec

\* Only the bind gives up, and of what start-up accepts.
LEMMA RefusedStep ==
    ASSUME Inv, Inv', [Next]_vars, phase = "refused" => ~Bindable(config.addr),
           phase' = "refused"
    PROVE  ~Bindable(config.addr)'
<1>1. CASE Bind
  <2>1. config' = config /\ ~Bindable(config.addr)
    BY <1>1 DEF Bind
  <2> QED BY <2>1
<1>2. CASE ~Bind
  <2>1. phase = "refused" /\ config' = config
    BY <1>2, CommandEffect DEF Next, StartUp, Start, NoJson, LoadJson, BackUpCorrupt, NoToml,
       NextDir, MigrateToml, SeedDefaults, Adopt, Die, EditByHand, vars
  <2> QED BY <2>1
<1> QED BY <1>1, <1>2

\* A start that fails does so for a host that does not resolve, for blanks, or for
\* a signed port after brackets: every other address that cannot be bound has been
\* replaced before.
THEOREM RefusalIsByName == Spec => []RefusedOnlyByName
<1> DEFINE Refused == phase = "refused" => ~Bindable(config.addr)
<1>1. Init => Refused
  BY DEF Init
<1>2. Refused /\ Inv /\ Inv' /\ [Next]_vars => Refused'
  BY RefusedStep
<1>3. Refused /\ Inv => RefusedOnlyByName
  <2> SUFFICES ASSUME Inv, phase = "refused", ~Bindable(config.addr)
               PROVE  \/ Trim(config.addr) # config.addr
                      \/ /\ ValidateListenAddr(config.addr)
                         /\ ~(Resolves(config.addr) /\ PortReads(config.addr))
    BY DEF RefusedOnlyByName
  <2>1. config.addr = DefaultAddr \/ ValidateListenAddr(config.addr)
    BY DEF Inv, ResolvedInv, Resolved, Accepted
  <2>2. ValidateListenAddr(config.addr)
    BY <2>1, DefaultBinds
  <2> QED BY <2>2 DEF ValidateListenAddr, Bindable
<1> QED BY InvHolds, <1>1, <1>2, <1>3, PTL DEF Spec
-----------------------------------------------------------------------------
(* The types.                                                              *)

\* A configuration of texts, a flag and a token already made.
WellTyped(c) == IsConfig(c) /\ IsText(c.addr) /\ IsText(c.url)

\* What the files and the process hold.
Typed ==
    /\ \A d \in Dir : /\ IsDoc(json[d]) => WellTyped(json[d])
                      /\ IsDoc(bak[d]) => bak[d] = Torn
                      /\ toml[d] \notin {Absent, Unparsable} =>
                           /\ IsText(toml[d].addr) /\ IsText(toml[d].base)
                           /\ toml[d].api \in Url!Api
    /\ WellTyped(config)
    /\ phase \in {"down", "search", "migrate", "seed", "bind", "up", "refused"}
    /\ backup \in {"none", "saved", "failed"}
    /\ dir \in Dir \cup {NoDir}
    /\ saved \in BOOLEAN
    /\ starts \in 0..MaxStarts /\ calls \in 0..MaxCalls /\ edits \in 0..MaxEdits

\* The default configuration is well typed.
LEMMA DefaultTyped == minted \in Nat => WellTyped(DefaultConfig)
<1>1. IsText(DefaultAddr)
  <2>1. DefaultAddr \in Seq({"127.0.0.1", ":", "8080"})
    BY DEF DefaultAddr
  <2> QED BY <2>1, TextIs
<1>2. IsText(<<>>)
  <2>1. <<>> \in Seq(STRING)
    OBVIOUS
  <2> QED BY <2>1, TextIs
<1> QED BY <1>1, <1>2 DEF WellTyped, IsConfig, DefaultConfig, ConfigField, NoToken

\* Start-up makes a well-typed configuration of a well-typed file.
LEMMA SanitizedTyped ==
    ASSUME minted \in Nat, NEW doc, WellTyped(doc), Adopt(doc)
    PROVE  WellTyped(config)'
<1>1. WellTyped(DefaultConfig)
  BY DefaultTyped
<1>2. IsText(SafeAddr(doc))
  BY <1>1 DEF SafeAddr, WellTyped, DefaultConfig
<1>3. IsText(Sanitized(doc).url)
  BY <1>1 DEF Sanitized, WellTyped, DefaultConfig
<1>4. /\ Sanitized(doc).addr = SafeAddr(doc) /\ Sanitized(doc).expose = doc.expose
      /\ Sanitized(doc).token = IF MustMint(doc) THEN minted + 1 ELSE doc.token
  BY DEF Sanitized
<1>7. DOMAIN Sanitized(doc) = ConfigField
  BY Zenon DEF Sanitized, ConfigField
<1>5. doc.expose \in BOOLEAN /\ doc.token \in 0..minted
  BY DEF WellTyped, IsConfig
<1>6. config' = Sanitized(doc) /\ minted' = IF MustMint(doc) THEN minted + 1 ELSE minted
  BY DEF Adopt
<1>8. Sanitized(doc).token \in 0..minted'
  <2>1. CASE MustMint(doc)
    <3>1. minted' = minted + 1 /\ Sanitized(doc).token = minted + 1
      BY <1>4, <1>6, <2>1
    <3> QED BY <3>1
  <2>2. CASE ~MustMint(doc)
    <3>1. minted' = minted /\ Sanitized(doc).token = doc.token
      BY <1>4, <1>6, <2>2
    <3> QED BY <1>5, <3>1
  <2> QED BY <2>1, <2>2
<1> HIDE DEF Sanitized
<1>9. DOMAIN config' = ConfigField /\ config'.expose \in BOOLEAN /\ config'.token \in 0..minted'
  BY <1>4, <1>5, <1>6, <1>7, <1>8
<1> QED BY <1>2, <1>3, <1>4, <1>6, <1>9 DEF WellTyped, IsConfig

\* The old file becomes a well-typed configuration.
LEMMA IntoRuntimeTyped ==
    ASSUME minted \in Nat, NEW legacy, IsText(legacy.addr), IsText(legacy.base),
           legacy.api \in Url!Api
    PROVE  WellTyped(IntoRuntime(legacy))
<1> DEFINE S == Tokens(legacy.base)
           url == Url!TrimEnd(legacy.base, Url!Slash) \o Url!Suffix[legacy.api]
<1>1. legacy.base \in Seq(S) /\ Url!Suffix[legacy.api] \in Seq(S)
  BY TokensOf
<1> HIDE DEF S
<1>2. url \in Seq(S)
  BY <1>1, TrimEndText, ConcatProperties
<1>3. IsText(url)
  BY <1>2, TextIs
<1> HIDE DEF url
<1> DEFINE c == [DefaultConfig EXCEPT !.addr = legacy.addr, !.url = url]
<1>4. DOMAIN c = ConfigField
  BY DEF DefaultConfig, ConfigField
<1>5. c.addr = legacy.addr /\ c.url = url
  BY DEF DefaultConfig
<1>6. c.expose \in BOOLEAN /\ c.token \in 0..minted
  BY DEF DefaultConfig, NoToken
<1>7. IntoRuntime(legacy) = c
  BY DEF IntoRuntime, url
<1> HIDE DEF c
<1> QED BY <1>3, <1>4, <1>5, <1>6, <1>7 DEF WellTyped, IsConfig

\* A later token leaves the configurations well typed.
LEMMA LaterTyped ==
    ASSUME minted \in Nat, minted' \in Nat, minted' >= minted, NEW c, WellTyped(c)
    PROVE  IsText(c.addr) /\ IsText(c.url) /\ IsConfig(c)'
<1>1. c.token \in 0..minted'
  BY DEF WellTyped, IsConfig
<1> QED BY <1>1 DEF WellTyped, IsConfig

\* What a save leaves is well typed.
LEMMA SaveTyped ==
    ASSUME Typed, Inv, minted' \in Nat, minted' >= minted, NEW d \in Dir, Save(d),
           WellTyped(config)'
    PROVE  saved' \in BOOLEAN /\ \A e \in Dir : IsDoc(json'[e]) => WellTyped(json[e])'
<1>1. ASSUME NEW e \in Dir, IsDoc(json'[e]) PROVE WellTyped(json[e])'
  <2>1. minted \in Nat /\ DOMAIN json = Dir
    BY DEF Inv, PlaceInv
  <2>2. CASE json'[e] = json[e]
    <3>1. WellTyped(json[e])
      BY <1>1, <2>2 DEF Typed, IsDoc
    <3>2. IsConfig(json[e])'
      BY <2>1, <2>2, <3>1, LaterTyped DEF IsConfig
    <3> QED BY <2>2, <3>1, <3>2 DEF WellTyped
  <2>3. CASE json'[e] = config'
    BY <2>3 DEF WellTyped, IsConfig
  <2> QED BY <2>1, <2>2, <2>3 DEF Save
<1>2. saved' \in BOOLEAN
  BY DEF Save
<1> QED BY <1>1, <1>2

\* Every command leaves a well-typed configuration.
LEMMA CommandTyped ==
    ASSUME Typed, Inv,
           SetEndpoint \/ SetListenAddr \/ SetExposeToNetwork \/ RegenerateProxyToken
    PROVE  WellTyped(config)'
<1>1. /\ DOMAIN config = ConfigField /\ config.expose \in BOOLEAN
      /\ config.token \in 0..minted
      /\ IsText(config.addr) /\ IsText(config.url)
      /\ minted \in Nat
  BY DEF Typed, WellTyped, IsConfig, Inv, PlaceInv
<1>2. "addr" \in ConfigField /\ "url" \in ConfigField
      /\ "expose" \in ConfigField /\ "token" \in ConfigField
  BY DEF ConfigField
<1>3. ASSUME DOMAIN config' = ConfigField, config'.expose \in BOOLEAN,
             config'.token \in 0..minted', IsText(config'.addr), IsText(config'.url)
      PROVE  WellTyped(config)'
  BY <1>3 DEF WellTyped, IsConfig
<1>4. CASE SetEndpoint
  <2>1. PICK url \in EnteredUrls \cup ChipUrls : config' = [config EXCEPT !.url = url]
    BY <1>4 DEF SetEndpoint
  <2>2. IsText(url)
    BY <2>1, <1>1, EnteredText, RewriteText DEF EnteredUrls, ChipUrls
  <2>3. minted' = minted
    BY <1>4 DEF SetEndpoint
  <2>4. /\ DOMAIN config' = ConfigField /\ config'.url = url /\ config'.addr = config.addr
        /\ config'.expose = config.expose /\ config'.token = config.token
    BY <1>1, <1>2, <2>1
  <2> QED BY <1>1, <1>3, <2>2, <2>3, <2>4
<1>5. CASE SetListenAddr
  <2>1. PICK addr \in EnteredAddrs : config' = [config EXCEPT !.addr = addr]
    BY <1>5 DEF SetListenAddr
  <2>2. IsText(addr)
    BY <2>1, EnteredText DEF EnteredAddrs
  <2>3. minted' = minted
    BY <1>5 DEF SetListenAddr
  <2>4. /\ DOMAIN config' = ConfigField /\ config'.url = config.url /\ config'.addr = addr
        /\ config'.expose = config.expose /\ config'.token = config.token
    BY <1>1, <1>2, <2>1
  <2> QED BY <1>1, <1>3, <2>2, <2>3, <2>4
<1>6. CASE SetExposeToNetwork
  <2>1. PICK enabled \in BOOLEAN : LET mint == enabled /\ config.token = NoToken IN
          /\ config' = [config EXCEPT !.expose = enabled,
                                      !.token = IF mint THEN minted + 1 ELSE @]
          /\ minted' = IF mint THEN minted + 1 ELSE minted
    BY <1>6 DEF SetExposeToNetwork
  <2> DEFINE mint == enabled /\ config.token = NoToken
             token == IF mint THEN minted + 1 ELSE config.token
  <2>2. config' = [config EXCEPT !.expose = enabled, !.token = token]
    BY <2>1
  <2>3. token \in 0..minted'
    <3>1. CASE mint
      <4>1. token = minted + 1 /\ minted' = minted + 1
        BY <2>1, <3>1
      <4> HIDE DEF token
      <4> QED BY <1>1, <4>1
    <3>2. CASE ~mint
      <4>1. token = config.token /\ minted' = minted
        BY <2>1, <3>2
      <4> HIDE DEF token
      <4> QED BY <1>1, <4>1
    <3> QED BY <3>1, <3>2
  <2> HIDE DEF token, mint
  <2>4. /\ DOMAIN config' = ConfigField /\ config'.url = config.url
        /\ config'.addr = config.addr /\ config'.expose = enabled
    BY <1>1, <1>2, <2>2
  <2>5. config'.token = token
    BY <1>1, <1>2, <2>2
  <2> QED BY <1>1, <1>3, <2>1, <2>3, <2>4, <2>5
<1>7. CASE RegenerateProxyToken
  <2>1. minted' = minted + 1 /\ config' = [config EXCEPT !.token = minted + 1]
    BY <1>7 DEF RegenerateProxyToken
  <2>2. /\ DOMAIN config' = ConfigField /\ config'.url = config.url
        /\ config'.addr = config.addr /\ config'.expose = config.expose
        /\ config'.token = minted + 1
    BY <1>1, <1>2, <2>1
  <2>3. config'.token \in 0..minted'
    BY <1>1, <2>1, <2>2
  <2> QED BY <1>1, <1>3, <2>2, <2>3
<1> QED BY <1>4, <1>5, <1>6, <1>7

\* The state a process starts from is well typed.
LEMMA InitTyped == Init => Typed
<1> SUFFICES ASSUME Init PROVE Typed
  OBVIOUS
<1>1. minted = EmptyToken /\ minted \in Nat /\ WellTyped(DefaultConfig)
  BY DefaultTyped DEF Init, EmptyToken
<1>2. PICK disk \in Disks : json = disk.json /\ toml = disk.toml
  BY DEF Init
<1>3. DOMAIN json = Dir /\ DOMAIN toml = Dir
  BY <1>2, ResolveAssumption, ContentAssumption
<1>4. ASSUME NEW d \in Dir, IsDoc(json[d]) PROVE WellTyped(json[d])
  <2>1. json[d] \in UNION {Range(x.json) : x \in Disks}
    BY <1>2, <1>3 DEF Range
  <2>2. /\ DOMAIN json[d] = ConfigField
        /\ IsText(json[d].addr) /\ IsText(json[d].url)
        /\ json[d].expose \in BOOLEAN /\ json[d].token \in Tokenless
    BY <1>4, <2>1, ContentAssumption DEF IsDoc
  <2>3. json[d].token \in 0..minted
    BY <1>1, <2>2 DEF Tokenless, NoToken, EmptyToken
  <2> QED BY <2>2, <2>3 DEF WellTyped, IsConfig
<1>5. ASSUME NEW d \in Dir, toml[d] \notin {Absent, Unparsable}
      PROVE  IsText(toml[d].addr) /\ IsText(toml[d].base) /\ toml[d].api \in Url!Api
  <2>1. toml[d] \in (UNION {Range(x.toml) : x \in Disks}) \ {Absent, Unparsable}
    <3>1. disk.toml[d] \in Range(disk.toml)
      BY <1>2, <1>3 DEF Range
    <3>2. Range(disk.toml) \in {Range(x.toml) : x \in Disks}
      OBVIOUS
    <3>3. toml[d] \in UNION {Range(x.toml) : x \in Disks}
      BY <1>2, <3>1, <3>2
    <3>4. toml[d] \notin {Absent, Unparsable}
      BY <1>5
    <3> QED BY <3>3, <3>4
  <2> QED BY <2>1, ContentAssumption
<1>6. \A d \in Dir : ~IsDoc(bak[d])
  BY DEF Init, IsDoc
<1>7. WellTyped(config) /\ dir = NoDir /\ phase = "down" /\ backup = "none"
      /\ saved = TRUE /\ starts = 0 /\ calls = 0 /\ edits = 0
  BY <1>1 DEF Init
<1> QED BY <1>4, <1>5, <1>6, <1>7, ResolveAssumption DEF Typed

\* Files and memory stay well typed.
LEMMA TypedStep == ASSUME Typed, Inv, Inv', [Next]_vars PROVE Typed'
<1> DEFINE Bounds == /\ saved \in BOOLEAN
                     /\ starts \in 0..MaxStarts /\ calls \in 0..MaxCalls
                     /\ edits \in 0..MaxEdits
                     /\ backup \in {"none", "saved", "failed"}
           Phases == {"down", "search", "migrate", "seed", "bind", "up", "refused"}
           Docs == \A d \in Dir : IsDoc(json[d]) => WellTyped(json[d])
           Copies == \A d \in Dir : IsDoc(bak[d]) => bak[d] = Torn
           Old == \A d \in Dir :
                    toml[d] \notin {Absent, Unparsable} =>
                      /\ IsText(toml[d].addr) /\ IsText(toml[d].base)
                      /\ toml[d].api \in Url!Api
<1>1. /\ minted \in Nat /\ minted' \in Nat /\ MaxStarts \in Nat /\ MaxCalls \in Nat
      /\ MaxEdits \in Nat
  BY ResolveAssumption DEF Inv, PlaceInv
<1>2. Bounds /\ phase \in Phases /\ Docs /\ Copies /\ Old /\ WellTyped(config)
      /\ dir \in Dir \cup {NoDir}
  BY DEF Typed
<1>3. Old'
  <2>1. toml' = toml
    BY DEF Next, StartUp, Start, NoJson, LoadJson, BackUpCorrupt, NoToml, MigrateToml,
       SeedDefaults, Bind, SetEndpoint, SetListenAddr, SetExposeToNetwork,
       RegenerateProxyToken, Command, Die, EditByHand, vars, files
  <2> QED BY <1>2, <2>1
<1>4. ASSUME minted' = minted, config' = config PROVE WellTyped(config)'
  BY <1>2, <1>4 DEF WellTyped, IsConfig
<1>5. ASSUME minted' >= minted, json' = json PROVE Docs'
  <2>1. ASSUME NEW d \in Dir, IsDoc(json'[d]) PROVE WellTyped(json[d])'
    <3>1. WellTyped(json[d])
      BY <1>2, <1>5, <2>1 DEF IsDoc
    <3>2. IsConfig(json[d])'
      BY <1>1, <1>5, <3>1, LaterTyped DEF IsConfig
    <3> QED BY <1>5, <3>1, <3>2 DEF WellTyped
  <2> QED BY <2>1 DEF IsDoc
<1>6. ASSUME bak' = bak PROVE Copies'
  BY <1>2, <1>6 DEF IsDoc
<1>7. ASSUME Bounds', phase' \in Phases, Docs', Copies', WellTyped(config)',
             dir' \in Dir \cup {NoDir}
      PROVE  Typed'
  BY <1>3, <1>7 DEF Typed
<1> HIDE DEF Docs, Copies, Old, Phases
<1>8. Phases = {"down", "search", "migrate", "seed", "bind", "up", "refused"}
  BY DEF Phases
<1>9. CASE SetEndpoint \/ SetListenAddr \/ SetExposeToNetwork \/ RegenerateProxyToken
  <2>1. /\ phase = "up" /\ Save(dir) /\ minted' >= minted
        /\ UNCHANGED <<bak, phase, backup, dir>>
    BY <1>9, CommandEffect
  <2>2. WellTyped(config)'
    BY <1>9, CommandTyped
  <2>3. dir \in Dir
    BY <2>1, ResolvedDir DEF Inv, Resolved
  <2>4. Docs' /\ saved' \in BOOLEAN
    BY <1>1, <2>1, <2>2, <2>3, SaveTyped DEF Docs
  <2>5. /\ calls' = calls + 1 /\ calls < MaxCalls /\ starts' = starts /\ edits' = edits
    BY <1>9 DEF SetEndpoint, SetListenAddr, SetExposeToNetwork, RegenerateProxyToken,
       Command
  <2>6. Bounds'
    BY <1>1, <1>2, <2>1, <2>4, <2>5
  <2> QED BY <1>2, <1>6, <1>7, <2>1, <2>2, <2>4, <2>6
<1>10. CASE SeedDefaults
  <2>1. /\ dir' \in Dir /\ Save(dir') /\ phase' = "bind"
        /\ UNCHANGED <<bak, backup, minted>>
    BY <1>10, SeedEffect
  <2>2. config' = DefaultConfig /\ starts' = starts /\ calls' = calls /\ edits' = edits
    BY <1>10 DEF SeedDefaults, bounds
  <2>3. WellTyped(config)'
    BY <1>1, <2>1, <2>2, DefaultTyped DEF WellTyped, IsConfig
  <2>4. Docs' /\ saved' \in BOOLEAN
    BY <1>1, <2>1, <2>3, SaveTyped DEF Docs
  <2> QED BY <1>2, <1>6, <1>7, <1>8, <2>1, <2>2, <2>3, <2>4
<1>11. CASE MigrateToml
  <2>1. /\ dir' = Here /\ Save(Here) /\ phase' = "bind"
        /\ minted' >= minted
        /\ UNCHANGED <<bak, backup>>
    BY <1>11, MigrateEffect
  <2>2. /\ toml[Here] \notin {Absent, Unparsable} /\ Adopt(IntoRuntime(toml[Here]))
        /\ starts' = starts /\ calls' = calls /\ edits' = edits
    BY <1>11 DEF MigrateToml, bounds
  <2>3. Here \in Dir
    BY HereSearched DEF Inv
  <2>4. WellTyped(IntoRuntime(toml[Here]))
    BY <1>1, <1>2, <2>2, <2>3, IntoRuntimeTyped DEF Old
  <2>5. WellTyped(config)'
    BY <1>1, <2>2, <2>4, SanitizedTyped
  <2>6. Docs' /\ saved' \in BOOLEAN
    BY <1>1, <2>1, <2>3, <2>5, SaveTyped DEF Docs
  <2> QED BY <1>2, <1>6, <1>7, <1>8, <2>1, <2>2, <2>3, <2>5, <2>6
<1>12. CASE LoadJson
  <2>1. /\ IsDoc(json[Here]) /\ Adopt(json[Here])
        /\ UNCHANGED <<json, bak, backup, saved, starts, calls, edits>>
    BY <1>12 DEF LoadJson, files, search, bounds
  <2>2. Here \in Dir
    BY HereSearched DEF Inv
  <2>3. WellTyped(json[Here])
    BY <1>2, <2>1, <2>2 DEF Docs
  <2>4. WellTyped(config)'
    BY <1>1, <2>1, <2>3, SanitizedTyped
  <2>5. minted' >= minted /\ dir' = Here /\ phase' = "bind"
    BY <1>1, <2>1 DEF Adopt
  <2> QED BY <1>2, <1>5, <1>6, <1>7, <1>8, <2>1, <2>2, <2>4, <2>5
<1>13. CASE Start
  <2>1. /\ starts < MaxStarts /\ starts' = starts + 1 /\ phase' = "search"
        /\ backup' = "none" /\ config' = DefaultConfig /\ dir' = NoDir /\ saved' = TRUE
        /\ UNCHANGED <<json, bak, minted, calls, edits>>
    BY <1>13 DEF Start, files
  <2>2. WellTyped(config)'
    BY <1>1, <2>1, DefaultTyped DEF WellTyped, IsConfig
  <2>3. Bounds'
    BY <1>1, <1>2, <2>1
  <2> QED BY <1>1, <1>5, <1>6, <1>7, <1>8, <2>1, <2>2, <2>3
<1>14. CASE BackUpCorrupt
  <2>1. /\ json[Here] \in Garbage
        /\ UNCHANGED <<json, dir, config, saved, minted, starts, calls, edits>>
    BY <1>14 DEF BackUpCorrupt, bounds
  <2>2. /\ \/ bak' = bak
           \/ \E left \in {bak[Here], Torn, json[Here]} : bak' = [bak EXCEPT ![Here] = left]
        /\ backup' \in {backup, "saved", "failed"}
    BY <1>14 DEF BackUpCorrupt
  <2>3. phase' \in {phase, "migrate"}
    BY <1>14 DEF BackUpCorrupt, NextDir
  <2>4. Copies'
    <3>1. DOMAIN bak = Dir
      BY DEF Inv, PlaceInv
    <3> QED BY <1>2, <2>1, <2>2, <3>1 DEF Copies, IsDoc
  <2>5. Bounds' /\ phase' \in Phases
    BY <1>2, <1>8, <2>1, <2>2, <2>3
  <2> QED BY <1>1, <1>2, <1>4, <1>5, <1>7, <2>1, <2>4, <2>5
<1>15. CASE NoJson \/ NoToml
  <2>1. /\ phase' \in {phase, "migrate", "seed"}
        /\ UNCHANGED <<json, bak, backup, dir, config, saved, minted, starts, calls, edits>>
    BY <1>15 DEF NoJson, NoToml, NextDir, files, search, bounds
  <2> QED BY <1>1, <1>2, <1>4, <1>5, <1>6, <1>7, <1>8, <2>1
<1>16. CASE Bind \/ Die
  <2>1. /\ phase' \in {"up", "refused", "down"}
        /\ UNCHANGED <<json, bak, backup, dir, config, saved, minted, starts, calls, edits>>
    BY <1>16 DEF Bind, Die, files, search, bounds
  <2> QED BY <1>1, <1>2, <1>4, <1>5, <1>6, <1>7, <1>8, <2>1
<1>17. CASE EditByHand
  <2>1. /\ edits < MaxEdits /\ edits' = edits + 1
        /\ UNCHANGED <<bak, phase, backup, dir, config, saved, minted, starts, calls>>
    BY <1>17 DEF EditByHand, search
  <2>2. PICK d \in Dir : \E content \in Edits : json' = [json EXCEPT ![d] = content]
    BY <1>17 DEF EditByHand
  <2>3. PICK content \in Edits : json' = [json EXCEPT ![d] = content]
    BY <2>2
  <2>4. IsDoc(content) => WellTyped(content)
    <3>1. minted >= EmptyToken
      BY DEF Inv, PlaceInv
    <3>2. IsDoc(content) =>
            /\ DOMAIN content = ConfigField
            /\ IsText(content.addr) /\ IsText(content.url)
            /\ content.expose \in BOOLEAN /\ content.token \in Tokenless
      <4>1. content \in (UNION {Range(x.json) : x \in Disks}) \cup Edits
        OBVIOUS
      <4> QED BY <4>1, ContentAssumption DEF IsDoc
    <3>3. Tokenless \subseteq 0..minted
      BY <1>1, <3>1 DEF Tokenless, NoToken, EmptyToken
    <3> QED BY <3>2, <3>3 DEF WellTyped, IsConfig
  <2>5. Docs'
    <3>1. DOMAIN json = Dir
      BY DEF Inv, PlaceInv
    <3>2. ASSUME NEW e \in Dir, IsDoc(json'[e]) PROVE WellTyped(json'[e])
      BY <1>2, <2>3, <2>4, <3>1, <3>2 DEF Docs, IsDoc
    <3> QED BY <2>1, <3>2 DEF Docs, IsDoc, WellTyped, IsConfig
  <2>6. Bounds'
    BY <1>1, <1>2, <2>1
  <2> QED BY <1>2, <1>4, <1>6, <1>7, <2>1, <2>5, <2>6
<1>18. CASE UNCHANGED vars
  <2>1. UNCHANGED <<json, bak, backup, dir, phase, config, saved, minted, starts, calls, edits>>
    BY <1>18 DEF vars, files, search, bounds
  <2> QED BY <1>1, <1>2, <1>4, <1>5, <1>6, <1>7, <2>1
<1> QED BY <1>9, <1>10, <1>11, <1>12, <1>13, <1>14, <1>15, <1>16, <1>17, <1>18
        DEF Next, StartUp

\* Whatever the files hold, memory, files and search keep their types: no token is
\* used that was not made, and the search stays within its directories.
THEOREM ConfigTyped == Spec => []TypeOK
<1>1. Inv /\ Typed => TypeOK
  BY SearchedDirs DEF Inv, PlaceInv, Typed, WellTyped, TypeOK
<1>2. Typed /\ Inv /\ Inv' /\ [Next]_vars => Typed'
  BY TypedStep
<1> QED BY InvHolds, InitTyped, <1>1, <1>2, PTL DEF Spec
-----------------------------------------------------------------------------
(* What the program relies on in a configured text.                        *)

\* Whatever address is configured, a local agent is sent to this machine, and
\* needs no gateway token.
THEOREM AgentIsLocal == Spec => []AgentStaysLocal
<1>1. Typed => AgentStaysLocal
  BY LocalIsLocal DEF Typed, WellTyped, AgentStaysLocal
<1>2. Typed /\ Inv /\ Inv' /\ [Next]_vars => Typed'
  BY TypedStep
<1> QED BY InvHolds, InitTyped, <1>1, <1>2, PTL DEF Spec

\* Every endpoint that is configured can be used: requests go to its host, the
\* window accepts it, and a mode chip keeps its preferences.
THEOREM EndpointIsUsable == Spec => []EndpointUsable
<1>1. Typed /\ Inv => EndpointUsable
  BY ValidEndpoint DEF Typed, WellTyped, Inv, ResolvedInv, Resolved, Accepted,
     EndpointUsable
<1>2. Typed /\ Inv /\ Inv' /\ [Next]_vars => Typed'
  BY TypedStep
<1> QED BY InvHolds, InitTyped, <1>1, <1>2, PTL DEF Spec
=============================================================================
