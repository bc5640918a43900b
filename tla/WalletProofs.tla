---------------------------- MODULE WalletProofs ----------------------------
(***************************************************************************)
(* Proofs about the mining page, for any number of keys, derivations,      *)
(* mining sessions and transfers.  Of its wallet (WebWallet): the page     *)
(* never holds a key of which the user has no copy, and what it offers to  *)
(* unlock is what is on disk.  Of the dashboard on top of it               *)
(* (WebDashboard): it does nothing to the wallet that the wallet alone     *)
(* would not do, so that what is shown of the wallet holds of the whole    *)
(* page; no engine runs without its Stop button; what is signed is signed  *)
(* by who pays; and what the dialog says of a transfer is true.            *)
(***************************************************************************)
EXTENDS WebDashboard, TLAPS

Statuses == {"loading", "needs-setup", "needs-unlock", "unlocked"}
Screens == [mode : Modes, draft : Keys \union {None, Garbled},
            backedUp : BOOLEAN, busy : BOOLEAN]
JobSet == [op : {"install", "unlock"}, key : Keys, here : BOOLEAN] \union {NoJob}

(* Before the provider has loaded there is nothing in memory.              *)
NothingLoaded == status = "loading" =>
    stored = None /\ loaded = None /\ \A j \in Jobs : jobs[j] = NoJob

(* A draft on its way to be encrypted is saved: the checkbox is about the  *)
(* draft on the screen.                                                    *)
DraftIsSaved(s) ==
    /\ s.mode = "choose" => s.draft = None
    /\ s.mode \in {"create-backup", "create-password"} => s.draft \in made
    /\ s.mode = "create-backup" /\ s.backedUp => s.draft \in saved
    /\ s.mode = "create-password" => s.draft \in saved
    /\ s.mode \in {"import", "import-password"} => s.draft \in saved \union {None, Garbled}

Drafts == DraftIsSaved(screen)

(* The menu that reveals the key is there only while there is one.         *)
MenuHasKey ==
    /\ screen.mode \in {"menu-closed", "menu-open"} => status = "unlocked"
    /\ status = "unlocked" => loaded # None

(* The inductive invariant.                                                *)
IInv == WTypeOK /\ NothingLoaded /\ Drafts /\ MenuHasKey /\ KeysAreSaved /\ StoredIsOnDisk

-----------------------------------------------------------------------------

(* A screen that has just been mounted has no draft.                       *)
LEMMA FreshScreen ==
    ASSUME NEW st \in Statuses
    PROVE  /\ Fresh(st) \in Screens
           /\ Fresh(st).mode \in {"blank", "choose", "locked", "menu-closed"}
           /\ Fresh(st).mode = "menu-closed" => st = "unlocked"
           /\ Fresh(st).draft = None /\ Fresh(st).backedUp = FALSE
  BY DEF Fresh, Screens, Statuses, Modes

(* The page opens with an empty memory.                                    *)
LEMMA InitInv == WInit => IInv
  <1> SUFFICES ASSUME WInit PROVE IInv
    OBVIOUS
  <1> USE DEF WInit
  <1>1. /\ screen \in Screens /\ screen.mode = "blank" /\ screen.draft = None
    BY DEF Fresh, Screens, Modes
  <1>2. jobs \in [Jobs -> JobSet] /\ \A j \in Jobs : jobs[j] = NoJob
    BY DEF JobSet
  <1>3. WTypeOK
    BY <1>1, <1>2 DEF WTypeOK, Screens, JobSet
  <1>4. NothingLoaded /\ Drafts /\ MenuHasKey /\ StoredIsOnDisk
    BY <1>1, <1>2 DEF NothingLoaded, Drafts, DraftIsSaved, MenuHasKey, StoredIsOnDisk
  <1>5. KeysAreSaved
    BY <1>2 DEF KeysAreSaved, NoJob
  <1> QED
    BY <1>3, <1>4, <1>5 DEF IInv

(* Rendering ends the jobs that are done and mounts a screen with no draft *)
(* or leaves the one there as it is, but for busy.                         *)
LEMMA RenderFacts ==
    ASSUME WTypeOK, NEW st \in Statuses, NEW done \in SUBSET Jobs, Render(st, done)
    PROVE  /\ status' = st
           /\ jobs' \in [Jobs -> JobSet]
           /\ \A j \in Jobs : jobs'[j].key \in {jobs[j].key, None}
           /\ \A j \in Jobs : jobs[j] = NoJob => jobs'[j] = NoJob
           /\ screen' \in Screens
           /\ \/ /\ st # status
                 /\ screen'.mode \in {"blank", "choose", "locked", "menu-closed"}
                 /\ screen'.mode = "menu-closed" => st = "unlocked"
                 /\ screen'.draft = None /\ screen'.backedUp = FALSE
              \/ /\ st = status
                 /\ screen'.mode = screen.mode /\ screen'.draft = screen.draft
                 /\ screen'.backedUp = screen.backedUp
  <1>1. status' = st
    BY DEF Render
  <1>2. ASSUME NEW j \in Jobs
        PROVE  /\ jobs'[j] \in JobSet
               /\ jobs'[j].key \in {jobs[j].key, None}
               /\ jobs[j] = NoJob => jobs'[j] = NoJob
    <2>1. jobs'[j] = IF j \in done THEN NoJob
                     ELSE [jobs[j] EXCEPT !.here = @ /\ st = status]
      BY DEF Render
    <2>2. jobs[j] \in JobSet
      BY DEF WTypeOK, JobSet
    <2>3. CASE j \in done
      BY <2>1, <2>3 DEF JobSet, NoJob
    <2>4. CASE j \notin done /\ jobs[j] = NoJob
      <3>1. jobs'[j] = [NoJob EXCEPT !.here = @ /\ st = status]
        BY <2>1, <2>4
      <3>2. (NoJob.here /\ st = status) = FALSE
        BY DEF NoJob
      <3>3. [NoJob EXCEPT !.here = FALSE] = NoJob
        <4>1. NoJob \in [op : {"none"}, key : {None}, here : {FALSE}]
          BY DEF NoJob
        <4>2. [NoJob EXCEPT !.here = FALSE] \in [op : {"none"}, key : {None}, here : {FALSE}]
          BY <4>1
        <4> QED
          BY <4>1, <4>2
      <3>4. jobs'[j] = NoJob
        BY <3>1, <3>2, <3>3
      <3> QED
        BY <3>4, <2>4 DEF JobSet
    <2>5. CASE j \notin done /\ jobs[j] # NoJob
      BY <2>1, <2>2, <2>5 DEF JobSet
    <2> QED
      BY <2>3, <2>4, <2>5
  <1>3. jobs' \in [Jobs -> JobSet]
    <2>1. jobs' = [j \in Jobs |-> jobs'[j]]
      BY DEF Render
    <2> QED
      BY <1>2, <2>1
  <1>4. CASE st # status
    <2>1. screen' = Fresh(st)
      BY <1>4 DEF Render
    <2> QED
      BY <1>1, <1>2, <1>3, <1>4, <2>1, FreshScreen
  <1>5. CASE st = status
    <2>1. screen' = [screen EXCEPT !.busy = @ /\ \A j \in done : ~jobs[j].here]
      BY <1>5 DEF Render
    <2>2. screen \in Screens
      BY DEF WTypeOK, Screens
    <2>3. /\ screen' \in Screens
          /\ screen'.mode = screen.mode /\ screen'.draft = screen.draft
          /\ screen'.backedUp = screen.backedUp
      BY <2>1, <2>2 DEF Screens
    <2> QED
      BY <1>1, <1>2, <1>3, <1>5, <2>3
  <1> QED
    BY <1>4, <1>5

-----------------------------------------------------------------------------
(* Three kinds of step.                                                    *)

(* The user works on the screen: drafts come and go, copies are made.      *)
LEMMA ScreenKeepsInv ==
    ASSUME IInv, UI, screen' \in Screens,
           made \subseteq made', made' \subseteq Keys,
           saved \subseteq saved', saved' \subseteq made',
           DraftIsSaved(screen)',
           screen'.mode \in {"menu-closed", "menu-open"} => status = "unlocked"
    PROVE  IInv'
  <1>1. UNCHANGED <<disk, status, stored, loaded, jobs>>
    BY DEF UI, provider
  <1>2. WTypeOK'
    BY <1>1 DEF IInv, WTypeOK, Screens
  <1>3. NothingLoaded' /\ MenuHasKey' /\ StoredIsOnDisk'
    BY <1>1 DEF IInv, NothingLoaded, MenuHasKey, StoredIsOnDisk
  <1>4. KeysAreSaved'
    BY <1>1 DEF IInv, KeysAreSaved
  <1> QED
    BY <1>2, <1>3, <1>4 DEF IInv, Drafts

(* A derivation of a saved key is started; the screen says it is busy.     *)
LEMMA BeginKeepsInv ==
    ASSUME IInv, NEW j \in Jobs, NEW what \in {"install", "unlock"},
           NEW k \in saved, status # "loading", Begin(j, what, k)
    PROVE  IInv'
  <1>1. /\ jobs' = [jobs EXCEPT ![j] = [op |-> what, key |-> k, here |-> TRUE]]
        /\ screen' = [screen EXCEPT !.busy = TRUE]
        /\ UNCHANGED <<disk, status, stored, loaded, made, saved>>
    BY DEF Begin, provider
  <1>2. screen \in Screens /\ jobs \in [Jobs -> JobSet] /\ saved \subseteq Keys
    BY DEF IInv, WTypeOK, Screens, JobSet
  <1>3. /\ screen' \in Screens
        /\ screen'.mode = screen.mode /\ screen'.draft = screen.draft
        /\ screen'.backedUp = screen.backedUp
    BY <1>1, <1>2 DEF Screens
  <1>4. [op |-> what, key |-> k, here |-> TRUE] \in JobSet
    BY <1>2 DEF JobSet
  <1>5. jobs' \in [Jobs -> JobSet] /\ \A i \in Jobs : jobs'[i].key \in {jobs[i].key, k}
    BY <1>1, <1>2, <1>4
  <1>6. WTypeOK'
    BY <1>1, <1>3, <1>5 DEF IInv, WTypeOK, Screens, JobSet
  <1>7. NothingLoaded' /\ StoredIsOnDisk'
    BY <1>1 DEF IInv, NothingLoaded, StoredIsOnDisk
  <1>8. Drafts' /\ MenuHasKey'
    BY <1>1, <1>3 DEF IInv, Drafts, DraftIsSaved, MenuHasKey
  <1>9. KeysAreSaved'
    BY <1>1, <1>5 DEF IInv, KeysAreSaved
  <1> QED
    BY <1>6, <1>7, <1>8, <1>9 DEF IInv

(* The provider changes to a state in which what is stored is on disk, of  *)
(* keys that are saved, and renders.                                       *)
LEMMA RenderKeepsInv ==
    ASSUME IInv, NEW st \in Statuses \ {"loading"}, NEW done \in SUBSET Jobs,
           Render(st, done), UNCHANGED <<made, saved>>,
           {disk', stored', loaded'} \subseteq saved \union {None},
           st = "unlocked" => loaded' # None,
           stored' # None => stored' = disk',
           st \in {"needs-unlock", "needs-setup"} => stored' = disk' /\ loaded' = None
    PROVE  IInv'
  <1>1. WTypeOK /\ st \in Statuses
    BY DEF IInv, Statuses
  <1>2. /\ status' = st /\ jobs' \in [Jobs -> JobSet] /\ screen' \in Screens
        /\ \A j \in Jobs : jobs'[j].key \in {jobs[j].key, None}
    BY <1>1, RenderFacts
  <1>3. \/ /\ screen'.mode \in {"blank", "choose", "locked", "menu-closed"}
           /\ screen'.mode = "menu-closed" => st = "unlocked"
           /\ screen'.draft = None /\ screen'.backedUp = FALSE
        \/ /\ st = status
           /\ screen'.mode = screen.mode /\ screen'.draft = screen.draft
           /\ screen'.backedUp = screen.backedUp
    BY <1>1, RenderFacts
  <1>4. WTypeOK'
    BY <1>1, <1>2 DEF WTypeOK, Screens, JobSet, Statuses
  <1>5. NothingLoaded' /\ StoredIsOnDisk'
    BY <1>2 DEF NothingLoaded, StoredIsOnDisk
  <1>6. Drafts' /\ MenuHasKey'
    BY <1>2, <1>3 DEF IInv, Drafts, DraftIsSaved, MenuHasKey
  <1>7. KeysAreSaved'
    BY <1>2 DEF IInv, KeysAreSaved
  <1> QED
    BY <1>4, <1>5, <1>6, <1>7 DEF IInv

-----------------------------------------------------------------------------
(* Every step of the page keeps the invariant.                             *)
LEMMA NextKeepsInv == IInv /\ [WNext]_wvars => IInv'
  <1> SUFFICES ASSUME IInv, [WNext]_wvars PROVE IInv'
    OBVIOUS
  <1> USE WalletAssumption
  <1>1. /\ WTypeOK /\ NothingLoaded /\ Drafts /\ MenuHasKey /\ KeysAreSaved /\ StoredIsOnDisk
        /\ screen \in Screens /\ status \in Statuses /\ jobs \in [Jobs -> JobSet]
        /\ made \subseteq Keys /\ saved \subseteq made
    BY DEF IInv, WTypeOK, Screens, Statuses, JobSet
  <1>2. CASE UNCHANGED wvars
    BY <1>1, <1>2 DEF wvars, provider, IInv, WTypeOK, NothingLoaded, Drafts, DraftIsSaved,
                      MenuHasKey, KeysAreSaved, StoredIsOnDisk
  <1>3. CASE Load
    <2> DEFINE st == IF disk = None THEN "needs-setup" ELSE "needs-unlock"
    <2>1. st \in Statuses \ {"loading"} /\ {} \in SUBSET Jobs /\ st # "unlocked"
      BY DEF Statuses
    <2>2. /\ Render(st, {}) /\ UNCHANGED <<made, saved>>
          /\ disk' = disk /\ stored' = disk /\ loaded' = None
      BY <1>1, <1>3 DEF Load, loadStoredWallet, NothingLoaded
    <2>3. {disk', stored', loaded'} \subseteq saved \union {None}
      BY <1>1, <2>2 DEF KeysAreSaved
    <2> QED
      BY <2>1, <2>2, <2>3, RenderKeepsInv
  <1>4. CASE Reload
    <2>1. /\ status' = "loading" /\ stored' = None /\ loaded' = None
          /\ screen' = Fresh("loading") /\ jobs' = [j \in Jobs |-> NoJob]
          /\ UNCHANGED <<disk, made, saved>>
      BY <1>4 DEF Reload
    <2>2. screen' \in Screens /\ screen'.mode = "blank"
      BY <2>1 DEF Fresh, Screens, Modes
    <2>3. jobs' \in [Jobs -> JobSet]
      BY <2>1 DEF JobSet
    <2>4. WTypeOK'
      BY <1>1, <2>1, <2>2, <2>3 DEF WTypeOK, Screens, JobSet
    <2>5. NothingLoaded' /\ Drafts' /\ MenuHasKey' /\ StoredIsOnDisk'
      BY <2>1, <2>2 DEF NothingLoaded, Drafts, DraftIsSaved, MenuHasKey, StoredIsOnDisk
    <2>6. KeysAreSaved'
      BY <1>1, <2>1 DEF KeysAreSaved, NoJob
    <2> QED
      BY <2>4, <2>5, <2>6 DEF IInv
  <1>5. CASE StartCreate
    <2>1. PICK k \in Keys \ made :
            /\ screen' = [screen EXCEPT !.mode = "create-backup", !.draft = k,
                                        !.backedUp = FALSE]
            /\ made' = made \union {k}
      BY <1>5 DEF StartCreate
    <2>2. /\ screen' \in Screens /\ screen'.mode = "create-backup"
          /\ screen'.draft = k /\ screen'.backedUp = FALSE
      BY <1>1, <2>1 DEF Screens, Modes
    <2>3. UI /\ UNCHANGED saved
      BY <1>5 DEF StartCreate
    <2>4. DraftIsSaved(screen)'
      BY <2>1, <2>2 DEF DraftIsSaved
    <2> QED
      BY <1>1, <2>1, <2>2, <2>3, <2>4, ScreenKeepsInv
  <1>6. CASE TickBackup
    <2>1. /\ screen.mode = "create-backup" /\ UI /\ UNCHANGED made
          /\ screen' = [screen EXCEPT !.backedUp = ~@]
          /\ saved' = saved \union {screen.draft}
      BY <1>6 DEF TickBackup, KeyReveal, At
    <2>2. /\ screen' \in Screens /\ screen'.mode = "create-backup"
          /\ screen'.draft = screen.draft
      BY <1>1, <2>1 DEF Screens
    <2>3. screen.draft \in made
      BY <1>1, <2>1 DEF Drafts, DraftIsSaved
    <2>4. DraftIsSaved(screen)'
      BY <2>1, <2>2, <2>3 DEF DraftIsSaved
    <2> QED
      BY <1>1, <2>1, <2>2, <2>3, <2>4, ScreenKeepsInv
  <1>7. CASE AbandonDraft \/ AbandonImport \/ ChooseImport \/ AskForget
    <2>1. UI /\ UNCHANGED <<made, saved>>
      BY <1>7 DEF AbandonDraft, AbandonImport, Leave, ChooseImport, AskForget, Click
    <2>2. /\ screen' \in Screens
          /\ \/ screen'.mode = "choose" /\ screen'.draft = None
             \/ screen'.mode = "import" /\ screen'.draft = None
             \/ screen'.mode \in {"locked", "confirm-forget"}
      BY <1>1, <1>7 DEF AbandonDraft, AbandonImport, Leave, ChooseImport, AskForget,
                        Click, At, Step, Screens, Modes, Drafts, DraftIsSaved
    <2>3. DraftIsSaved(screen)'
      BY <2>1, <2>2 DEF DraftIsSaved
    <2> QED
      BY <1>1, <2>1, <2>2, <2>3, ScreenKeepsInv
  <1>8. CASE Paste
    <2>1. PICK k \in Keys \union {Garbled} :
            /\ screen' = [screen EXCEPT !.draft = k]
            /\ made' = made \union ({k} \ {Garbled})
            /\ saved' = saved \union ({k} \ {Garbled})
      BY <1>8 DEF Paste
    <2>2. screen.mode = "import" /\ UI
      BY <1>8 DEF Paste, At
    <2>3. /\ screen' \in Screens /\ screen'.mode = "import" /\ screen'.draft = k
      BY <1>1, <2>1, <2>2 DEF Screens
    <2>4. /\ made \subseteq made' /\ made' \subseteq Keys
          /\ saved \subseteq saved' /\ saved' \subseteq made'
      BY <1>1, <2>1
    <2>5. DraftIsSaved(screen)'
      BY <2>1, <2>3 DEF DraftIsSaved
    <2> QED
      BY <2>2, <2>3, <2>4, <2>5, ScreenKeepsInv
  <1>9. CASE BackedUp \/ Pasted \/ BackToBackup \/ BackToImport
    <2>1. UI /\ UNCHANGED <<made, saved>>
      BY <1>9 DEF BackedUp, Pasted, BackToBackup, BackToImport, Click
    <2>2. PICK m \in {"create-backup", "create-password", "import", "import-password"} :
            /\ screen' = [screen EXCEPT !.mode = m]
            /\ m = "create-backup" => screen.mode = "create-password"
            /\ m = "create-password" => screen.mode = "create-backup" /\ screen.backedUp
            /\ m = "import" => screen.mode = "import-password"
            /\ m = "import-password" => screen.mode = "import"
      BY <1>9 DEF BackedUp, Pasted, BackToBackup, BackToImport, Click, At, Step
    <2>3. screen' \in Screens /\ screen'.mode = m /\ screen'.draft = screen.draft
      BY <1>1, <2>2 DEF Screens, Modes
    <2>4. DraftIsSaved(screen)'
      BY <1>1, <2>1, <2>2, <2>3 DEF Drafts, DraftIsSaved
    <2> QED
      BY <1>1, <2>1, <2>2, <2>3, <2>4, ScreenKeepsInv
  <1>10. CASE \E j \in Jobs : SubmitSetup(j)
    <2>1. PICK j \in Jobs : SubmitSetup(j)
      BY <1>10
    <2>2. /\ status # "loading" /\ screen.draft \in Keys
          /\ screen.mode \in {"create-password", "import-password"}
          /\ Begin(j, "install", screen.draft)
      BY <1>1, <2>1 DEF SubmitSetup, PasswordPanel, keypairFromUserInput, At, Screens
    <2>3. screen.draft \in saved
      BY <1>1, <2>2 DEF Drafts, DraftIsSaved
    <2> QED
      BY <2>2, <2>3, BeginKeepsInv
  <1>11. CASE \E j \in Jobs : SubmitUnlock(j)
    <2>1. PICK j \in Jobs : SubmitUnlock(j)
      BY <1>11
    <2>2. status # "loading" /\ stored # None /\ Begin(j, "unlock", stored)
      BY <2>1 DEF SubmitUnlock, UnlockForm, At
    <2>3. stored \in saved
      BY <1>1, <2>2 DEF KeysAreSaved
    <2> QED
      BY <2>2, <2>3, BeginKeepsInv
  <1>12. ASSUME NEW j \in Jobs, Installed(j) \/ Unlocked(j)
         PROVE  IInv'
    <2>1. jobs[j].op # "none" /\ UNCHANGED <<made, saved>>
      BY <1>12 DEF Installed, Unlocked
    <2>2. status # "loading" /\ {j} \in SUBSET Jobs
      BY <1>1, <2>1 DEF NothingLoaded, NoJob
    <2>3. jobs[j].key \in saved \union {None} /\ jobs[j].key # None
      BY <1>1, <2>1 DEF KeysAreSaved, JobSet, NoJob
    <2>4. {disk, stored, loaded} \subseteq saved \union {None}
      BY <1>1 DEF KeysAreSaved
    <2>5. CASE /\ disk' = jobs[j].key /\ stored' = jobs[j].key /\ loaded' = jobs[j].key
               /\ Render("unlocked", {j})
      BY <2>1, <2>2, <2>3, <2>5, RenderKeepsInv DEF Statuses
    <2>6. CASE loaded' = jobs[j].key /\ Render("unlocked", {j}) /\ UNCHANGED <<disk, stored>>
      <3>1. stored' # None => stored' = disk'
        BY <1>1, <2>6 DEF StoredIsOnDisk
      <3>2. {disk', stored', loaded'} \subseteq saved \union {None}
        BY <2>3, <2>4, <2>6
      <3> QED
        BY <2>1, <2>2, <2>3, <2>6, <3>1, <3>2, RenderKeepsInv DEF Statuses
    <2>7. CASE Render(status, {j}) /\ UNCHANGED <<disk, stored, loaded>>
      <3>1. /\ stored' # None => stored' = disk'
            /\ status \in {"needs-unlock", "needs-setup"} => stored' = disk' /\ loaded' = None
            /\ status = "unlocked" => loaded' # None
            /\ {disk', stored', loaded'} \subseteq saved \union {None}
        BY <1>1, <2>4, <2>7 DEF StoredIsOnDisk, MenuHasKey
      <3>2. status \in Statuses \ {"loading"}
        BY <1>1, <2>2
      <3> QED
        BY <2>1, <2>2, <2>7, <3>1, <3>2, RenderKeepsInv
    <2> QED
      BY <1>12, <2>3, <2>5, <2>6, <2>7
      DEF Installed, Unlocked, installWallet, persistWallet, unlockWallet
  <1>13. CASE Forget
    <2>1. /\ disk' = None /\ stored' = None /\ loaded' = None
          /\ Render("needs-setup", {}) /\ UNCHANGED <<made, saved>>
      BY <1>13 DEF Forget, deleteStoredWallet
    <2>2. "needs-setup" \in Statuses \ {"loading"} /\ {} \in SUBSET Jobs
      BY DEF Statuses
    <2> QED
      BY <2>1, <2>2, RenderKeepsInv
  <1>14. CASE Menu
    <2>1. UI /\ UNCHANGED <<made, saved>> /\ screen.mode \in {"menu-closed", "menu-open"}
      BY <1>14 DEF Menu, Click, At
    <2>2. screen' \in Screens /\ screen'.mode \in {"menu-closed", "menu-open"}
      BY <1>1, <1>14 DEF Menu, Click, Step, Screens, Modes
    <2>3. DraftIsSaved(screen)' /\ status = "unlocked"
      BY <1>1, <2>1, <2>2 DEF DraftIsSaved, MenuHasKey
    <2> QED
      BY <1>1, <2>1, <2>2, <2>3, ScreenKeepsInv
  <1>15. CASE Reveal
    <2>1. /\ UI /\ UNCHANGED <<screen, made>> /\ screen.mode = "menu-open"
          /\ saved' = saved \union ({loaded} \ {None})
      BY <1>15 DEF Reveal, exportSecret, At
    <2>2. saved' = saved /\ status = "unlocked"
      BY <1>1, <2>1 DEF MenuHasKey, KeysAreSaved
    <2>3. DraftIsSaved(screen)'
      BY <1>1, <2>1, <2>2 DEF Drafts, DraftIsSaved
    <2> QED
      BY <1>1, <2>1, <2>2, <2>3, ScreenKeepsInv
  <1>16. CASE Lock
    <2>1. screen.mode = "menu-open" /\ UNCHANGED <<disk, stored, made, saved>>
      BY <1>16 DEF Lock, At
    <2>2. CASE stored # None
      <3>1. loaded' = None /\ Render("needs-unlock", {})
        BY <1>16, <2>2 DEF Lock, lock
      <3>2. /\ stored' = disk' /\ {disk', stored', loaded'} \subseteq saved \union {None}
        BY <1>1, <2>1, <2>2, <3>1 DEF StoredIsOnDisk, KeysAreSaved
      <3>3. "needs-unlock" \in Statuses \ {"loading"} /\ {} \in SUBSET Jobs
        BY DEF Statuses
      <3> QED
        BY <2>1, <3>1, <3>2, <3>3, RenderKeepsInv
    <2>3. CASE stored = None
      <3>1. Step("menu-closed") /\ UI /\ UNCHANGED <<made, saved>>
        BY <1>16, <2>1, <2>3 DEF Lock, lock, UI, provider
      <3>2. screen' \in Screens /\ screen'.mode = "menu-closed"
        BY <1>1, <3>1 DEF Step, Screens, Modes
      <3>3. DraftIsSaved(screen)' /\ status = "unlocked"
        BY <1>1, <2>1, <3>2 DEF DraftIsSaved, MenuHasKey
      <3> QED
        BY <1>1, <3>1, <3>2, <3>3, ScreenKeepsInv
    <2> QED
      BY <2>2, <2>3
  <1> QED
    BY <1>2, <1>3, <1>4, <1>5, <1>6, <1>7, <1>8, <1>9, <1>10, <1>11, <1>12, <1>13,
       <1>14, <1>15, <1>16 DEF WNext, Wizard

(* Every reachable state of the page satisfies the invariant.              *)
LEMMA Invariance == WSpec => []IInv
  <1>1. WInit => IInv
    BY InitInv
  <1>2. IInv /\ [WNext]_wvars => IInv'
    BY NextKeepsInv
  <1> QED
    BY <1>1, <1>2, PTL DEF WSpec

(* The page never unlocks, stores or encrypts a key of which the user has  *)
(* no copy (SetupWizard.tsx:20-44, wallet-context.tsx:94-167).             *)
THEOREM SpecKeepsKeysSaved == WSpec => []KeysAreSaved
  <1>1. IInv => KeysAreSaved
    BY DEF IInv
  <1> QED
    BY <1>1, Invariance, PTL

(* What the unlock screen offers to decrypt is what is on disk, whatever   *)
(* derivation was in flight when the wallet was forgotten or locked        *)
(* (wallet-context.tsx:147-185).                                           *)
THEOREM SpecStoresOnDisk == WSpec => []StoredIsOnDisk
  <1>1. IInv => StoredIsOnDisk
    BY DEF IInv
  <1> QED
    BY <1>1, Invariance, PTL

(* Every step of the page is a step of the wallet or leaves it alone.      *)
LEMMA StepRefinesWallet == [Next]_vars => [WNext]_wvars
  <1> SUFFICES ASSUME [Next]_vars PROVE WNext \/ UNCHANGED wvars
    OBVIOUS
  <1>1. CASE UNCHANGED vars
    BY <1>1 DEF vars
  <1>2. CASE Wallet
    BY <1>2 DEF Wallet
  <1>3. CASE Mining
    BY <1>3 DEF Mining, Refresh, onSent, Stop, Start, Found, Signed, Settled
  <1>4. CASE OpenSend
    <2>1. Menu
      BY <1>4 DEF OpenSend, Menu, Click, UI, At
    <2> QED
      BY <2>1 DEF WNext
  <1>5. CASE CloseSend \/ \E s \in Sends : PressSend(s) \/ Transfer(s) \/ Lands(s)
    BY <1>5 DEF CloseSend, PressSend, Transfer, Lands, SendTx, SendThrows, Polled, Conclude
  <1> QED
    BY <1>1, <1>2, <1>3, <1>4, <1>5 DEF Next, Sending

(* The mining page implements the wallet (MineClient.tsx:16-33 mounts the  *)
(* dashboard behind it).                                                   *)
THEOREM DashboardImplementsWallet == Spec => WSpec
  <1>1. Init => WInit
    BY DEF Init
  <1>2. [Next]_vars => [WNext]_wvars
    BY StepRefinesWallet
  <1> QED
    BY <1>1, <1>2, PTL DEF Spec, WSpec

(* Of the whole page: it never unlocks, stores or encrypts a key of which  *)
(* the user has no copy, and offers to unlock what is on disk.             *)
THEOREM DashboardKeepsWallet == Spec => [](KeysAreSaved /\ StoredIsOnDisk)
  BY DashboardImplementsWallet, SpecKeepsKeysSaved, SpecStoresOnDisk, PTL

-----------------------------------------------------------------------------
(* The inductive invariant: OneEngine, with the types it needs.            *)
EngineInv ==
    /\ engines \in [Engines -> [on : BOOLEAN, tx : {"none", "building", "sent"}]]
    /\ handle \in Engines \union {None}
    /\ OneEngine

(* The page opens with no engine.                                          *)
LEMMA InitEngine == Init => EngineInv
  <1> SUFFICES ASSUME Init PROVE EngineInv
    OBVIOUS
  <1>1. /\ engines = [e \in Engines |-> NoEngine] /\ handle = None /\ ~running
        /\ running \in BOOLEAN
    BY DEF Init, DInit
  <1>2. NoEngine \in [on : BOOLEAN, tx : {"none", "building", "sent"}]
    BY DEF NoEngine
  <1>3. \A e \in Engines : engines[e].on = FALSE
    BY <1>1 DEF NoEngine
  <1> QED
    BY <1>1, <1>2, <1>3 DEF EngineInv, OneEngine

(* A submission does not start or stop an engine.                          *)
LEMMA SubmissionKeepsEngine ==
    ASSUME EngineInv, NEW e \in Engines, Found(e) \/ Signed(e) \/ Settled(e)
    PROVE  EngineInv'
  <1> DEFINE E == [on : BOOLEAN, tx : {"none", "building", "sent"}]
  <1>1. PICK t \in {"none", "building", "sent"} :
          engines' = [engines EXCEPT ![e] = [engines[e] EXCEPT !.tx = t]]
    BY DEF Found, Signed, Settled
  <1>2. /\ engines' \in [Engines -> E]
        /\ \A x \in Engines : engines'[x].on = engines[x].on
    BY <1>1 DEF EngineInv
  <1>3. UNCHANGED <<status, running, handle>>
    BY DEF Found, Signed, Settled, wvars, provider, board
  <1> QED
    BY <1>2, <1>3 DEF EngineInv, OneEngine, Mounted

(* Every step keeps the invariant.                                         *)
LEMMA NextEngine == IInv /\ EngineInv /\ [Next]_vars => EngineInv'
  <1> SUFFICES ASSUME IInv, EngineInv, [Next]_vars PROVE EngineInv'
    OBVIOUS
  <1> USE DashboardAssumption
  <1> DEFINE E == [on : BOOLEAN, tx : {"none", "building", "sent"}]
  <1>1. /\ engines \in [Engines -> E] /\ handle \in Engines \union {None}
        /\ loaded \in Keys \union {None}
        /\ \A e \in Engines : engines[e].on <=> handle = e
        /\ running <=> handle # None
        /\ running => status = "unlocked"
    BY DEF EngineInv, OneEngine, Mounted, IInv, WTypeOK
  <1>2. ASSUME UNCHANGED <<status, running, handle, engines>>
        PROVE  EngineInv'
    BY <1>2 DEF EngineInv, OneEngine, Mounted
  <1>3. \A e \in Engines : /\ [engines[e] EXCEPT !.on = FALSE] \in E
                           /\ [engines[e] EXCEPT !.on = FALSE].on = FALSE
    BY <1>1
  <1>4. CASE UNCHANGED vars
    BY <1>2, <1>4 DEF vars, wvars, dvars, provider, board
  <1>5. CASE Wallet /\ status' = "unlocked"
    <2>1. UNCHANGED <<running, handle, engines>>
      BY <1>5 DEF Wallet, dvars, board
    <2> QED
      BY <1>1, <1>5, <2>1 DEF EngineInv, OneEngine, Mounted
  <1>6. CASE Wallet /\ status' # "unlocked"
    <2>1. /\ running' = FALSE /\ handle' = None
          /\ engines' = IF status' = "loading"
                        THEN [e \in Engines |-> NoEngine]
                        ELSE Halted(handle)
      BY <1>6 DEF Wallet, Unmount
    <2>2. engines' \in [Engines -> E] /\ \A e \in Engines : engines'[e].on = FALSE
      <3>1. CASE status' = "loading"
        BY <2>1, <3>1 DEF NoEngine
      <3>2. CASE status' # "loading"
        BY <1>1, <1>3, <2>1, <3>2 DEF Halted
      <3> QED
        BY <3>1, <3>2
    <2> QED
      BY <2>1, <2>2 DEF EngineInv, OneEngine
  <1>7. CASE Stop
    <2>1. /\ running' = FALSE /\ handle' = None /\ engines' = Halted(handle)
      BY <1>7 DEF Stop
    <2>2. engines' \in [Engines -> E] /\ \A e \in Engines : engines'[e].on = FALSE
      BY <1>1, <1>3, <2>1 DEF Halted
    <2> QED
      BY <2>1, <2>2 DEF EngineInv, OneEngine
  <1>8. ASSUME NEW e \in Engines, Start(e)
        PROVE  EngineInv'
    <2>1. /\ running' = TRUE /\ handle' = e /\ ~running
          /\ engines' = [engines EXCEPT ![e].on = TRUE]
          /\ status = "unlocked" /\ status' = status
      BY <1>8 DEF Start, Offers, Mounted, wvars, provider
    <2>2. engines' = [engines EXCEPT ![e] = [engines[e] EXCEPT !.on = TRUE]]
      BY <1>1, <2>1
    <2>3. engines[e] \in E
      BY <1>1
    <2>4. /\ [engines[e] EXCEPT !.on = TRUE] \in E
          /\ [engines[e] EXCEPT !.on = TRUE].on = TRUE
      BY <1>1, <2>3
    <2>5. /\ engines' \in [Engines -> E]
          /\ \A x \in Engines : engines'[x].on <=> x = e
      BY <1>1, <2>1, <2>2, <2>4
    <2> QED
      BY <2>1, <2>5 DEF EngineInv, OneEngine, Mounted
  <1>9. CASE Refresh \/ onSent
    BY <1>2, <1>9 DEF Refresh, onSent, wvars, provider
  <1>10. CASE OpenSend \/ CloseSend \/ \E s \in Sends : PressSend(s) \/ Transfer(s) \/ Lands(s)
    BY <1>2, <1>10 DEF OpenSend, CloseSend, PressSend, Transfer, Lands, SendTx, SendThrows,
                       Polled, Conclude, wvars, provider, board
  <1> QED
    BY <1>4, <1>5, <1>6, <1>7, <1>8, <1>9, <1>10, SubmissionKeepsEngine
       DEF Next, Mining, Sending

(* At most one engine runs, the one the screen has a Stop button for       *)
(* (MineDashboard.tsx:133-185).                                            *)
THEOREM SpecHasOneEngine == Spec => []OneEngine
  <1>1. Spec => []IInv
    BY DashboardImplementsWallet, Invariance, PTL
  <1>2. Init => EngineInv
    BY InitEngine
  <1>3. IInv /\ EngineInv /\ [Next]_vars => EngineInv'
    BY NextEngine
  <1>4. EngineInv => OneEngine
    BY DEF EngineInv
  <1> QED
    BY <1>1, <1>2, <1>3, <1>4, PTL DEF Spec

-----------------------------------------------------------------------------
(* The transfers and the dialog.                                           *)

SendSet == [at : {"unused", "building", "polling", "done"},
            wire : {"none", "sent", "landed", "rejected"},
            key : {None} \union Keys, signer : {None} \union Keys, here : BOOLEAN]

(* A transfer is on the wire only once it is built.                        *)
SendOk(x) == x.at \in {"unused", "building"} => x.wire = "none"

SendInv == sends \in [Sends -> SendSet] /\ \A s \in Sends : SendOk(sends[s])

(* The dialog speaks of a transfer of its own, and its word is kept.       *)
DialogInv ==
    /\ modal.status = "sent" => modal.of \in Sends /\ sends[modal.of].wire = "landed"
    /\ modal.status = "sending" =>
          /\ modal.of \in Sends /\ sends[modal.of].here
          /\ sends[modal.of].at \in {"building", "polling"}
    /\ modal \in [open : BOOLEAN, status : {"idle", "sending", "sent", "failed", "lost"},
                  of : Sends \union {None}]

(* What a step does to one transfer.                                       *)
SendBecomes(s, r) == sends' = [sends EXCEPT ![s] = r]

LEMMA SendsKept ==
    ASSUME sends \in [Sends -> SendSet], \A s \in Sends : SendOk(sends[s]),
           NEW s \in Sends, NEW r \in SendSet, SendOk(r), SendBecomes(s, r)
    PROVE  /\ sends' \in [Sends -> SendSet] /\ \A x \in Sends : SendOk(sends'[x])
           /\ sends'[s] = r /\ \A x \in Sends \ {s} : sends'[x] = sends[x]
BY DEF SendBecomes

(* Each step of a transfer, and the dialog it leaves.                      *)
LEMMA PressFacts ==
    ASSUME NEW s \in Sends, NEW k \in {None} \union Keys,
           PressSend(s), loaded = k
    PROVE  \E r \in SendSet :
              /\ SendOk(r) /\ SendBecomes(s, r) /\ r.here /\ r.at = "building"
              /\ modal' = [modal EXCEPT !.status = "sending", !.of = s]
  <1> DEFINE n == NoSend
             r == [n EXCEPT !.at = "building", !.key = k, !.here = TRUE]
  <1>1. n \in SendSet /\ n.wire = "none"
    BY DEF NoSend, SendSet
  <1>2. r \in SendSet /\ SendOk(r) /\ r.here = TRUE /\ r.at = "building"
    <2> HIDE DEF n
    <2> QED
      BY <1>1 DEF SendSet, SendOk
  <1>3. SendBecomes(s, r) /\ modal' = [modal EXCEPT !.status = "sending", !.of = s]
    <2> HIDE DEF n
    <2>1. sends' = [sends EXCEPT ![s] = [n EXCEPT !.at = "building", !.key = loaded,
                                                  !.here = TRUE]]
      BY DEF PressSend, n
    <2> QED
      BY <2>1 DEF PressSend, SendBecomes
  <1> HIDE DEF n, r
  <1> QED
    BY <1>2, <1>3

(* A transfer that goes on: signed and sent, or settled by the cluster.    *)
LEMMA WireFacts ==
    ASSUME NEW s \in Sends, sends \in [Sends -> SendSet], SendOk(sends[s]),
           SendTx(s) \/ Lands(s)
    PROVE  \E r \in SendSet :
              /\ SendOk(r) /\ SendBecomes(s, r) /\ modal' = modal
              /\ r.here = sends[s].here /\ sends[s].wire # "landed"
              /\ sends[s].at \in {"building", "polling"} => r.at \in {"building", "polling"}
  <1>1. sends[s] \in SendSet /\ modal' = modal
    BY DEF SendTx, Lands, board
  <1>2. CASE SendTx(s)
    <2> DEFINE r == [sends[s] EXCEPT !.at = "polling", !.wire = "sent",
                                     !.signer = sends[s].key]
    <2>1. r \in SendSet /\ SendOk(r) /\ r.at = "polling" /\ r.here = sends[s].here
      BY <1>1 DEF SendSet, SendOk
    <2>2. sends' = [sends EXCEPT ![s] = [sends[s] EXCEPT !.at = "polling", !.wire = "sent",
                                                         !.signer = sends[s].key]]
      BY <1>2 DEF SendTx
    <2>4. SendBecomes(s, r) /\ sends[s].wire # "landed"
      BY <1>2, <2>2 DEF SendBecomes, SendTx, SendOk
    <2> HIDE DEF r
    <2> QED
      BY <1>1, <2>1, <2>4
  <1>3. CASE Lands(s)
    <2>1. PICK w \in {"landed", "rejected"} : sends' = [sends EXCEPT ![s].wire = w]
      BY <1>3 DEF Lands
    <2> DEFINE r == [sends[s] EXCEPT !.wire = w]
    <2>2. sends[s].wire = "sent"
      BY <1>3 DEF Lands
    <2>3. r \in SendSet /\ SendOk(r) /\ r.at = sends[s].at /\ r.here = sends[s].here
      BY <1>1, <2>2 DEF SendSet, SendOk
    <2>4. SendBecomes(s, r)
      BY <2>1 DEF SendBecomes
    <2> HIDE DEF r
    <2> QED
      BY <1>1, <2>2, <2>3, <2>4
  <1> QED
    BY <1>2, <1>3

(* A transfer that ends.                                                   *)
LEMMA EndFacts ==
    ASSUME NEW s \in Sends, sends \in [Sends -> SendSet], SendOk(sends[s]),
           SendThrows(s) \/ Polled(s)
    PROVE  \E r \in SendSet, how \in {"sent", "failed", "lost"} :
              /\ SendOk(r) /\ SendBecomes(s, r) /\ r.here = sends[s].here
              /\ sends[s].wire = "landed" => r.wire = "landed"
              /\ how = "sent" => r.wire = "landed"
              /\ modal' = IF sends[s].here THEN [modal EXCEPT !.status = how, !.of = s]
                          ELSE modal
  <1>1. sends[s] \in SendSet
    OBVIOUS
  <1>2. ASSUME NEW how \in {"sent", "failed", "lost"}, Conclude(s, how),
               how = "sent" => sends[s].wire = "landed"
        PROVE  \E r \in SendSet :
                  /\ SendOk(r) /\ SendBecomes(s, r) /\ r.here = sends[s].here
                  /\ sends[s].wire = "landed" => r.wire = "landed"
                  /\ how = "sent" => r.wire = "landed"
                  /\ modal' = IF sends[s].here THEN [modal EXCEPT !.status = how, !.of = s]
                              ELSE modal
    <2> DEFINE r == [sends[s] EXCEPT !.at = "done"]
    <2>1. r \in SendSet /\ SendOk(r) /\ r.here = sends[s].here /\ r.wire = sends[s].wire
      BY <1>1 DEF SendSet, SendOk
    <2>2. SendBecomes(s, r)
      BY <1>2 DEF Conclude, SendBecomes
    <2> HIDE DEF r
    <2> QED
      BY <1>2, <2>1, <2>2 DEF Conclude
  <1>3. CASE /\ sends[s].at = "building"
             /\ sends' = [sends EXCEPT ![s].at = "done", ![s].wire = "sent",
                                       ![s].signer = sends[s].key]
             /\ modal' = IF sends[s].here THEN [modal EXCEPT !.status = "failed", !.of = s]
                         ELSE modal
    <2> DEFINE r == [sends[s] EXCEPT !.at = "done", !.wire = "sent", !.signer = sends[s].key]
    <2>1. r \in SendSet /\ SendOk(r) /\ r.here = sends[s].here
      BY <1>1 DEF SendSet, SendOk
    <2>2. SendBecomes(s, r) /\ sends[s].wire = "none"
      BY <1>3 DEF SendBecomes, SendOk
    <2> HIDE DEF r
    <2> QED
      BY <1>3, <2>1, <2>2
  <1> QED
    BY <1>2, <1>3 DEF SendThrows, Polled

-----------------------------------------------------------------------------

LEMMA InitSends == Init => SendInv /\ DialogInv
  <1> SUFFICES ASSUME Init PROVE SendInv /\ DialogInv
    OBVIOUS
  <1>1. NoSend \in SendSet /\ SendOk(NoSend)
    BY DEF NoSend, SendSet, SendOk
  <1>2. /\ Blank.status = "idle"
        /\ Blank \in [open : BOOLEAN, status : {"idle", "sending", "sent", "failed", "lost"},
                      of : Sends \union {None}]
    BY DEF Blank
  <1>3. sends = [s \in Sends |-> NoSend] /\ modal = Blank
    BY DEF Init, DInit
  <1> QED
    BY <1>1, <1>2, <1>3 DEF SendInv, DialogInv

(* A transfer's own step keeps the dialog's word.                          *)
LEMMA TransferKeeps ==
    ASSUME sends \in [Sends -> SendSet], \A x \in Sends : SendOk(sends[x]), DialogInv,
           IInv, NEW s \in Sends, PressSend(s) \/ Transfer(s) \/ Lands(s)
    PROVE  /\ sends' \in [Sends -> SendSet] /\ \A x \in Sends : SendOk(sends'[x])
           /\ DialogInv'
  <1> DEFINE M == [open : BOOLEAN, status : {"idle", "sending", "sent", "failed", "lost"},
                   of : Sends \union {None}]
  <1>1. /\ modal \in M /\ SendOk(sends[s]) /\ loaded \in {None} \union Keys
    BY DEF DialogInv, IInv, WTypeOK
  <1>2. CASE PressSend(s)
    <2>1. PICK r \in SendSet :
             /\ SendOk(r) /\ SendBecomes(s, r) /\ r.here /\ r.at = "building"
             /\ modal' = [modal EXCEPT !.status = "sending", !.of = s]
      BY <1>1, <1>2, PressFacts
    <2>2. modal' \in M /\ modal'.status = "sending" /\ modal'.of = s
      BY <1>1, <2>1
    <2>3. /\ sends' \in [Sends -> SendSet] /\ \A x \in Sends : SendOk(sends'[x])
          /\ sends'[s] = r
      BY <2>1, SendsKept
    <2> QED
      BY <2>1, <2>2, <2>3 DEF DialogInv
  <1>3. CASE SendTx(s) \/ Lands(s)
    <2>1. PICK r \in SendSet :
             /\ SendOk(r) /\ SendBecomes(s, r) /\ modal' = modal
             /\ r.here = sends[s].here /\ sends[s].wire # "landed"
             /\ sends[s].at \in {"building", "polling"} => r.at \in {"building", "polling"}
      BY <1>1, <1>3, WireFacts
    <2>2. /\ sends' \in [Sends -> SendSet] /\ \A x \in Sends : SendOk(sends'[x])
          /\ sends'[s] = r /\ \A x \in Sends \ {s} : sends'[x] = sends[x]
      BY <2>1, SendsKept
    <2> QED
      BY <2>1, <2>2 DEF DialogInv
  <1>4. CASE SendThrows(s) \/ Polled(s)
    <2>1. PICK r \in SendSet, how \in {"sent", "failed", "lost"} :
             /\ SendOk(r) /\ SendBecomes(s, r) /\ r.here = sends[s].here
             /\ sends[s].wire = "landed" => r.wire = "landed"
             /\ how = "sent" => r.wire = "landed"
             /\ modal' = IF sends[s].here THEN [modal EXCEPT !.status = how, !.of = s]
                         ELSE modal
      BY <1>1, <1>4, EndFacts
    <2>2. /\ sends' \in [Sends -> SendSet] /\ \A x \in Sends : SendOk(sends'[x])
          /\ sends'[s] = r /\ \A x \in Sends \ {s} : sends'[x] = sends[x]
      BY <2>1, SendsKept
    <2>3. CASE sends[s].here
      <3>1. modal' \in M /\ modal'.status = how /\ modal'.of = s
        BY <1>1, <2>1, <2>3
      <3> QED
        BY <2>1, <2>2, <3>1 DEF DialogInv
    <2>4. CASE ~sends[s].here
      <3>1. modal' = modal
        BY <2>1, <2>4
      <3> QED
        BY <2>1, <2>2, <2>4, <3>1 DEF DialogInv
    <2> QED
      BY <2>3, <2>4
  <1> QED
    BY <1>2, <1>3, <1>4 DEF Transfer

LEMMA NextSends == IInv /\ SendInv /\ DialogInv /\ [Next]_vars => SendInv' /\ DialogInv'
  <1> SUFFICES ASSUME IInv, SendInv, DialogInv, [Next]_vars
               PROVE  SendInv' /\ DialogInv'
    OBVIOUS
  <1>2. sends \in [Sends -> SendSet] /\ \A s \in Sends : SendOk(sends[s])
    BY DEF SendInv
  <1>3. ASSUME UNCHANGED <<sends, modal>> PROVE SendInv' /\ DialogInv'
    BY <1>2, <1>3 DEF SendInv, DialogInv
  <1>4. CASE Wallet /\ status' # "unlocked"
    <2>1. /\ modal' = Blank
          /\ sends' = [s \in Sends |->
                [sends[s] EXCEPT !.here = FALSE,
                    !.at = IF status' = "loading" /\ @ # "unused" THEN "done" ELSE @]]
      BY <1>4 DEF Wallet, Unmount
    <2>2. ASSUME NEW s \in Sends PROVE sends'[s] \in SendSet /\ SendOk(sends'[s])
      <3>1. sends[s] \in SendSet /\ SendOk(sends[s])
        BY <1>2
      <3>2. PICK a \in {sends[s].at, "done"} :
               sends'[s] = [sends[s] EXCEPT !.here = FALSE, !.at = a]
        <4>1. CASE status' = "loading" /\ sends[s].at # "unused"
          BY <2>1, <3>1, <4>1 DEF SendSet
        <4>2. CASE ~(status' = "loading" /\ sends[s].at # "unused")
          BY <2>1, <3>1, <4>2 DEF SendSet
        <4> QED
          BY <4>1, <4>2
      <3> QED
        BY <3>1, <3>2 DEF SendSet, SendOk
    <2>3. sends' \in [Sends -> SendSet]
      BY <2>1, <2>2
    <2>4. DialogInv'
      BY <2>1 DEF Blank, DialogInv
    <2> QED
      BY <2>2, <2>3, <2>4 DEF SendInv
  <1>5. CASE OpenSend \/ CloseSend
    <2>1. UNCHANGED sends
      BY <1>5 DEF OpenSend, CloseSend
    <2>2. DialogInv'
      <3>1. \/ modal' = modal \/ modal' = [Blank EXCEPT !.open = TRUE]
            \/ modal' = [modal EXCEPT !.open = FALSE]
        BY <1>5 DEF OpenSend, CloseSend
      <3> QED
        BY <2>1, <3>1 DEF Blank, DialogInv
    <2> QED
      BY <1>2, <2>1, <2>2 DEF SendInv
  <1>6. ASSUME NEW s \in Sends, PressSend(s) \/ Transfer(s) \/ Lands(s)
        PROVE  SendInv' /\ DialogInv'
    BY <1>2, <1>6, TransferKeeps DEF SendInv
  <1>7. CASE \/ UNCHANGED vars \/ Mining \/ (Wallet /\ status' = "unlocked")
    BY <1>3, <1>7 DEF vars, dvars, board, Mining, Refresh, onSent, Stop, Start, Found, Signed,
                      Settled, Wallet
  <1> QED
    BY <1>4, <1>5, <1>6, <1>7 DEF Next, Sending

LEMMA PageInvariance == Spec => [](SendInv /\ DialogInv)
  <1>1. Spec => []IInv
    BY DashboardImplementsWallet, Invariance, PTL
  <1> QED
    BY <1>1, InitSends, NextSends, PTL DEF Spec

(* "Sent" is shown only for a transfer that landed, and "Sending" only     *)
(* while there is one that will change it.                                 *)
THEOREM SpecDialogIsTrue == Spec => []DialogIsTrue
  <1>1. DialogInv => DialogIsTrue
    BY DEF DialogInv, Shows, DialogIsTrue
  <1> QED
    BY <1>1, PageInvariance, PTL

=============================================================================
