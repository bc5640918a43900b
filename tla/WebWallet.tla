----------------------------- MODULE WebWallet ------------------------------
(***************************************************************************)
(* The wallet of the mining page: the provider with its four states        *)
(* (src/clients/website/src/lib/wallet-context.tsx), the encrypted copy in *)
(* localStorage (wallet-crypto.ts), and the screens the gate in            *)
(* MineClient.tsx puts in front of it: setup wizard, unlock screen and the *)
(* menu of the dashboard.                                                  *)
(*                                                                         *)
(* Encrypting and decrypting await a key derivation of some 600 000 hash   *)
(* rounds.  Such a call is a job: the user goes on clicking while it runs, *)
(* and it applies its result to whatever the provider has become.  A key   *)
(* stands for its ciphertext too; error messages are left out, and a       *)
(* password that the forms refuse changes nothing.                         *)
(***************************************************************************)
EXTENDS FiniteSets

CONSTANTS
    Keys,      \* bound: keypairs that come into the page
    Jobs,      \* bound: derivations in flight
    Garbled,   \* an import that is no secret key
    None       \* null

ASSUME WalletAssumption == None \notin Keys /\ Garbled \notin Keys \union {None}

VARIABLES
    disk,      \* localStorage["equium:wallet:v1"]
    status, stored, loaded,       \* WalletState
    screen,    \* local state of the mounted screen
    jobs,      \* derivations in flight
    made,      \* keys generated or pasted so far
    saved      \* keys of which the user has a copy outside the page

provider == <<status, stored, loaded>>
wvars == <<disk, provider, screen, jobs, made, saved>>

NoJob == [op |-> "none", key |-> None, here |-> FALSE]

(* MineGate: which screen a status mounts, with its initial state.         *)
Fresh(st) ==
    [mode |-> CASE st = "loading" -> "blank"
                [] st = "needs-setup" -> "choose"
                [] st = "needs-unlock" -> "locked"
                [] st = "unlocked" -> "menu-closed",
     draft |-> None, backedUp |-> FALSE, busy |-> FALSE]

WInit ==
    /\ disk = None /\ status = "loading" /\ stored = None /\ loaded = None
    /\ screen = Fresh("loading")
    /\ jobs = [j \in Jobs |-> NoJob]
    /\ made = {} /\ saved = {}

(* React renders after setState: another status mounts another screen.     *)
(* The jobs in done have ended; their `finally` clears busy on the screen  *)
(* that started them, if it is still there.                                *)
Render(st, done) ==
    /\ status' = st
    /\ jobs' = [j \in Jobs |->
                  IF j \in done THEN NoJob
                  ELSE [jobs[j] EXCEPT !.here = @ /\ st = status]]
    /\ screen' = IF st # status THEN Fresh(st)
                 ELSE [screen EXCEPT !.busy = @ /\ \A j \in done : ~jobs[j].here]

-----------------------------------------------------------------------------
(* What the provider asks of wallet-crypto.ts.                             *)

loadStoredWallet == disk
deleteStoredWallet == disk' = None
persistWallet(k) == disk' = k

(* null stands for the error thrown: no secret key, a wrong password.      *)
keypairFromUserInput(input) == IF input = Garbled THEN None ELSE input
unlockWallet(wallet) == {wallet, None}

-----------------------------------------------------------------------------
(* The provider's first effect.                                            *)
Load ==
    /\ status = "loading"
    /\ stored' = loadStoredWallet
    /\ Render(IF loadStoredWallet = None THEN "needs-setup" ELSE "needs-unlock", {})
    /\ UNCHANGED <<disk, loaded, made, saved>>

(* The page is closed or reloaded: memory is gone, localStorage stays.     *)
Reload ==
    /\ status # "loading"
    /\ status' = "loading" /\ stored' = None /\ loaded' = None
    /\ screen' = Fresh("loading")
    /\ jobs' = [j \in Jobs |-> NoJob]
    /\ UNCHANGED <<disk, made, saved>>

-----------------------------------------------------------------------------
(* The setup wizard.                                                       *)

At(m) == status # "loading" /\ screen.mode = m
Step(m) == screen' = [screen EXCEPT !.mode = m]
UI == UNCHANGED <<disk, provider, jobs>>
Click(from, to) == At(from) /\ Step(to) /\ UI /\ UNCHANGED <<made, saved>>

(* Mutant: the checkbox of the previous draft stays ticked.                *)
StartCreate_still_ticked ==
    /\ At("choose")
    /\ \E k \in Keys \ made :
          /\ screen' = [screen EXCEPT !.mode = "create-backup", !.draft = k]
          /\ made' = made \union {k}
    /\ UI /\ UNCHANGED saved

StartCreate ==
    /\ At("choose")
    /\ \E k \in Keys \ made :
          /\ screen' = [screen EXCEPT !.mode = "create-backup", !.draft = k,
                                      !.backedUp = FALSE]
          /\ made' = made \union {k}
    /\ UI /\ UNCHANGED saved

(* The key on the backup screen, to be revealed and copied.                *)
KeyReveal == screen.draft

(* "I've saved my secret key": what is saved is the key the screen shows.  *)
TickBackup ==
    /\ At("create-backup")
    /\ screen' = [screen EXCEPT !.backedUp = ~@]
    /\ saved' = saved \union {KeyReveal}
    /\ UI /\ UNCHANGED made

Leave(from) ==
    /\ At(from)
    /\ screen' = [screen EXCEPT !.mode = "choose", !.draft = None]
    /\ UI /\ UNCHANGED <<made, saved>>

AbandonDraft == Leave("create-backup")
AbandonImport == Leave("import")

ChooseImport == Click("choose", "import")

(* The user pastes a key of theirs, or something that is none.             *)
Paste ==
    /\ At("import")
    /\ \E k \in (Keys \ (made \ saved)) \union {Garbled} :
          /\ screen' = [screen EXCEPT !.draft = k]
          /\ made' = made \union ({k} \ {Garbled})
          /\ saved' = saved \union ({k} \ {Garbled})
    /\ UI

BackedUp == screen.backedUp /\ Click("create-backup", "create-password")
Pasted == screen.draft # None /\ Click("import", "import-password")

(* Both buttons of the panel are disabled while the key is encrypted.      *)
PasswordPanel(mode) == At(mode) /\ ~screen.busy

BackToBackup ==
    PasswordPanel("create-password") /\ Click("create-password", "create-backup")
BackToImport ==
    PasswordPanel("import-password") /\ Click("import-password", "import")

Begin(j, what, k) ==
    /\ jobs[j] = NoJob
    /\ jobs' = [jobs EXCEPT ![j] = [op |-> what, key |-> k, here |-> TRUE]]
    /\ screen' = [screen EXCEPT !.busy = TRUE]
    /\ UNCHANGED <<disk, provider, made, saved>>

(* doCreate and doImport; a garbled import throws before it awaits.        *)
SubmitSetup(j) ==
    /\ PasswordPanel("create-password") \/ PasswordPanel("import-password")
    /\ screen.draft # None
    /\ keypairFromUserInput(screen.draft) # None
    /\ Begin(j, "install", keypairFromUserInput(screen.draft))

installWallet(k) == persistWallet(k) /\ stored' = k /\ loaded' = k

(* Encrypting resolves and installWallet goes on, or the storage is full.  *)
Installed(j) ==
    /\ jobs[j].op = "install"
    /\ \/ installWallet(jobs[j].key) /\ Render("unlocked", {j})
       \/ Render(status, {j}) /\ UNCHANGED <<disk, stored, loaded>>
    /\ UNCHANGED <<made, saved>>

-----------------------------------------------------------------------------
(* The unlock screen and the menu.                                         *)

(* The button is disabled while busy; the Enter key is not.                *)
UnlockForm == (At("locked") \/ At("confirm-forget")) /\ stored # None

SubmitUnlock(j) ==
    /\ UnlockForm
    /\ Begin(j, "unlock", stored)

(* Mutant: the ciphertext the job was started with is set again.           *)
Unlocked_storing(j) ==
    /\ jobs[j].op = "unlock"
    /\ loaded' = jobs[j].key /\ stored' = jobs[j].key
    /\ Render("unlocked", {j})
    /\ UNCHANGED <<disk, made, saved>>

(* unlockWallet resolves, on the state of now, or throws.                  *)
Unlocked(j) ==
    /\ jobs[j].op = "unlock"
    /\ \E k \in unlockWallet(jobs[j].key) :
          \/ k # None /\ loaded' = k /\ Render("unlocked", {j})
          \/ k = None /\ Render(status, {j}) /\ UNCHANGED loaded
    /\ UNCHANGED <<disk, stored, made, saved>>

AskForget ==
    Click("locked", "confirm-forget") \/ Click("confirm-forget", "locked")

Forget ==
    /\ At("confirm-forget")
    /\ deleteStoredWallet /\ stored' = None /\ loaded' = None
    /\ Render("needs-setup", {})
    /\ UNCHANGED <<made, saved>>

(* The menu opens and closes; open, it reveals the secret to be copied.    *)
Menu ==
    Click("menu-closed", "menu-open") \/ Click("menu-open", "menu-closed")

exportSecret == {loaded} \ {None}

Reveal ==
    /\ At("menu-open")
    /\ saved' = saved \union exportSecret
    /\ UI /\ UNCHANGED <<screen, made>>

(* Without a stored wallet the provider stays as it is.                    *)
lock == stored # None /\ loaded' = None /\ Render("needs-unlock", {})

(* The menu's Lock button, which closes the menu as well.                  *)
Lock ==
    /\ At("menu-open")
    /\ \/ lock
       \/ stored = None /\ Step("menu-closed") /\ UNCHANGED <<status, loaded, jobs>>
    /\ UNCHANGED <<disk, stored, made, saved>>

Wizard ==
    \/ StartCreate \/ TickBackup \/ AbandonDraft \/ BackedUp \/ BackToBackup
    \/ ChooseImport \/ Paste \/ AbandonImport \/ Pasted \/ BackToImport
    \/ \E j \in Jobs : SubmitSetup(j)

WNext ==
    \/ Load \/ Reload \/ Wizard
    \/ AskForget \/ Forget \/ Menu \/ Reveal \/ Lock
    \/ \E j \in Jobs : SubmitUnlock(j) \/ Installed(j) \/ Unlocked(j)

WSpec == WInit /\ [][WNext]_wvars

-----------------------------------------------------------------------------

Modes == {"blank", "choose", "create-backup", "create-password", "import",
          "import-password", "locked", "confirm-forget", "menu-closed",
          "menu-open"}

WTypeOK ==
    /\ disk \in Keys \union {None}
    /\ status \in {"loading", "needs-setup", "needs-unlock", "unlocked"}
    /\ stored \in Keys \union {None} /\ loaded \in Keys \union {None}
    /\ screen \in [mode : Modes, draft : Keys \union {None, Garbled},
                   backedUp : BOOLEAN, busy : BOOLEAN]
    /\ jobs \in [Jobs -> [op : {"install", "unlock"}, key : Keys, here : BOOLEAN]
                          \union {NoJob}]
    /\ made \subseteq Keys /\ saved \subseteq made

(* "Install the exact keypair we just showed the user as backup"           *)
(* (SetupWizard.tsx:32): the page never unlocks, stores or encrypts a key  *)
(* of which the user has no copy, so that forgetting the wallet or losing  *)
(* the password never loses funds.                                         *)
KeysAreSaved ==
    {loaded, stored, disk} \union {jobs[j].key : j \in Jobs} \subseteq saved \union {None}

(* What the unlock screen offers to decrypt is what a reload would find,   *)
(* whatever derivation was in flight when the wallet was forgotten.        *)
StoredIsOnDisk ==
    /\ stored # None => stored = disk
    /\ status \in {"needs-unlock", "needs-setup"} => stored = disk /\ loaded = None

=============================================================================
