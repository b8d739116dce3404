---------------------------- MODULE LaunchLibrary ---------------------------
(***************************************************************************)
(* The launch library of a machine and the launch of an application from   *)
(* it: the agent's records and the shared-storage catalog are merged into  *)
(* cards, installed cards are verified on the machine, and a launch        *)
(* restores what is missing, verifies again, starts the stream and runs    *)
(* one of three launchers, with a search for an executable as fallback.    *)
(*                                                                         *)
(* One application is followed.  Its metadata is what the launchers tell   *)
(* apart; "works" is what would really start on the machine.  Launches of  *)
(* the same application run concurrently and share only the machine.       *)
(***************************************************************************)
EXTENDS Naturals, FiniteSets

CONSTANTS Jobs, Metas, FewMetas, Ids, FewIds,
          MaxTrouble,
          Worlds   \* which of "cards", "call", "catalog", "remove", "slow", "two", "unlisted"

VARIABLES
    id,       \* what the application's id looks like
    vm,       \* the application on the machine
    store,    \* its catalog record
    cards,    \* the card of the library shown last
    launches, \* LAUNCH_SOFTWARE_JOBS
    trouble, world

launching == <<id, vm, store, cards, launches, trouble>>
vars == <<launching, world>>

May(b) == b \in world
NoMeta == [steam |-> FALSE, desktop |-> "none", exe |-> FALSE, launcher |-> "none"]
NoCard == [shown |-> FALSE]
NoJob == [pc |-> "idle", card |-> NoCard, restored |-> FALSE, streamed |-> FALSE, verified |-> FALSE,
          starts |-> 0, plan |-> "none"]

Known == IF May("cards") THEN Metas ELSE FewMetas

Init ==
    /\ world \in Worlds
    /\ id \in IF May("cards") THEN Ids ELSE FewIds
    /\ store \in {[listed |-> FALSE]} \cup
                 [listed : {TRUE}, meta : Known, complete : BOOLEAN, overlay : BOOLEAN,
                  works : {{}, {"executable", "search"}, {"steam"}, {"desktop", "executable"}}]
    /\ vm \in [installed : {TRUE}, meta : Known, state : {"latest"},
               works : {{}, {"search"}, {"executable"}, {"steam"}, {"desktop", "search"}}]
              \cup {[installed |-> FALSE, meta |-> NoMeta, state |-> "none", works |-> {}]}
    /\ store.listed \/ vm.installed
    /\ cards = NoCard
    /\ launches = [j \in Jobs |-> NoJob]
    /\ trouble = 0

Trouble == trouble < MaxTrouble /\ trouble' = trouble + 1
-----------------------------------------------------------------------------
(* Launchers *)

parse_steam_app_id(m) == id = "steam" \/ (id = "number" /\ m.launcher = "steam")
steamish_entry(m) == m.steam \/ id \in {"steam", "steam?"}
should_use_desktop_entry(d) == d \in {"own", "launcher"}

\* repair_entry_launch_metadata
Repaired(m) ==
    LET s == m.steam \/ parse_steam_app_id(m) IN
    [m EXCEPT !.steam = s,
              !.launcher = IF @ = "none" /\ steamish_entry([m EXCEPT !.steam = s]) THEN "steam" ELSE @]

needs_steam_title_lookup(m) ==
    ~m.steam /\ ~parse_steam_app_id(m) /\ (id \in {"steam", "steam?"} \/ m.launcher = "steam")

launch_plan(m) ==
    CASE m.steam \/ parse_steam_app_id(m) -> "steam"
      [] ~(m.steam \/ parse_steam_app_id(m)) /\ (should_use_desktop_entry(m.desktop) \/ id = "desktop")
            -> "desktop"
      [] ~(m.steam \/ parse_steam_app_id(m)) /\ ~(should_use_desktop_entry(m.desktop) \/ id = "desktop")
         /\ m.exe -> "executable"
      [] OTHER -> "none"
launch_method_for_entry(m) ==
    IF launch_plan(m) = "none" /\ needs_steam_title_lookup(m) THEN "steam_lookup" ELSE launch_plan(m)

refresh_launchability(c) ==
    LET m == Repaired(c.meta) IN
    [c EXCEPT !.meta = m,
              !.method = launch_method_for_entry(m),
              !.launchable = /\ launch_method_for_entry(m) # "none"
                             /\ c.installed \/ c.restoreRequired]

\* What the catalog knows fills what the machine's record leaves open.
Filled(m, by) ==
    [steam |-> m.steam \/ by.steam, exe |-> m.exe \/ by.exe,
     desktop |-> IF m.desktop = "none" THEN by.desktop ELSE m.desktop,
     launcher |-> IF m.launcher = "none" THEN by.launcher ELSE m.launcher]

Card(installed, meta, stored, complete, overlay) ==
    refresh_launchability(
       [shown |-> TRUE, installed |-> installed, stored |-> stored, meta |-> meta,
        complete |-> complete, overlay |-> overlay, method |-> "none", launchable |-> FALSE,
        restoreRequired |-> ~installed /\ complete])

merge_launch_library(listed, catalog) ==
    CASE listed /\ catalog ->
            Card(TRUE, Filled(Repaired(vm.meta), store.meta), TRUE, store.complete, store.overlay)
      [] listed /\ ~catalog -> Card(TRUE, vm.meta, FALSE, FALSE, FALSE)
      [] ~listed /\ catalog -> Card(FALSE, store.meta, TRUE, store.complete, store.overlay)
      [] OTHER -> NoCard

verify_entry_launch_target(c) == launch_plan(c.meta) \in vm.works

\* An installed card that does not verify, or whose verification fails, is shown but not launchable.
Verified(c, answered) ==
    IF c.shown /\ c.installed /\ c.launchable /\ ~(answered /\ verify_entry_launch_target(c))
    THEN [c EXCEPT !.launchable = FALSE, !.method = "none"] ELSE c

\* load_launch_library: an unavailable catalog leaves what is installed.
Loads(card) ==
    \E catalog \in {store.listed} \cup (IF May("catalog") THEN {FALSE} ELSE {}),
       listed \in {vm.installed} \cup (IF May("unlisted") THEN {FALSE} ELSE {}),
       answered \in {TRUE} \cup (IF May("call") THEN {FALSE} ELSE {}) :
          card = Verified(merge_launch_library(listed, catalog), answered)
Cards == {NoCard} \cup {Verified(merge_launch_library(l, c), a) :
            l \in {vm.installed} \cup (IF May("unlisted") THEN {FALSE} ELSE {}),
            c \in {store.listed} \cup (IF May("catalog") THEN {FALSE} ELSE {}),
            a \in {TRUE} \cup (IF May("call") THEN {FALSE} ELSE {})}
-----------------------------------------------------------------------------
(* Commands *)

ShowLibrary ==
    /\ \A j \in Jobs : launches[j].pc = "idle"
    /\ \E c \in Cards : Loads(c) /\ cards' = c
    /\ UNCHANGED <<id, vm, store, launches, trouble, world>>

Job(j) == launches[j]
To(j, job) == launches' = [launches EXCEPT ![j] = job]
\* An error: the job keeps what it had done and is failed.
JobFails(j) == To(j, [Job(j) EXCEPT !.pc = "failed"])

\* run_launch reads the library again and picks the card by its id.
Launch(j) ==
    /\ Job(j).pc = "idle" /\ ~May("cards")
    /\ \A k \in Jobs : k < j => May("two") /\ Job(k).pc # "idle"
    /\ \E c \in Cards :
          /\ Loads(c)
          /\ To(j, [Job(j) EXCEPT !.card = c,
                                  !.pc = CASE ~c.shown -> "failed"
                                           [] c.shown /\ c.installed -> "repair"
                                           [] c.shown /\ ~c.installed /\ c.complete -> "restore"
                                           [] OTHER -> "failed"])
    /\ UNCHANGED <<id, vm, store, cards, trouble, world>>

RestoreComplete(j) ==
    /\ Job(j).pc = "restore"
    /\ vm' = [installed |-> TRUE, meta |-> store.meta, works |-> store.works,
              state |-> IF store.overlay THEN "baseline" ELSE "latest"]
    /\ To(j, [Job(j) EXCEPT !.restored = TRUE, !.pc = IF Job(j).card.overlay THEN "overlay" ELSE "reload"])
    /\ UNCHANGED <<id, store, cards, trouble, world>>

ApplyOverlay(j) ==
    /\ Job(j).pc = "overlay"
    /\ vm' = [vm EXCEPT !.state = "latest"]
    /\ To(j, [Job(j) EXCEPT !.pc = "reload"])
    /\ UNCHANGED <<id, store, cards, trouble, world>>

\* The card of before is kept when the application is not listed.
Reload(j) ==
    /\ Job(j).pc = "reload"
    /\ \E c \in Cards :
          /\ Loads(c)
          /\ To(j, [Job(j) EXCEPT !.pc = "repair", !.card = IF c.shown THEN c ELSE @])
    /\ UNCHANGED <<id, vm, store, cards, trouble, world>>

\* Whether the store knows a game of exactly this title is the store's choice.
resolve_steam_app_id_by_title == BOOLEAN

\* A card that is not launchable may still get its Steam id from its title.
Repair(j) ==
    /\ Job(j).pc = "repair"
    /\ LET c == [Job(j).card EXCEPT !.meta = Repaired(@)] IN
       IF c.launchable \/ ~needs_steam_title_lookup(c.meta)
       THEN To(j, [Job(j) EXCEPT !.card = c, !.pc = "verify"])
       ELSE \E found \in resolve_steam_app_id_by_title :
               To(j, [Job(j) EXCEPT !.pc = "verify",
                        !.card = IF found THEN refresh_launchability([c EXCEPT !.meta.steam = TRUE]) ELSE c])
    /\ UNCHANGED <<id, vm, store, cards, trouble, world>>

Verify(j) ==
    /\ Job(j).pc = "verify"
    /\ IF verify_entry_launch_target(Job(j).card)
       THEN To(j, [Job(j) EXCEPT !.pc = "stream", !.verified = TRUE, !.plan = launch_plan(Job(j).card.meta)])
       ELSE JobFails(j)
    /\ UNCHANGED <<id, vm, store, cards, trouble, world>>

StartStream(j) ==
    /\ Job(j).pc = "stream"
    /\ To(j, [Job(j) EXCEPT !.streamed = TRUE, !.pc = IF Job(j).plan = "steam" THEN "manifest" ELSE "launch"])
    /\ UNCHANGED <<id, vm, store, cards, trouble, world>>

\* ensure_remote_steam_appmanifest writes one only where none is found.
EnsureManifest(j) ==
    /\ Job(j).pc = "manifest"
    /\ To(j, [Job(j) EXCEPT !.pc = "launch"])
    /\ UNCHANGED <<id, vm, store, cards, trouble, world>>

Started(j, pc) == To(j, [Job(j) EXCEPT !.pc = pc, !.starts = @ + 1])

\* run_launch_plan: the script's exit status says whether the launcher ran.
RunPlan(j) ==
    /\ Job(j).pc = "launch"
    /\ \/ Job(j).plan \in vm.works /\ Started(j, "done")
       \/ /\ Job(j).plan \notin vm.works
          /\ IF Job(j).plan = "steam" THEN JobFails(j) ELSE To(j, [Job(j) EXCEPT !.pc = "search"])
    /\ UNCHANGED <<id, vm, store, cards, trouble, world>>

\* The names of the application that an executable may have, and whether one is on the machine.
executable_search_terms == {"search"}
search_remote_executable == executable_search_terms \cap vm.works # {}

Search(j) ==
    /\ Job(j).pc = "search"
    /\ IF search_remote_executable THEN Started(j, "done") ELSE JobFails(j)
    /\ UNCHANGED <<id, vm, store, cards, trouble, world>>

TriesAnother(j) == To(j, [Job(j) EXCEPT !.starts = @ + 1, !.pc = "search"])
\* The launcher has run but its answer comes too late: the call is an error.
AnswerLost(j) == Started(j, "failed")
SlowLaunch(j) ==
    /\ May("slow") /\ Job(j).pc = "launch" /\ Job(j).plan \in vm.works
    /\ Trouble
    /\ AnswerLost(j)
    /\ UNCHANGED <<id, vm, store, cards, world>>

Waiting == {"restore", "overlay", "reload", "repair", "verify", "stream", "manifest", "launch", "search"}
CallFails(j) ==
    /\ May("call") /\ Job(j).pc \in Waiting
    /\ Trouble
    /\ JobFails(j)
    /\ UNCHANGED <<id, vm, store, cards, world>>

Dismiss(j) ==
    /\ Job(j).pc \in {"done", "failed"} /\ May("call")
    /\ To(j, NoJob)
    /\ UNCHANGED <<id, vm, store, cards, trouble, world>>

Remove ==
    /\ May("remove") /\ vm.installed
    /\ Trouble
    /\ \E w \in SUBSET vm.works :
          vm' = [vm EXCEPT !.installed = (w # {}), !.works = w]
    /\ UNCHANGED <<id, store, cards, launches, world>>

Next ==
    \/ ShowLibrary \/ Remove
    \/ \E j \in Jobs :
          \/ Launch(j) \/ RestoreComplete(j) \/ ApplyOverlay(j) \/ Reload(j) \/ Repair(j) \/ Verify(j)
          \/ StartStream(j) \/ EnsureManifest(j) \/ RunPlan(j) \/ Search(j) \/ SlowLaunch(j)
          \/ CallFails(j) \/ Dismiss(j)

Spec == Init /\ [][Next]_vars
-----------------------------------------------------------------------------
(* A launch starts the application at most once, whatever fails and        *)
(* however late an answer is; it succeeds only if it has started it, with  *)
(* the stream up; and no stream is started for an application whose        *)
(* launcher was not found working on the machine.                          *)
StartedOnce ==
    \A j \in Jobs :
       /\ launches[j].starts <= 1
       /\ launches[j].pc = "done" => launches[j].starts = 1
       /\ launches[j].starts > 0 => launches[j].streamed
       /\ launches[j].streamed => launches[j].verified

(* A card that offers a launch can keep the offer: installed, its launcher *)
(* was found working; not installed, there is a complete application to    *)
(* restore, not just a snapshot of its settings.                           *)
CardsHonest ==
    cards.shown /\ cards.launchable /\ trouble = 0 /\ (\A j \in Jobs : launches[j] = NoJob) =>
       IF cards.installed THEN cards.method \in vm.works ELSE store.complete
=============================================================================
