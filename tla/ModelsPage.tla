----------------------------- MODULE ModelsPage -----------------------------
(***************************************************************************)
(* ModelsPage with useTermiteRegistry: the directory of models, fetched    *)
(* once and then kept in a cache of the module (saved, on this page), the  *)
(* statistics that each card fetches from HuggingFace, and the sheet of a  *)
(* model, which opens a playground with ?model=.                           *)
(***************************************************************************)
EXTENDS Playground

CONSTANTS
    Registries,   \* lists of models: [name, type, variants]
    Playgrounds   \* MODEL_TYPE_PLAYGROUND: from types to pages

RegistryModels == UNION {ToSet(r) : r \in Registries}
ModelTypes == {m.type : m \in RegistryModels}
Named(n) == CHOOSE m \in RegistryModels : m.name = n

\* getHardwareCapabilities and the badges are left out. stats: the cards that
\* are mounted; hf: the cache of statistics.
ModelsDefaults(cached) ==
    [list |-> cached, query |-> "", type |-> "all", selected |-> "",
     sheet |-> FALSE, preset |-> "recommended", variant |-> "", all |-> FALSE,
     copied |-> FALSE, downloads |-> FALSE,
     stats |-> [n \in {m.name : m \in RegistryModels} |-> "none"], hf |-> {}]

\* filteredModels: by type, then by a text that occurs in the name.
FilteredModels(f) ==
    SelectSeq(f.list, LAMBDA m : /\ f.type \in {"all", m.type}
                                 /\ f.query \in {"", m.name})

\* The sections of the grouped view, the counts on the pills.
ModelsByType(f) == [t \in ModelTypes |-> SelectSeq(FilteredModels(f), LAMBDA m : m.type = t)]
ModelCounts(f) == [t \in ModelTypes |-> Len(SelectSeq(f.list, LAMBDA m : m.type = t))]

\* useHFStats of the cards: a card that leaves aborts its fetch; one that comes
\* reads the cache first. The grouped and the flat view mount cards of their own.
Cards(f, anew) ==
    LET shown == {FilteredModels(f)[i].name : i \in DOMAIN FilteredModels(f)}
    IN [f EXCEPT !.stats = [n \in DOMAIN @ |->
            IF n \notin shown THEN "none"
            ELSE IF f.stats[n] # "none" /\ ~anew THEN f.stats[n]
            ELSE IF n \in f.hf THEN "ok" ELSE "loading"]]

StatsArrive(n) ==
    /\ page = "models" /\ form.stats[n] = "loading"
    /\ form' = [form EXCEPT !.stats[n] = "ok", !.hf = @ \cup {n}]
    /\ UNCHANGED <<page, view, models, reqs, saved, steps>>

StatsFail(n) ==
    /\ page = "models" /\ form.stats[n] = "loading"
    /\ form' = [form EXCEPT !.stats[n] = "error"]
    /\ UNCHANGED <<page, view, models, reqs, saved, steps>>

-----------------------------------------------------------------------------
(* useTermiteRegistry *)

\* The fetch of the mount has no timeout; that of a retry has one.
FetchRegistry(rs) == Append(rs, [Run("registry") EXCEPT !.phase = "held"])

\* transformModel keeps name, type and variants; the cache is replaced.
RegistryArrives(k, ms) ==
    /\ page = "models" /\ reqs[k].phase = "held"
    /\ form' = Cards([form EXCEPT !.list = ms], FALSE)
    /\ saved' = <<ms>>
    /\ reqs' = [reqs EXCEPT ![k].phase = "done"]
    /\ view' = [view EXCEPT !.loading = FALSE, !.result = k]
    /\ UNCHANGED <<page, models, steps>>

RegistryFails(k) ==
    /\ page = "models" /\ reqs[k].phase = "held"
    /\ reqs' = [reqs EXCEPT ![k].phase = "done"]
    /\ view' = [view EXCEPT !.loading = FALSE, !.error = TRUE]
    /\ UNCHANGED <<page, form, models, saved, steps>>

\* The button of the error state.
RetryRegistry ==
    /\ User("models") /\ view.error /\ ~view.loading /\ Len(reqs) < MaxRuns
    /\ reqs' = FetchRegistry(reqs)
    /\ view' = [NoView EXCEPT !.loading = TRUE]
    /\ UNCHANGED <<form, models, saved>>

\* What the page shows: a skeleton, the error, or the directory.
ModelsScreen ==
    CASE view.loading -> "skeleton"
      [] ~view.loading /\ view.error -> "error"
      [] OTHER -> IF FilteredModels(form) = <<>> THEN "no models"
                  ELSE IF form.type = "all" THEN "sections" ELSE "grid"

DownloadsChecked ==
    /\ page = "models" /\ ~form.downloads
    /\ form' = [form EXCEPT !.downloads = TRUE]
    /\ UNCHANGED <<page, view, models, reqs, saved, steps>>

-----------------------------------------------------------------------------
(* Filters *)

Directory == User("models") /\ ~view.loading /\ ~view.error
Browse(f) == form' = f /\ UNCHANGED <<view, models, reqs, saved>>

ModelsSetQuery(q) == Directory /\ ~form.sheet /\ Browse(Cards([form EXCEPT !.query = q], FALSE))

ModelsSetType(t) ==
    /\ Directory /\ ~form.sheet
    /\ Browse(Cards([form EXCEPT !.type = t], (t = "all") # (form.type = "all")))

ClearFilters ==
    /\ Directory /\ ModelsScreen = "no models"
    /\ Browse(Cards([form EXCEPT !.query = "", !.type = "all"], TRUE))

\* TypeContextBanner, shown for a type, links to the playground without a model.
TypeContextBanner == IF form.type = "all" THEN {} ELSE {form.type} \cap DOMAIN Playgrounds

-----------------------------------------------------------------------------
(* The sheet of a model *)

\* VARIANT_PRESETS: the first variant of a preset's list that the model has,
\* else any one (the first) of its own.
Preference(preset) ==
    CASE preset = "recommended" -> <<"f16", "f32", "i8">>
      [] preset = "smallest" -> <<"i8", "i4", "f16">>
      [] OTHER -> <<"f32", "f16">>
SelectVariant(preset, variants) ==
    LET liked == SelectSeq(Preference(preset), LAMBDA v : v \in ToSet(variants))
    IN IF liked # <<>> THEN Head(liked) ELSE First(variants)

\* handleModelClick, and the effect of the sheet that follows the model.
HandleModelClick(m) ==
    /\ Directory /\ ~form.sheet /\ m \in ToSet(FilteredModels(form))
    /\ Browse([form EXCEPT !.selected = m.name, !.sheet = TRUE,
          !.variant = IF m.name = form.selected THEN @
                      ELSE SelectVariant("recommended", m.variants),
          !.preset = IF m.name = form.selected THEN @ ELSE "recommended",
          !.all = IF m.name = form.selected THEN @ ELSE FALSE])

CloseSheet == Directory /\ form.sheet /\ Browse([form EXCEPT !.sheet = FALSE])

SelectPreset(p) ==
    /\ Directory /\ form.sheet /\ form.downloads
    /\ SelectVariant(p, Named(form.selected).variants) # ""
    /\ Browse([form EXCEPT !.preset = p,
                   !.variant = SelectVariant(p, Named(form.selected).variants)])

\* The variants of the collapsible list; two of them only for a generator.
AvailableVariants ==
    {v \in ToSet(Named(form.selected).variants) :
        v = "i4" => Named(form.selected).type = "generator"}

ToggleAllVariants ==
    Directory /\ form.sheet /\ form.downloads /\ Browse([form EXCEPT !.all = ~@])

ChooseVariant(v) ==
    /\ Directory /\ form.sheet /\ form.downloads /\ form.all /\ v \in AvailableVariants
    /\ Browse([form EXCEPT !.variant = v, !.preset = "none"])

\* getDownloadCommand
DownloadCommand == <<form.selected, form.variant>>

HandleCopyCommand ==
    /\ Directory /\ form.sheet /\ form.downloads
    /\ Browse([form EXCEPT !.copied = TRUE])

CommandCopiedTimer ==
    /\ page = "models" /\ form.copied
    /\ form' = [form EXCEPT !.copied = FALSE]
    /\ UNCHANGED <<page, view, models, reqs, saved, steps>>

\* The playground a model of the sheet can be opened in.
PlaygroundOf == {Playgrounds[t] : t \in {Named(form.selected).type} \cap DOMAIN Playgrounds}

ModelsNext ==
    \/ \E k \in DOMAIN reqs : RegistryFails(k) \/ \E ms \in Registries : RegistryArrives(k, ms)
    \/ RetryRegistry \/ DownloadsChecked
    \/ page = "models" /\ \E n \in DOMAIN form.stats : StatsArrive(n) \/ StatsFail(n)
    \/ \E q \in {"", "none"} \cup {m.name : m \in RegistryModels} : ModelsSetQuery(q)
    \/ \E t \in ModelTypes \cup {"all"} : ModelsSetType(t)
    \/ ClearFilters
    \/ page = "models" /\ \E m \in RegistryModels : HandleModelClick(m)
    \/ CloseSheet \/ ToggleAllVariants \/ HandleCopyCommand \/ CommandCopiedTimer
    \/ \E p \in {"recommended", "smallest", "highest-quality"} : SelectPreset(p)
    \/ \E v \in {"f32", "f16", "i8", "i4"} : ChooseVariant(v)

=============================================================================
