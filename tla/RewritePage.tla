---------------------------- MODULE RewritePage ----------------------------
(***************************************************************************)
(* QuestionPlaygroundPage: generates a question for an answer in a         *)
(* context, and adds the pair to an eval set.                              *)
(***************************************************************************)
EXTENDS Playground, EvalSets

CONSTANTS SetNames    \* names of eval sets

RewriteDefaults ==
    [context |-> "", answer |-> "", model |-> "",
     sets |-> NoSets, dialog |-> "closed", chosen |-> "", newName |-> "",
     question |-> 0, closing |-> FALSE, next |-> 1]

\* The page's entry holds context, answer and model; the sets have their own.
RewriteRestore(s) ==
    IF s = <<>> THEN RewriteDefaults
    ELSE [RewriteDefaults EXCEPT !.context = s[1].context, !.answer = s[1].answer,
             !.model = s[1].model, !.sets = s[1].sets, !.next = s[1].next]

RewriteModels(ms) ==
    /\ page = "rewrite"
    /\ ModelsArrive(ms, [form EXCEPT !.model = ByParam(Keep(@, ms), ms)])

RewriteSetContext(t) == User("rewrite") /\ OnlyForm([form EXCEPT !.context = t])
RewriteSetAnswer(t) == User("rewrite") /\ OnlyForm([form EXCEPT !.answer = t])

RewriteSetModel(m) ==
    /\ User("rewrite") /\ ModelEnabled /\ m \in ToSet(models.list)
    /\ OnlyForm([form EXCEPT !.model = m])

RewriteLoadSample(t) ==
    /\ User("rewrite")
    /\ OnlyForm([form EXCEPT !.context = t, !.answer = t])

\* The answer has to occur in the context; here texts only contain themselves.
RewriteChecks ==
    /\ form.context # "" /\ form.answer # "" /\ form.model # ""
    /\ form.answer = form.context
RewriteButton ==
    ~view.loading /\ form.context # "" /\ form.answer # "" /\ form.model # ""

HandleGenerate(click) ==
    /\ User("rewrite") /\ (click => RewriteButton)
    /\ IF RewriteChecks THEN StartRun(form) ELSE Refuse

RewriteSettles(k) ==
    /\ page = "rewrite"
    /\ Settles(k, Shown(k, <<>>)) \/ Settles(k, Failed)
    /\ UNCHANGED <<form, saved>>

RewriteReset ==
    /\ User("rewrite")
    /\ SetForm([form EXCEPT !.context = "", !.answer = ""])
    /\ view' = [NoView EXCEPT !.loading = view.loading]
    /\ UNCHANGED <<models, reqs>>

RewritePanels ==
    (IF view.loading THEN {"skeleton"}
     ELSE IF view.result # 0 THEN {"question", "add to eval set"} ELSE {"hint"})
        \cup (IF models.loaded /\ models.list = <<>> THEN {"no models"} ELSE {})
        \cup (IF view.error THEN {"error"} ELSE {})

-----------------------------------------------------------------------------
(* The dialog that adds a pair to an eval set *)

OpenAddToEvalSetDialog ==
    /\ User("rewrite")
    /\ "add to eval set" \in RewritePanels
    /\ form.dialog = "closed"
    /\ \E first \in EvalSetNames(form.sets) \cup {""} :
          /\ EvalSetNames(form.sets) # {} => first # ""
          /\ OnlyForm([form EXCEPT !.dialog = "open", !.question = view.result,
                          !.chosen = IF @ = "" THEN first ELSE @])

RewriteChooseSet(n) ==
    /\ User("rewrite") /\ form.dialog # "closed"
    /\ n \in EvalSetNames(form.sets)
    /\ OnlyForm([form EXCEPT !.chosen = n])

RewriteTypeName(n) ==
    /\ User("rewrite") /\ form.dialog # "closed"
    /\ OnlyForm([form EXCEPT !.newName = n])

\* The + button of the dialog.
RewriteCreateSet ==
    /\ User("rewrite") /\ form.dialog # "closed"
    /\ CanCreate(form.sets, form.newName)
    /\ OnlyForm([form EXCEPT !.sets = CreateEvalSet(form.sets, @, form.newName),
                             !.chosen = form.newName, !.newName = ""])

\* A name in the field creates that set first; addItem then still looks at
\* the sets of the render before.
HandleAddToEvalSet ==
    /\ User("rewrite")
    /\ form.dialog = "open"
    /\ form.chosen # "" \/ form.newName # ""
    /\ form.newName # "" => CanCreate(form.sets, form.newName)
    /\ LET target == IF form.newName # "" THEN form.newName ELSE form.chosen
           created == IF form.newName # ""
                      THEN CreateEvalSet(form.sets, form.sets, form.newName)
                      ELSE form.sets
           item == [id |-> form.next, q |-> form.answer]
       IN OnlyForm([form EXCEPT !.sets = AddItem(form.sets, created, target, item),
                       !.chosen = target, !.newName = "", !.next = @ + 1,
                       !.dialog = "added", !.closing = TRUE])

\* The timer of a success closes whatever dialog is open then.
RewriteTimer ==
    /\ page = "rewrite" /\ form.closing
    /\ SetForm([form EXCEPT !.dialog = "closed", !.closing = FALSE])
    /\ UNCHANGED <<page, view, models, reqs, steps>>

RewriteCancel ==
    /\ User("rewrite") /\ form.dialog # "closed"
    /\ OnlyForm([form EXCEPT !.dialog = "closed"])

RewriteNext ==
    \/ \E ms \in ModelLists : RewriteModels(ms)
    \/ \E t \in Inputs : RewriteSetContext(t) \/ RewriteSetAnswer(t)
    \/ \E m \in AllModels : RewriteSetModel(m)
    \/ \E t \in Texts : RewriteLoadSample(t)
    \/ \E click \in BOOLEAN : HandleGenerate(click)
    \/ RewriteReset \/ OpenAddToEvalSetDialog
    \/ page = "rewrite" /\ \E n \in SetNames : RewriteChooseSet(n) \/ RewriteTypeName(n)
    \/ RewriteCreateSet \/ HandleAddToEvalSet \/ RewriteTimer \/ RewriteCancel
    \/ \E k \in DOMAIN reqs : RewriteSettles(k)

=============================================================================
