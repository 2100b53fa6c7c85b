------------------------------ MODULE MCParts ------------------------------
(***************************************************************************)
(* Four components that share no state, checked side by side: a behaviour  *)
(* is one of the vector index, of the language server client, of the       *)
(* terminal interface or of the way back of a patch, and leaves the others *)
(* where they started.                                                     *)
(***************************************************************************)
EXTENDS Embed, LspClient, TuiJobs, BackProjection, TLC

VARIABLE part

-----------------------------------------------------------------------------
(* The language server is asked for two items, then for one                *)

MCBatchSize == <<2, 1>>
MCMinima == <<{Null, Part}, {Null}>>

-----------------------------------------------------------------------------
(* Names and texts for the way back: ac is k, ce is mm, ke is denied, p     *)
(* opens an interface line and d a declaration                              *)

MCCapital == "a" :> "A" @@ "c" :> "C" @@ "e" :> "E" @@ "k" :> "K" @@ "m" :> "M"
             @@ "x" :> "X" @@ "p" :> "P" @@ "d" :> "D"
MCRegistry == << << <<"a", "c">>, <<"k">> >> >>
MCDictionary == << << <<"c", "e">>, <<"m", "m">> >> >>
MCDenylist == << << <<"k", "e">>, <<"x">> >> >>
MCMarkers == {<<"p">>}
MCDeclarationWords == {<<"d">>}
MCKeywords == MCMarkers \cup MCDeclarationWords

NL == <<Newline>>
ac == <<"a", "c">>
ac_e == <<"a", "c", " ", "e">>
ac_AC == <<"a", "c", " ", "A", Joint, "C">>
ace_ce == <<"a", "c", "e", " ", "c", "e">>
p_ac == <<"p", " ", "a", "c">>
comment_ac == <<"#", " ", "a", "c">>
dashes_e == <<"-", "-", " ", "e">>

MCRealTexts == {
    <<"e">> \o NL, ac_e, <<"A", Joint, "C">> \o NL, ac_AC \o NL,
    p_ac \o NL \o ac \o NL, comment_ac \o NL \o <<"A", Joint, "C">>,
    ace_ce \o NL \o <<"e">> \o NL, dashes_e \o NL \o ac_AC \o NL,
    ac_e \o NL \o <<"c", "e">>, ac_AC \o NL \o ace_ce \o NL,
    p_ac \o NL \o dashes_e}

\* Lines an agent may write.
Written == {<<"K">>, <<"k", " ", "e">>, <<"k", " ", "e", " ", "K">>, <<"#", " ", "k">>,
            <<"a", "m", "m">>, <<"m", "m">>, <<"e">>, ac, <<"d", " ", "k">>, dashes_e}

Edit(at, gone, above, added) ==
    [at |-> at, gone |-> gone, above |-> above, added |-> added]
MCAgentEdits ==
    ({<<Edit(at, gone, above, added)>> : at \in 0..2, gone \in 0..2, above \in 0..1,
        added \in {<<>>} \cup {<<l>> : l \in Written}
                       \cup {<<l, <<"K">> >> : l \in {<<"e">>, <<"k", " ", "e">>}}}
     \ {<<Edit(at, 0, above, <<>>)>> : at \in 0..2, above \in 0..1})
    \cup {<<Edit(0, first, 0, <<l>>), Edit(1, 1 - first, 0, <<m>>)>> :
            first \in 0..1, l \in {<<"e">>, dashes_e}, m \in {<<"K">>, <<"#", " ", "k">>}}

-----------------------------------------------------------------------------
AtRest ==
    /\ part # "embed" => vectors = [f \in Docs |-> NoVectors] /\ docsTracked = Docs
    /\ part # "tui" => destination = Local /\ queue = [r \in Reviews |-> "absent"]

PartsInit ==
    /\ EmbedInit /\ LspInit /\ TuiInit /\ ProjectionInit
    /\ part \in {"embed", "lsp", "tui", "patch"} /\ AtRest

PartsNext ==
    \/ part = "embed" /\ EmbedNext /\ UNCHANGED <<lspVars, tuiVars, projectionVars, part>>
    \/ part = "lsp" /\ LspNext /\ UNCHANGED <<embedVars, tuiVars, projectionVars, part>>
    \/ part = "tui" /\ TuiNext /\ UNCHANGED <<embedVars, lspVars, projectionVars, part>>
    \/ part = "patch" /\ ProjectionNext /\ UNCHANGED <<embedVars, lspVars, tuiVars, part>>

partsVars == <<embedVars, lspVars, tuiVars, projectionVars, part>>

\* Each part's own fairness; the others take no step.
PartsSpec ==
    /\ PartsInit /\ [][PartsNext]_partsVars
    /\ WF_lspVars(part = "lsp" /\ CallStep)
    /\ WF_tuiVars(part = "tui" /\ PollWorkers)
    /\ WF_tuiVars(part = "tui" /\ NoInput)
    /\ WF_tuiVars(part = "tui" /\ WorkerFinishes)
=============================================================================
