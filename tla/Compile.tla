------------------------------- MODULE Compile -------------------------------
(***************************************************************************)
(* $compile (angular): how the directives of a template come to be linked. *)
(* A template is compiled once; ng-repeat compiles its element a second    *)
(* time, without itself, and links a clone of it per row in a later        *)
(* digest.  Templates of directives, isolate scopes and attributes, which  *)
(* the page's templates do not use or need, are left out.                  *)
(***************************************************************************)
EXTENDS Naturals, Sequences, FiniteSets, SequencesExt

CONSTANTS
  Nodes,          \* 1..n, the elements of a template; 1 is the root
  MaxDirectives,  \* bounds the directives of a template
  MaxRows         \* bounds the rows of one ng-repeat

\* The kinds of directive that the page's templates hold: ng-repeat, an attribute
\* with {{ }}, ng-controller, form, ng-model, and ng-options.
Directives == {"repeat", "attr", "controller", "form", "model", "options"}
Priority(d) == CASE d = "repeat" -> 1000 [] d = "attr" -> 100 [] OTHER -> 0
All == 1001  \* no maxPriority

HasController(d) == d \in {"controller", "form", "model"}
Prelinks(d)      == d = "form"
Postlinks(d)     == ~d \in {"controller", "form"}

VARIABLES
  parent,   \* of each node
  ds,       \* the directives of each node
  trace,    \* what was instantiated and linked, in this order
  pending,  \* the ng-repeats that were linked and have made no rows yet
  rows      \* how many rows an ng-repeat made

compileVars == <<parent, ds, trace, pending, rows>>

\* A scope is named by the steps that lead to it from $rootScope: the node whose
\* controller it is for, or the node and the number of its row.
Scopes == UNION {[1..n -> Nodes \X (0..MaxRows)] : n \in 0..(2 * Cardinality(Nodes))}

CompileTypeOK ==
  /\ ds \in [Nodes -> SUBSET Directives]
  /\ \A i \in DOMAIN trace :
       /\ trace[i].phase \in {"controller", "pre", "post"} /\ trace[i].directive \in ds[trace[i].node]
       /\ trace[i].scope \in Seq(Nodes \X (0..MaxRows))

Children(n) == SetToSortSeq({m \in Nodes \ {1} : parent[m] = n}, <)

-----------------------------------------------------------------------------
\* collectDirectives, sorted byPriority.
CollectDirectives(n, maxPriority) ==
  SetToSortSeq({d \in ds[n] : Priority(d) < maxPriority}, LAMBDA a, b : Priority(a) > Priority(b))

\* The directives that applyDirectivesToNode applies: up to the terminal priority.
Applied(n, maxPriority) ==
  LET directives == CollectDirectives(n, maxPriority) IN
  SelectSeq(directives, LAMBDA d : "repeat" \in ToSet(directives) => Priority(d) >= Priority("repeat"))

Terminal(applied) == {"repeat", "options"} \cap ToSet(applied) # {}

\* require: '^?form' looks at the element and then at those above it.
FormOf(above) ==
  LET forms == SelectSeq(above, LAMBDA e : e.form) IN
  IF forms = << >> THEN << >> ELSE <<Last(forms).node, Last(forms).scope>>

\* The controllers, the pre-link or the post-link functions of n run in their order.
Phase(phase, wanted, n, scope, above) ==
  [i \in DOMAIN wanted |-> [phase |-> phase, directive |-> wanted[i], node |-> n, scope |-> scope,
                            form |-> FormOf(above)]]

\* compositeLinkFn and nodeLinkFn: n is linked with `scope', below the elements
\* `above'.  An ng-repeat puts a comment in the place of its element.
RECURSIVE LinkNode(_, _, _, _)
LinkNode(n, maxPriority, scope, above) ==
  LET applied == Applied(n, maxPriority)
      own  == IF "controller" \in ToSet(applied) THEN Append(scope, <<n, 0>>) ELSE scope
      here == Append(above, [node |-> n, scope |-> own, form |-> "form" \in ToSet(applied)])
      kids == IF Terminal(applied) THEN << >> ELSE Children(n)
      linked == [i \in DOMAIN kids |-> LinkNode(kids[i], All, own, here)]
  IN [trace |-> Phase("controller", SelectSeq(applied, HasController), n, own, here)
                  \o Phase("pre", SelectSeq(applied, Prelinks), n, own, here)
                  \o FlattenSeq([i \in DOMAIN kids |-> linked[i].trace])
                  \o Phase("post", SelectSeq(applied, Postlinks), n, own, here),
      pending |-> UNION {linked[i].pending : i \in DOMAIN kids}
                    \cup IF "repeat" \in ToSet(applied)
                           THEN {[node |-> n, scope |-> own, above |-> above]} ELSE {}]

\* A row's clone is connected to the document before it is linked.
Connected(r) == r.above

\* bootstrap, or ngView, links the template.
LinkTemplate ==
  /\ trace = << >> /\ pending = {}
  /\ LET l == LinkNode(1, All, << >>, << >>) IN trace' = l.trace /\ pending' = l.pending
  /\ UNCHANGED <<parent, ds, rows>>

\* A digest: the watch of each ng-repeat finds count[r] items; each item gets a
\* scope and a clone.
LinkRows(count) ==
  LET made == {<<r, k>> \in pending \X (1..MaxRows) : k <= count[r]}
      link(x) == LinkNode(x[1].node, Priority("repeat"), Append(x[1].scope, <<x[1].node, x[2]>>),
                          Connected(x[1]))
  IN /\ trace' = FoldSet(LAMBDA x, acc : acc \o link(x).trace, trace, made)
     /\ pending' = UNION {link(x).pending : x \in made}
     /\ rows' = rows \cup {<<r.node, r.scope, count[r]>> : r \in pending}
     /\ UNCHANGED <<parent, ds>>

CompileInit ==
  /\ parent \in {p \in [Nodes \ {1} -> Nodes] : \A n \in Nodes \ {1} : p[n] < n}
  /\ \E uses \in UNION {kSubset(k, Nodes \X Directives) : k \in 0..MaxDirectives} :
       ds = [n \in Nodes |-> {d \in Directives : <<n, d>> \in uses}]
  /\ trace = << >> /\ pending = {} /\ rows = {}

CompileNext ==
  \/ LinkTemplate
  \/ pending # {} /\ \E count \in [pending -> 0..MaxRows] : LinkRows(count)

-----------------------------------------------------------------------------
(* Properties *)

\* The scopes in which n is met, and those in which its directives are linked:
\* one per row of what it repeats.
Met[n \in Nodes] ==
  LET above == IF n = 1 THEN {<< >>}
               ELSE IF "options" \in ds[parent[n]] THEN {} ELSE Met[parent[n]].inside
      repeated == IF "repeat" \notin ds[n] THEN above
                  ELSE UNION {{Append(r[2], <<n, k>>) : k \in 1..r[3]} : r \in {x \in rows : x[1] = n}}
      inside == IF "controller" \in ds[n] THEN {Append(s, <<n, 0>>) : s \in repeated} ELSE repeated
  IN [outside |-> above, inside |-> inside]

ScopesOf(d, n) == IF d = "repeat" THEN Met[n].outside ELSE Met[n].inside

RECURSIVE Ancestors(_)
Ancestors(n) == IF n = 1 THEN << >> ELSE Append(Ancestors(parent[n]), parent[n])

\* Every directive of the template is linked once per scope in which its element
\* is met, in that scope and no other; what an element declares is there before
\* its children are linked and its links run after theirs; and a control finds
\* the innermost form around it, through the clones of ng-repeat.
LinkedOnce ==
  trace # << >> =>
    /\ \A n \in Nodes, d \in Directives :
         {trace[i].scope : i \in {j \in DOMAIN trace : trace[j].node = n /\ trace[j].directive = d}}
           = IF d \in ds[n] THEN ScopesOf(d, n) ELSE {}
    /\ \A i, j \in DOMAIN trace :
         /\ i # j => trace[i] # trace[j]
         /\ /\ trace[j].node \in ToSet(Ancestors(trace[i].node))
            /\ IsPrefix(trace[j].scope, trace[i].scope)
            => /\ trace[j].phase \in {"controller", "pre"} => j < i
               /\ (trace[j].phase = "post" /\ trace[j].directive # "repeat"
                     /\ trace[i].directive \in {"controller", "form", "model"}
                     /\ ~\E m \in Nodes : m # trace[j].node /\ "repeat" \in ds[m]) => i < j
    /\ \A i \in DOMAIN trace :
         LET path == Append(Ancestors(trace[i].node), trace[i].node)
             forms == SelectSeq(path, LAMBDA m : "form" \in ds[m]
                                  /\ ~(m = trace[i].node /\ trace[i].directive = "repeat"))
         IN /\ (forms = << >>) = (trace[i].form = << >>)
            /\ forms # << >> => /\ trace[i].form[1] = Last(forms)
                                /\ IsPrefix(trace[i].form[2], trace[i].scope)
=============================================================================
