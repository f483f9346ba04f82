------------------------ MODULE LegalPrograms_proof ------------------------
(***************************************************************************)
(* Legal programs compile, whatever their size: the builder of CodegenCFG  *)
(* never asserts on one, and verifyModule accepts what it leaves.          *)
(*                                                                         *)
(* The invariants of CodegenCFG_proof know nothing of legality.  LegalInv  *)
(* gives every frame of the recursion the context in which what it has     *)
(* still to generate stands, with its depth, its procedure, the names it   *)
(* can call and its scopes; the labels that are still to be generated      *)
(* differ from one another and none of them has been placed; every block   *)
(* that a GOTO has announced belongs to one of them; and every instruction *)
(* so far suits its function (Suiting), the values of a switch apart from  *)
(* those of the arms to come.  At the end no label is left to be           *)
(* generated, and verifyModule finds nothing to complain about.            *)
(***************************************************************************)
EXTENDS CodegenCFG_proof

(* The nodes that a frame has still to generate, and what they hold.       *)
Todo(f) == IF f.k = "gen" THEN {f.s}
           ELSE IF f.k = "endthen" THEN {f.s.alt[i] : i \in DOMAIN f.s.alt}
           ELSE IF f.k = "arm" THEN {f.s.stmts[f.to[3]]}
           ELSE {}
LabelsOf(A, f) == UNION {A.labels[s] : s \in Todo(f)}
GotosOf(A, f)  == UNION {A.gotos[s] : s \in Todo(f)}

(* A body with labels of its own, or a program, begins or ends at f.       *)
Declares(s) == \/ HasBody(s)
               \/ (s.kind = "Block" /\ \E i \in DOMAIN s.decls : HasBody(s.decls[i]))
IsDecl(f)  == f.k = "gen" /\ f.s.kind = "Proc"
Body(f)    == f.k = "gen" /\ HasBody(f.s)
Divides(f) == f.k = "endproc" \/ (f.k = "gen" /\ Declares(f.s))
Open(w, i) == \A k \in 1..i : ~Divides(w[k])

(* A frame f in the context c; the contexts of two frames, f right above.  *)
Judged(A, f, c) == /\ \A s \in Todo(f) : <<s, c>> \in A.at
                   /\ f.k # "gen" => \A s \in Todo(f) : Statement(s)
                   /\ f.k = "endproc" => c.owner = <<f.s>>
Under(fns, f, c, d) ==
    /\ d.scopes = IF f.k \in {"endproc", "endblock"} THEN c.scopes - 1 ELSE c.scopes
    /\ d.owner = IF f.k = "endproc" THEN fns[f.to[1]] ELSE c.owner

(* f is above g: bodies are generated one in another, declarations first.  *)
Above(A, f, g, c, d) ==
    /\ d.depth <= c.depth /\ d.scopes <= c.scopes
    /\ f.k = "endproc" => d.depth < c.depth
    /\ f.k \in {"endproc", "endblock"} => d.scopes < c.scopes
    /\ g.k = "gen" /\ Declares(g.s) /\ ~IsDecl(f) => d.depth < c.depth
    /\ LabelsOf(A, f) \cap LabelsOf(A, g) = {}

(* V[i] is the context of the i-th frame of the stack w.                   *)
Stacked(A, fns, V, w) ==
    /\ V[Len(w) + 1].owner = <<>>
    /\ \A i \in 1..Len(w) : /\ Judged(A, w[i], V[i])
                            /\ Under(fns, w[i], V[i], V[i + 1])
    /\ \A i, j \in 1..Len(w) : i < j => Above(A, w[i], w[j], V[i], V[j])
Nesting(A, V) == /\ V[1].scopes = Len(scopes)
                 /\ funcs[curFunc] = V[1].owner
                 /\ Stacked(A, funcs, V, work)

Awaited(A, w, l) == \E i \in 1..Len(w) : l \in LabelsOf(A, w[i])

(* What is said of a stack w, of labels_ and of the blocks that GOTOs      *)
(* announced.                                                              *)
Waiting(A, w, lab, pen) ==
    /\ \A i \in 1..Len(w) : \A l \in LabelsOf(A, w[i]) : lab[l] = 0 \/ lab[l] \in pen
    /\ \A b \in pen : \E i \in 1..Len(w) :
          Open(w, i) /\ \E l \in LabelsOf(A, w[i]) : lab[l] = b
    /\ \A i \in 1..Len(w) : \A l \in GotosOf(A, w[i]) :
          Awaited(A, w, l) \/ (lab[l] # 0 /\ Open(w, i))

OneEach(lab) == \A l, m \in Name : lab[l] = lab[m] /\ lab[l] # 0 => l = m

LabelsFit(A) ==
    /\ relabelled = {}
    /\ OneEach(labels)
    /\ Waiting(A, work, labels, pending)

(* A name is in scope already, or its declaration is still to come first.  *)
Known(sc, n, c) == \E q \in 1..c.scopes : q \in 1..Len(sc) /\ sc[q][n] # 0
NamesFit(V, w, sc) ==
    \A i \in 1..Len(w) : \A n \in V[i].names :
        \/ Known(sc, n, V[i])
        \/ \E k \in 1..Len(w) : /\ k < i /\ Body(w[k]) /\ w[k].s.name = n
                                /\ V[k].scopes <= V[i].scopes

Sound(A, V) == Nesting(A, V) /\ LabelsFit(A) /\ NamesFit(V, work, scopes)

(* The stack gs is fs with n items instead of its top, and W says of it    *)
(* what V says of fs.                                                      *)
Pushed(V, W, n, fs, gs) ==
    /\ n \in Nat /\ Len(fs) \in Nat \ {0} /\ Len(gs) = n + Len(fs) - 1
    /\ \A j \in Nat : j >= 2 => W[j + n - 1] = V[j]
    /\ \A j \in 2..Len(fs) : gs[j + n - 1] = fs[j]

(* There is such a W, whatever contexts K the items are to have.           *)
Continued(V, K, items, fs, gs) ==
    \E W \in [Nat -> Context] :
        /\ Pushed(V, W, Len(items), fs, gs)
        /\ \A i \in 1..Len(items) : gs[i] = items[i] /\ W[i] = K[i]

(* The items get the contexts K, the frames below keep theirs.             *)
LEMMA ContextsPushed ==
    ASSUME NEW V \in [Nat -> Context], NEW K \in [Nat -> Context],
           NEW fs \in Seq(FrameSet), fs # <<>>, NEW items \in Seq(FrameSet)
    PROVE  Continued(V, K, items, fs, items \o Tail(fs))
  <1> DEFINE t == Tail(fs)
             gs == items \o t
             m == Len(items)
  <1>1. /\ t \in Seq(FrameSet) /\ Len(fs) \in Nat \ {0}
        /\ DOMAIN t = 1..(Len(fs) - 1) /\ Len(t) \in Nat
        /\ \A i \in DOMAIN t : t[i] = fs[i + 1]
    BY TailProperties, LenProperties
  <1>2. Len(t) = Len(fs) - 1
    BY <1>1
  <1> HIDE DEF t
  <1>3. /\ m \in Nat /\ Len(gs) = m + Len(t)
        /\ DOMAIN items = 1..m
        /\ \A i \in DOMAIN items : gs[i] = items[i]
        /\ \A i \in DOMAIN t : gs[m + i] = t[i]
    <2> HIDE DEF m, gs
    <2>1. gs = items \o t /\ m = Len(items)
      BY DEF gs, m
    <2>2. /\ Len(items) \in Nat /\ Len(items \o t) = Len(items) + Len(t)
          /\ DOMAIN items = 1..Len(items)
          /\ \A i \in DOMAIN items : (items \o t)[i] = items[i]
          /\ \A i \in DOMAIN t : (items \o t)[Len(items) + i] = t[i]
      <3>1. t \in Seq(FrameSet)
        BY <1>1
      <3> QED BY <3>1, ConcatElements, SMTT(30)
    <2> QED BY <2>1, <2>2, Zenon
  <1> HIDE DEF gs
  <1>4. PICK n \in Nat : n = m
    BY <1>3
  <1> HIDE DEF m
  <1> DEFINE W == [i \in Nat |-> IF i <= n THEN K[i] ELSE V[i - n + 1]]
  <1>5. W \in [Nat -> Context]
    <2>1. ASSUME NEW i \in Nat PROVE (IF i <= n THEN K[i] ELSE V[i - n + 1]) \in Context
      <3>1. CASE i <= n
        BY <3>1
      <3>2. CASE ~(i <= n)
        <4>1. i - n + 1 \in Nat
          BY <3>2
        <4> QED BY <3>2, <4>1
      <3> QED BY <3>1, <3>2
    <2> QED BY <2>1
  <1>6. ASSUME NEW j \in Nat, j >= 2 PROVE W[j + n - 1] = V[j]
    <2>1. j + n - 1 \in Nat /\ ~(j + n - 1 <= n) /\ (j + n - 1) - n + 1 = j
      BY <1>6
    <2> QED BY <2>1
  <1>7. \A i \in 1..n : W[i] = K[i]
    OBVIOUS
  <1> HIDE DEF W
  <1>8. ASSUME NEW j \in 2..Len(fs) PROVE gs[j + n - 1] = fs[j]
    <2>1. j - 1 \in DOMAIN t /\ n + (j - 1) = j + n - 1 /\ (j - 1) + 1 = j
      BY <1>1
    <2>2. t[j - 1] = fs[j] /\ gs[n + (j - 1)] = t[j - 1]
      BY <1>1, <1>3, <1>4, <2>1
    <2> QED BY <2>1, <2>2
  <1>9. Len(gs) = n + Len(fs) - 1
    BY <1>1, <1>2, <1>3, <1>4
  <1>10. Pushed(V, W, n, fs, gs)
    BY <1>1, <1>6, <1>8, <1>9 DEF Pushed
  <1>11. \A i \in 1..n : gs[i] = items[i] /\ W[i] = K[i]
    BY <1>3, <1>4, <1>7
  <1>12. n = Len(items) /\ gs = items \o Tail(fs)
    BY <1>4 DEF m, gs, t
  <1> QED BY <1>5, <1>10, <1>11, <1>12 DEF Continued

(* The frames of gs are the items and the frames of fs under its top.      *)
Moved(V, W, n, fs, gs) ==
    /\ \A i \in 1..Len(gs) : i \in 1..n \/ \E j \in 2..Len(fs) :
          /\ i = j + n - 1 /\ gs[i] = fs[j]
          /\ W[i] = V[j] /\ W[i + 1] = V[j + 1]
    /\ \A j \in 2..Len(fs) : j + n - 1 \in 1..Len(gs) /\ gs[j + n - 1] = fs[j]
                             /\ W[j + n - 1] = V[j]
    /\ 1..n \subseteq 1..Len(gs)
    /\ W[n + 1] = V[2] /\ W[Len(gs) + 1] = V[Len(fs) + 1]
    /\ n \in Nat /\ Len(fs) \in Nat \ {0}

(* What is below the items is what was below the top before.               *)
LEMMA Moves ==
    ASSUME NEW V, NEW W, NEW n, NEW fs, NEW gs, Pushed(V, W, n, fs, gs)
    PROVE  Moved(V, W, n, fs, gs)
  <1>1. /\ n \in Nat /\ Len(fs) \in Nat \ {0} /\ Len(gs) = n + Len(fs) - 1
        /\ \A j \in Nat : j >= 2 => W[j + n - 1] = V[j]
        /\ \A j \in 2..Len(fs) : gs[j + n - 1] = fs[j]
    BY DEF Pushed
  <1>2. ASSUME NEW i \in 1..Len(gs), i \notin 1..n
        PROVE  \E j \in 2..Len(fs) : /\ i = j + n - 1 /\ gs[i] = fs[j]
                                     /\ W[i] = V[j] /\ W[i + 1] = V[j + 1]
    <2>1. PICK j \in Nat : j = i - n + 1
      BY <1>1, <1>2
    <2>2. j \in 2..Len(fs) /\ i = j + n - 1
      BY <1>1, <1>2, <2>1
    <2>3. j + 1 \in Nat /\ j + 1 >= 2 /\ j >= 2 /\ i + 1 = (j + 1) + n - 1
      BY <1>1, <2>1, <2>2
    <2> QED BY <1>1, <2>1, <2>2, <2>3
  <1>3. ASSUME NEW j \in 2..Len(fs)
        PROVE  j + n - 1 \in 1..Len(gs) /\ W[j + n - 1] = V[j]
    <2>1. j \in Nat /\ j >= 2 /\ j + n - 1 \in 1..Len(gs)
      BY <1>1
    <2> QED BY <1>1, <2>1
  <1>4. W[n + 1] = V[2]
    <2>1. 2 \in Nat /\ 2 >= 2 /\ 2 + n - 1 = n + 1
      BY <1>1
    <2> QED BY <1>1, <2>1
  <1>5. W[Len(gs) + 1] = V[Len(fs) + 1]
    <2>1. Len(fs) + 1 \in Nat /\ Len(fs) + 1 >= 2 /\ Len(gs) + 1 = (Len(fs) + 1) + n - 1
      BY <1>1
    <2> QED BY <1>1, <2>1
  <1>6. 1..n \subseteq 1..Len(gs)
    BY <1>1
  <1> QED BY <1>1, <1>2, <1>3, <1>4, <1>5, <1>6 DEF Moved

(* What a frame x in the context k may be that replaces f on top.          *)
Deeper(A, f, c, x, k) ==
    /\ c.depth <= k.depth /\ c.scopes <= k.scopes
    /\ x.k = "endproc" \/ (IsDecl(f) /\ ~IsDecl(x)) => c.depth < k.depth
    /\ x.k \in {"endproc", "endblock"} => c.scopes < k.scopes
    /\ \A l \in LabelsOf(A, x) : l \in LabelsOf(A, f) \/ c.depth < A.depth[l]

(* What the items may be: K has their contexts, d is that of the rest.     *)
Carries(A, fns, f, c, d, items, K) ==
    /\ \A i \in 1..Len(items) :
          /\ Judged(A, items[i], K[i]) /\ Deeper(A, f, c, items[i], K[i])
          /\ Under(fns, items[i], K[i], IF i = Len(items) THEN d ELSE K[i + 1])
    /\ \A i, j \in 1..Len(items) : i < j => Above(A, items[i], items[j], K[i], K[j])

(* A label is used where it belongs.                                       *)
LEMMA LabelDepth ==
    ASSUME NEW A, Reading(A), NEW f, NEW c, Judged(A, f, c),
           NEW l, l \in LabelsOf(A, f) \cup GotosOf(A, f)
    PROVE  A.depth[l] = c.depth
  <1>1. PICK s \in Todo(f) : l \in A.labels[s] \cup A.gotos[s]
    BY DEF LabelsOf, GotosOf
  <1>2. <<s, c>> \in A.at
    BY DEF Judged
  <1>3. LabelsPlaced(A, s, c)
    BY <1>2 DEF Reading
  <1> QED BY <1>1, <1>3 DEF LabelsPlaced

(* What is above a frame remains so.                                       *)
LEMMA DeeperAbove ==
    ASSUME NEW A, Reading(A), NEW c \in Context, NEW k \in Context, NEW e \in Context,
           NEW f, NEW g, NEW x, Above(A, f, g, c, e), Deeper(A, f, c, x, k), Judged(A, g, e)
    PROVE  Above(A, x, g, k, e)
  <1>1. /\ c.depth \in Nat /\ k.depth \in Nat /\ e.depth \in Nat
        /\ c.scopes \in Nat /\ k.scopes \in Nat /\ e.scopes \in Nat
    BY DEF Context
  <1>2. e.depth <= k.depth /\ e.scopes <= k.scopes
    BY <1>1 DEF Above, Deeper
  <1>3. x.k = "endproc" => e.depth < k.depth
    BY <1>1 DEF Above, Deeper
  <1>4. x.k \in {"endproc", "endblock"} => e.scopes < k.scopes
    BY <1>1 DEF Above, Deeper
  <1>5. g.k = "gen" /\ Declares(g.s) /\ ~IsDecl(x) => e.depth < k.depth
    BY <1>1 DEF Above, Deeper
  <1>6. LabelsOf(A, x) \cap LabelsOf(A, g) = {}
    <2> SUFFICES ASSUME NEW l \in LabelsOf(A, x), l \in LabelsOf(A, g) PROVE FALSE
      OBVIOUS
    <2>1. A.depth[l] = e.depth
      BY LabelDepth
    <2>2. l \notin LabelsOf(A, f)
      BY DEF Above
    <2>3. c.depth < A.depth[l] /\ e.depth <= c.depth
      BY <2>2 DEF Deeper, Above
    <2> QED BY <1>1, <2>1, <2>3
  <1> QED BY <1>2, <1>3, <1>4, <1>5, <1>6 DEF Above

(* So the stack stays in order.                                            *)
LEMMA StackedKept ==
    ASSUME NEW A, Reading(A), NEW V \in [Nat -> Context], NEW W \in [Nat -> Context], NEW K,
           NEW fs, NEW gs, NEW items, NEW n, n = Len(items), Moved(V, W, n, fs, gs),
           \A i \in 1..n : gs[i] = items[i] /\ W[i] = K[i],
           NEW fns, NEW gns, Stacked(A, fns, V, fs),
           \A i \in 2..Len(fs) : fs[i].k = "endproc" => gns[fs[i].to[1]] = fns[fs[i].to[1]],
           Carries(A, gns, fs[1], V[1], V[2], items, K)
    PROVE  Stacked(A, gns, W, gs)
  <1>1. /\ \A i \in 1..Len(gs) : i \in 1..n \/ \E j \in 2..Len(fs) :
              /\ i = j + n - 1 /\ gs[i] = fs[j]
              /\ W[i] = V[j] /\ W[i + 1] = V[j + 1]
        /\ 1..n \subseteq 1..Len(gs)
        /\ W[n + 1] = V[2] /\ W[Len(gs) + 1] = V[Len(fs) + 1]
        /\ n \in Nat /\ Len(fs) \in Nat \ {0}
    BY DEF Moved
  <1>2. W[Len(gs) + 1].owner = <<>>
    BY <1>1 DEF Stacked
  <1>3. ASSUME NEW i \in 1..n
        PROVE  Judged(A, gs[i], W[i]) /\ Under(gns, gs[i], W[i], W[i + 1])
    <2>1. Judged(A, items[i], K[i]) /\ gs[i] = items[i] /\ W[i] = K[i]
      BY DEF Carries
    <2>2. Under(gns, items[i], K[i], IF i = n THEN V[2] ELSE K[i + 1])
      BY DEF Carries
    <2>3. i # n => i + 1 \in 1..n /\ W[i + 1] = K[i + 1]
      BY <1>1
    <2> QED BY <1>1, <2>1, <2>2, <2>3
  <1>4. ASSUME NEW j \in 2..Len(fs)
        PROVE  /\ Judged(A, fs[j], V[j]) /\ Under(gns, fs[j], V[j], V[j + 1])
               /\ j \in 1..Len(fs) /\ V[j] \in Context
               /\ Above(A, fs[1], fs[j], V[1], V[j])
    <2>1. j \in 1..Len(fs) /\ 1 \in 1..Len(fs) /\ 1 < j /\ j \in Nat
      BY <1>1
    <2>2. Judged(A, fs[j], V[j]) /\ Under(fns, fs[j], V[j], V[j + 1])
      BY <2>1 DEF Stacked
    <2>3. Under(gns, fs[j], V[j], V[j + 1])
      BY <2>2 DEF Under
    <2> QED BY <2>1, <2>2, <2>3 DEF Stacked
  <1>5. \A i \in 1..Len(gs) : Judged(A, gs[i], W[i]) /\ Under(gns, gs[i], W[i], W[i + 1])
    BY <1>1, <1>3, <1>4
  <1>6. ASSUME NEW i \in 1..n, NEW j \in 2..Len(fs)
        PROVE  Above(A, gs[i], fs[j], W[i], V[j])
    <2>1. Deeper(A, fs[1], V[1], items[i], K[i]) /\ gs[i] = items[i] /\ W[i] = K[i]
      BY DEF Carries
    <2>2. V[1] \in Context /\ W[i] \in Context /\ i \in Nat
      BY <1>1
    <2>3. Above(A, fs[1], fs[j], V[1], V[j]) /\ Judged(A, fs[j], V[j]) /\ V[j] \in Context
      BY <1>4
    <2> QED BY <2>1, <2>2, <2>3, DeeperAbove
  <1>7. ASSUME NEW i \in 1..Len(gs), NEW j \in 1..Len(gs), i < j
        PROVE  Above(A, gs[i], gs[j], W[i], W[j])
    <2>1. CASE i \in 1..n /\ j \in 1..n
      BY <1>7, <2>1 DEF Carries
    <2>2. CASE i \in 1..n /\ j \notin 1..n
      <3>1. PICK m \in 2..Len(fs) : j = m + n - 1 /\ gs[j] = fs[m] /\ W[j] = V[m]
        BY <1>1, <2>2
      <3> QED BY <1>6, <2>2, <3>1
    <2>3. CASE i \notin 1..n
      <3>1. PICK a \in 2..Len(fs) : i = a + n - 1 /\ gs[i] = fs[a] /\ W[i] = V[a]
        BY <1>1, <2>3
      <3>2. j \notin 1..n
        BY <1>1, <1>7, <3>1
      <3>3. PICK b \in 2..Len(fs) : j = b + n - 1 /\ gs[j] = fs[b] /\ W[j] = V[b]
        BY <1>1, <3>2
      <3>4. a < b /\ a \in 1..Len(fs) /\ b \in 1..Len(fs)
        BY <1>1, <1>7, <3>1, <3>3
      <3>5. Above(A, fs[a], fs[b], V[a], V[b])
        BY <3>4 DEF Stacked
      <3> QED BY <3>1, <3>3, <3>5
    <2> QED BY <2>1, <2>2, <2>3
  <1> QED BY <1>2, <1>5, <1>7 DEF Stacked

(***************************************************************************)
(* The labels.                                                             *)
(***************************************************************************)
(* The items hold no other labels and GOTOs than the frame f did, and they *)
(* begin no body if f did not.                                             *)
Part(A, f, x) == /\ LabelsOf(A, x) \subseteq LabelsOf(A, f)
                 /\ GotosOf(A, x) \subseteq GotosOf(A, f)
                 /\ Divides(x) => Divides(f)

(* What was in the procedure being generated remains there.                *)
LEMMA OpenKept ==
    ASSUME NEW V, NEW W, NEW n, NEW fs, NEW gs, Moved(V, W, n, fs, gs), ~Divides(fs[1]),
           \A i \in 1..n : Divides(gs[i]) => Divides(fs[1])
    PROVE  /\ \A i \in 1..n : Open(gs, i)
           /\ \A j \in 2..Len(fs) : Open(fs, j) => Open(gs, j + n - 1)
  <1>1. n \in Nat /\ Len(fs) \in Nat \ {0}
    BY DEF Moved
  <1>2. ASSUME NEW i \in 1..n, NEW k \in 1..i PROVE ~Divides(gs[k])
    <2>1. k \in 1..n
      BY <1>1
    <2> QED BY <2>1
  <1>3. ASSUME NEW j \in 2..Len(fs), Open(fs, j), NEW k \in 1..(j + n - 1)
        PROVE  ~Divides(gs[k])
    <2>1. CASE k \in 1..n
      BY <2>1
    <2>2. CASE k \notin 1..n
      <3>1. j + n - 1 \in 1..Len(gs)
        BY DEF Moved
      <3>2. k \in 1..Len(gs)
        BY <1>1, <3>1
      <3>3. PICK m \in 2..Len(fs) : k = m + n - 1 /\ gs[k] = fs[m]
        BY <2>2, <3>2 DEF Moved
      <3>4. m \in 1..j
        BY <1>1, <3>3
      <3> QED BY <1>3, <3>3, <3>4 DEF Open
    <2> QED BY <2>1, <2>2
  <1> QED BY <1>2, <1>3 DEF Open

(* A frame at the depth of the statement on top is in its procedure.       *)
LEMMA OpenAtDepth ==
    ASSUME NEW A, NEW fns, NEW V \in [Nat -> Context], NEW fs, Stacked(A, fns, V, fs),
           Len(fs) \in Nat \ {0}, ~Divides(fs[1]), ~IsDecl(fs[1]),
           NEW i \in 1..Len(fs), Todo(fs[i]) # {}, V[i].depth = V[1].depth
    PROVE  Open(fs, i)
  <1> SUFFICES ASSUME NEW k \in 1..i, Divides(fs[k]) PROVE FALSE
    BY DEF Open
  <1>1. k \in 1..Len(fs) /\ 1 < k /\ 1 \in 1..Len(fs) /\ k \in Nat /\ 1 \in Nat /\ i \in Nat
    <2>1. k # 1
      OBVIOUS
    <2> QED BY <2>1
  <1>2. Above(A, fs[1], fs[k], V[1], V[k])
    BY <1>1 DEF Stacked
  <1>3. k < i => Above(A, fs[k], fs[i], V[k], V[i])
    BY <1>1 DEF Stacked
  <1>4. V[1].depth \in Nat /\ V[k].depth \in Nat /\ V[i].depth \in Nat
    BY <1>1 DEF Context
  <1>5. CASE fs[k].k = "endproc"
    <2>1. Todo(fs[k]) = {}
      BY <1>5 DEF Todo
    <2>2. k < i
      BY <1>1, <2>1
    <2>3. V[i].depth < V[k].depth
      BY <1>3, <1>5, <2>2 DEF Above
    <2> QED BY <1>2, <1>4, <2>3 DEF Above
  <1>6. CASE fs[k].k = "gen" /\ Declares(fs[k].s)
    <2>1. V[k].depth < V[1].depth
      BY <1>2, <1>6 DEF Above
    <2>2. k < i
      BY <1>1, <1>4, <2>1
    <2>3. V[i].depth <= V[k].depth
      BY <1>3, <2>2 DEF Above
    <2> QED BY <1>4, <2>1, <2>3
  <1> QED BY <1>5, <1>6 DEF Divides

(* What the labels are still awaited by, and where.                        *)
LEMMA WaitingKept ==
    ASSUME NEW A, NEW V, NEW W, NEW n, NEW fs, NEW gs, Moved(V, W, n, fs, gs),
           NEW lab, NEW pen, Waiting(A, fs, lab, pen),
           \A i \in 1..n : Part(A, fs[1], gs[i]),
           \A l \in LabelsOf(A, fs[1]) : \E i \in 1..n : l \in LabelsOf(A, gs[i])
    PROVE  Waiting(A, gs, lab, pen)
  <1>1. /\ n \in Nat /\ Len(fs) \in Nat \ {0} /\ 1..n \subseteq 1..Len(gs)
        /\ \A i \in 1..Len(gs) : i \in 1..n \/ \E j \in 2..Len(fs) :
              i = j + n - 1 /\ gs[i] = fs[j]
        /\ \A j \in 2..Len(fs) : j + n - 1 \in 1..Len(gs) /\ gs[j + n - 1] = fs[j]
    BY DEF Moved
  <1>2. 1 \in 1..Len(fs) /\ 2..Len(fs) \subseteq 1..Len(fs)
        /\ \A i \in 1..Len(fs) : i = 1 \/ i \in 2..Len(fs)
    BY <1>1
  <1>3. ASSUME NEW i \in 1..Len(gs), NEW l \in LabelsOf(A, gs[i])
        PROVE  lab[l] = 0 \/ lab[l] \in pen
    BY <1>1, <1>2 DEF Waiting, Part
  <1>4. ASSUME NEW l, Awaited(A, fs, l) PROVE Awaited(A, gs, l)
    <2>1. PICK i \in 1..Len(fs) : l \in LabelsOf(A, fs[i])
      BY <1>4 DEF Awaited
    <2>2. CASE i = 1
      BY <1>1, <2>1, <2>2 DEF Awaited
    <2>3. CASE i \in 2..Len(fs)
      BY <1>1, <2>1, <2>3 DEF Awaited
    <2> QED BY <1>2, <2>2, <2>3
  <1>5. CASE Divides(fs[1])
    <2>1. \A i \in 1..Len(fs) : ~Open(fs, i)
      <3>1. \A i \in 1..Len(fs) : 1 \in 1..i
        BY <1>1
      <3> QED BY <1>5, <3>1 DEF Open
    <2>2. pen = {}
      BY <2>1 DEF Waiting
    <2>3. ASSUME NEW i \in 1..Len(gs), NEW l \in GotosOf(A, gs[i]) PROVE Awaited(A, gs, l)
      <3>1. \E j \in 1..Len(fs) : l \in GotosOf(A, fs[j])
        BY <1>1, <1>2 DEF Part
      <3>2. Awaited(A, fs, l)
        BY <2>1, <3>1 DEF Waiting
      <3> QED BY <1>4, <3>2
    <2> QED BY <1>3, <2>2, <2>3 DEF Waiting
  <1>6. CASE ~Divides(fs[1])
    <2>1. /\ \A i \in 1..n : Open(gs, i)
          /\ \A j \in 2..Len(fs) : Open(fs, j) => Open(gs, j + n - 1)
      <3>1. \A i \in 1..n : Divides(gs[i]) => Divides(fs[1])
        BY DEF Part
      <3> QED BY <1>6, <3>1, OpenKept
    <2>2. ASSUME NEW b \in pen
          PROVE  \E i \in 1..Len(gs) : Open(gs, i) /\ \E l \in LabelsOf(A, gs[i]) : lab[l] = b
      <3>1. PICK i \in 1..Len(fs) : Open(fs, i) /\ \E l \in LabelsOf(A, fs[i]) : lab[l] = b
        BY DEF Waiting
      <3>2. CASE i = 1
        <4>1. PICK l \in LabelsOf(A, fs[1]) : lab[l] = b
          BY <3>1, <3>2
        <4>2. PICK m \in 1..n : l \in LabelsOf(A, gs[m])
          OBVIOUS
        <4> QED BY <1>1, <2>1, <4>1, <4>2
      <3>3. CASE i \in 2..Len(fs)
        BY <1>1, <2>1, <3>1, <3>3
      <3> QED BY <1>2, <3>2, <3>3
    <2>3. ASSUME NEW i \in 1..Len(gs), NEW l \in GotosOf(A, gs[i])
          PROVE  Awaited(A, gs, l) \/ (lab[l] # 0 /\ Open(gs, i))
      <3>1. CASE i \in 1..n
        <4>1. l \in GotosOf(A, fs[1])
          BY <3>1 DEF Part
        <4>2. Awaited(A, fs, l) \/ lab[l] # 0
          BY <1>2, <4>1 DEF Waiting
        <4> QED BY <1>4, <2>1, <3>1, <4>2
      <3>2. CASE i \notin 1..n
        <4>1. PICK j \in 2..Len(fs) : i = j + n - 1 /\ gs[i] = fs[j]
          BY <1>1, <3>2
        <4>2. Awaited(A, fs, l) \/ (lab[l] # 0 /\ Open(fs, j))
          BY <1>2, <4>1 DEF Waiting
        <4> QED BY <1>4, <2>1, <4>1, <4>2
      <3> QED BY <3>1, <3>2
    <2> QED BY <1>3, <2>2, <2>3 DEF Waiting
  <1> QED BY <1>5, <1>6

(* Labels are names.                                                       *)
LEMMA LabelsAreNames ==
    ASSUME NEW A, Reading(A), NEW f, NEW c, Judged(A, f, c)
    PROVE  LabelsOf(A, f) \subseteq Name /\ GotosOf(A, f) \subseteq Name
  <1>1. \A s \in Todo(f) : s \in Node
    BY DEF Judged, Reading
  <1>2. \A s \in Node : A.labels[s] \subseteq Name /\ A.gotos[s] \subseteq Name
    BY DEF Reading
  <1> QED BY <1>1, <1>2 DEF LabelsOf, GotosOf

(* A GOTO to a label that labels_ does not have announces the block b.     *)
LEMMA WaitingAnnounced ==
    ASSUME NEW A, Reading(A), NEW V \in [Nat -> Context], NEW W, NEW fs, NEW gs,
           Moved(V, W, 0, fs, gs), NEW fns, Stacked(A, fns, V, fs),
           ~Divides(fs[1]), ~IsDecl(fs[1]),
           NEW l \in Name, LabelsOf(A, fs[1]) = {}, l \in GotosOf(A, fs[1]),
           NEW lab \in [Name -> Nat], NEW pen, Waiting(A, fs, lab, pen), lab[l] = 0,
           NEW b \in Nat, b # 0, 0 \notin pen
    PROVE  Waiting(A, gs, [lab EXCEPT ![l] = b], pen \cup {b})
  <1> DEFINE new == [lab EXCEPT ![l] = b]
  <1>1. /\ Len(fs) \in Nat \ {0}
        /\ \A i \in 1..Len(gs) : \E j \in 2..Len(fs) : i = j + 0 - 1 /\ gs[i] = fs[j]
        /\ \A j \in 2..Len(fs) : j + 0 - 1 \in 1..Len(gs) /\ gs[j + 0 - 1] = fs[j]
    <2>1. 1..0 = {}
      OBVIOUS
    <2> QED BY <2>1 DEF Moved
  <1>2. 1 \in 1..Len(fs) /\ 2..Len(fs) \subseteq 1..Len(fs)
        /\ \A i \in 1..Len(fs) : i = 1 \/ i \in 2..Len(fs)
    BY <1>1
  <1>3. new[l] = b /\ \A m \in Name : m # l => new[m] = lab[m]
    OBVIOUS
  <1> HIDE DEF new
  <1>4. \A i \in 1..Len(fs) : Judged(A, fs[i], V[i]) /\ LabelsOf(A, fs[i]) \subseteq Name
                              /\ GotosOf(A, fs[i]) \subseteq Name
    <2>1. \A i \in 1..Len(fs) : Judged(A, fs[i], V[i])
      BY DEF Stacked
    <2> QED BY <2>1, LabelsAreNames
  <1>5. \A j \in 2..Len(fs) : Open(fs, j) => Open(gs, j + 0 - 1)
    <2>1. \A i \in 1..0 : Divides(gs[i]) => Divides(fs[1])
      OBVIOUS
    <2> QED BY <2>1, OpenKept
  <1>6. ASSUME NEW m, Awaited(A, fs, m) PROVE Awaited(A, gs, m)
    <2>1. PICK i \in 1..Len(fs) : m \in LabelsOf(A, fs[i])
      BY <1>6 DEF Awaited
    <2>2. i \in 2..Len(fs)
      BY <1>2, <2>1
    <2> QED BY <1>1, <2>1, <2>2 DEF Awaited
  <1>7. ASSUME NEW i \in 1..Len(gs), NEW m \in LabelsOf(A, gs[i])
        PROVE  new[m] = 0 \/ new[m] \in pen \cup {b}
    <2>1. PICK j \in 2..Len(fs) : gs[i] = fs[j]
      BY <1>1
    <2>2. m \in Name /\ (lab[m] = 0 \/ lab[m] \in pen)
      BY <1>2, <1>4, <2>1 DEF Waiting
    <2> QED BY <1>3, <2>2
  <1>8. ASSUME NEW c \in pen \cup {b}
        PROVE  \E i \in 1..Len(gs) : Open(gs, i) /\ \E m \in LabelsOf(A, gs[i]) : new[m] = c
    <2>1. CASE c \in pen /\ c # 0
      <3>1. PICK i \in 1..Len(fs) : Open(fs, i) /\ \E m \in LabelsOf(A, fs[i]) : lab[m] = c
        BY <2>1 DEF Waiting
      <3>2. PICK m \in LabelsOf(A, fs[i]) : lab[m] = c
        BY <3>1
      <3>3. i \in 2..Len(fs) /\ m \in Name /\ m # l
        BY <1>2, <1>4, <2>1, <3>2
      <3>4. i - 1 \in 1..Len(gs) /\ i + 0 - 1 = i - 1 /\ new[m] = c
        BY <1>1, <1>3, <3>3, <3>2
      <3>5. gs[i - 1] = fs[i] /\ Open(gs, i - 1)
        BY <1>1, <1>5, <3>1, <3>3, <3>4
      <3> QED BY <3>4, <3>5, <3>2
    <2>2. CASE c = b
      <3>1. Awaited(A, fs, l)
        BY <1>2 DEF Waiting
      <3>2. PICK i \in 1..Len(fs) : l \in LabelsOf(A, fs[i])
        BY <3>1 DEF Awaited
      <3>3. i \in 2..Len(fs) /\ Todo(fs[i]) # {}
        BY <1>2, <3>2 DEF LabelsOf
      <3>4. A.depth[l] = V[i].depth /\ A.depth[l] = V[1].depth
        BY <1>2, <1>4, <3>2, LabelDepth
      <3>5. Open(fs, i)
        <4>1. V[i].depth = V[1].depth
          BY <3>4
        <4>2. i \in 1..Len(fs) /\ Todo(fs[i]) # {} /\ Len(fs) \in Nat \ {0}
          BY <1>1, <3>3
        <4> QED BY <4>1, <4>2, OpenAtDepth
      <3> QED BY <1>1, <1>3, <1>5, <2>2, <3>2, <3>3, <3>5
    <2> QED BY <2>1, <2>2
  <1>9. ASSUME NEW i \in 1..Len(gs), NEW m \in GotosOf(A, gs[i])
        PROVE  Awaited(A, gs, m) \/ (new[m] # 0 /\ Open(gs, i))
    <2>1. PICK j \in 2..Len(fs) : i = j + 0 - 1 /\ gs[i] = fs[j]
      BY <1>1
    <2>2. m \in Name /\ (Awaited(A, fs, m) \/ (lab[m] # 0 /\ Open(fs, j)))
      BY <1>2, <1>4, <2>1 DEF Waiting
    <2>3. lab[m] # 0 => new[m] # 0
      BY <1>3, <2>2
    <2> QED BY <1>5, <1>6, <2>1, <2>2, <2>3
  <1> QED BY <1>7, <1>8, <1>9 DEF Waiting, new

(* The statement on top carries the label l, and its block is placed: no   *)
(* GOTO announces it any more.                                             *)
LEMMA WaitingPlaced ==
    ASSUME NEW A, Reading(A), NEW V \in [Nat -> Context], NEW W, NEW fs, NEW gs,
           Moved(V, W, 1, fs, gs), NEW fns, Stacked(A, fns, V, fs),
           ~Divides(fs[1]), ~IsDecl(fs[1]), Todo(fs[1]) # {}, Part(A, fs[1], gs[1]),
           NEW l \in Name, l \in LabelsOf(A, fs[1]), l \notin LabelsOf(A, gs[1]),
           LabelsOf(A, fs[1]) = {l} \cup LabelsOf(A, gs[1]),
           NEW lab, NEW pen, Waiting(A, fs, lab, pen), 0 \notin pen,
           NEW new, lab[l] \in {0, new[l]}, new[l] # 0,
           \A m \in Name : m # l => new[m] = lab[m], OneEach(new)
    PROVE  Waiting(A, gs, new, pen \ {new[l]})
  <1>1. /\ Len(fs) \in Nat \ {0} /\ 1 \in 1..Len(gs)
        /\ \A i \in 1..Len(gs) : i = 1 \/ \E j \in 2..Len(fs) :
              i = j + 1 - 1 /\ gs[i] = fs[j]
        /\ \A j \in 2..Len(fs) : j + 1 - 1 \in 1..Len(gs) /\ gs[j + 1 - 1] = fs[j]
    <2>1. 1..1 = {1}
      OBVIOUS
    <2> QED BY <2>1 DEF Moved
  <1>2. 1 \in 1..Len(fs) /\ 2..Len(fs) \subseteq 1..Len(fs)
        /\ \A i \in 1..Len(fs) : i = 1 \/ i \in 2..Len(fs)
    BY <1>1
  <1>3. \A i \in 1..Len(fs) : Judged(A, fs[i], V[i]) /\ LabelsOf(A, fs[i]) \subseteq Name
                              /\ GotosOf(A, fs[i]) \subseteq Name
    <2>1. \A i \in 1..Len(fs) : Judged(A, fs[i], V[i])
      BY DEF Stacked
    <2> QED BY <2>1, LabelsAreNames
  <1>4. ASSUME NEW j \in 2..Len(fs) PROVE l \notin LabelsOf(A, fs[j])
    <2>1. 1 < j /\ j \in 1..Len(fs)
      BY <1>1
    <2>2. Above(A, fs[1], fs[j], V[1], V[j])
      BY <1>2, <2>1 DEF Stacked
    <2> QED BY <2>2 DEF Above
  <1>5. /\ Open(gs, 1)
        /\ \A j \in 2..Len(fs) : Open(fs, j) => Open(gs, j + 1 - 1)
    <2>1. \A i \in 1..1 : Divides(gs[i]) => Divides(fs[1])
      BY DEF Part
    <2>2. 1 \in 1..1
      OBVIOUS
    <2> QED BY <2>1, <2>2, OpenKept
  <1>6. ASSUME NEW m, m # l, Awaited(A, fs, m) PROVE Awaited(A, gs, m)
    <2>1. PICK i \in 1..Len(fs) : m \in LabelsOf(A, fs[i])
      BY <1>6 DEF Awaited
    <2>2. CASE i = 1
      BY <1>1, <1>6, <2>1, <2>2 DEF Awaited
    <2>3. CASE i \in 2..Len(fs)
      BY <1>1, <2>1, <2>3 DEF Awaited
    <2> QED BY <1>2, <2>2, <2>3
  <1>7. ASSUME NEW i \in 1..Len(gs), NEW m \in LabelsOf(A, gs[i])
        PROVE  new[m] = 0 \/ new[m] \in pen \ {new[l]}
    <2>1. PICK j \in 1..Len(fs) : m \in LabelsOf(A, fs[j])
      BY <1>1, <1>2
    <2>2. m \in Name /\ m # l
      BY <1>1, <1>3, <1>4, <2>1
    <2>3. lab[m] = 0 \/ lab[m] \in pen
      BY <2>1 DEF Waiting
    <2> QED BY <2>2, <2>3 DEF OneEach
  <1>8. ASSUME NEW c \in pen \ {new[l]}
        PROVE  \E i \in 1..Len(gs) : Open(gs, i) /\ \E m \in LabelsOf(A, gs[i]) : new[m] = c
    <2>1. PICK i \in 1..Len(fs) : Open(fs, i) /\ \E m \in LabelsOf(A, fs[i]) : lab[m] = c
      BY DEF Waiting
    <2>2. PICK m \in LabelsOf(A, fs[i]) : lab[m] = c
      BY <2>1
    <2>3. m \in Name /\ m # l /\ new[m] = c
      BY <1>3, <2>2
    <2>4. CASE i = 1
      BY <1>1, <1>5, <2>1, <2>2, <2>3, <2>4
    <2>5. CASE i \in 2..Len(fs)
      BY <1>1, <1>5, <2>1, <2>2, <2>3, <2>5
    <2> QED BY <1>2, <2>4, <2>5
  <1>9. ASSUME NEW i \in 1..Len(gs), NEW m \in GotosOf(A, gs[i])
        PROVE  Awaited(A, gs, m) \/ (new[m] # 0 /\ Open(gs, i))
    <2>1. PICK j \in 1..Len(fs) : /\ m \in GotosOf(A, fs[j])
                                  /\ Open(fs, j) => Open(gs, i)
      <3>1. CASE i = 1
        BY <1>2, <1>5, <3>1 DEF Part
      <3>2. CASE i # 1
        BY <1>1, <1>2, <1>5, <3>2
      <3> QED BY <3>1, <3>2
    <2>2. m \in Name /\ (Awaited(A, fs, m) \/ (lab[m] # 0 /\ Open(fs, j)))
      BY <1>3, <2>1 DEF Waiting
    <2>3. CASE m # l
      BY <1>6, <2>1, <2>2, <2>3
    <2>4. CASE m = l
      <3>1. Todo(fs[j]) # {}
        BY <2>1 DEF GotosOf
      <3>2. A.depth[l] = V[j].depth /\ A.depth[l] = V[1].depth
        BY <1>2, <1>3, <2>1, <2>4, LabelDepth
      <3>3. Open(fs, j)
        <4>1. V[j].depth = V[1].depth
          BY <3>2
        <4>2. Len(fs) \in Nat \ {0}
          BY <1>1
        <4> QED BY <3>1, <4>1, <4>2, OpenAtDepth
      <3> QED BY <2>1, <2>4, <3>3
    <2> QED BY <2>3, <2>4
  <1> QED BY <1>7, <1>8, <1>9 DEF Waiting

(***************************************************************************)
(* The names.                                                              *)
(***************************************************************************)
NamesOfItems(W, n, gs, new) ==
    \A i \in 1..n : \A m \in W[i].names :
        \/ Known(new, m, W[i])
        \/ \E k \in 1..n : /\ k < i /\ Body(gs[k]) /\ gs[k].s.name = m
                           /\ W[k].scopes <= W[i].scopes
NamesOfOthers(V, fs, sc, new) ==
    /\ \A j \in 2..Len(fs) : \A m \in V[j].names :
          Known(sc, m, V[j]) => Known(new, m, V[j])
    /\ Body(fs[1]) => \A j \in 2..Len(fs) :
          V[1].scopes <= V[j].scopes => Known(new, fs[1].s.name, V[j])

(* The names that a step has to know are those of the items and of what is *)
(* below them.                                                             *)
LEMMA NamesKept ==
    ASSUME NEW V, NEW W, NEW n, NEW fs, NEW gs, Moved(V, W, n, fs, gs),
           NEW sc, NEW new, NamesFit(V, fs, sc),
           NamesOfItems(W, n, gs, new), NamesOfOthers(V, fs, sc, new)
    PROVE  NamesFit(W, gs, new)
  <1>1. /\ n \in Nat /\ Len(fs) \in Nat \ {0} /\ 1..n \subseteq 1..Len(gs)
        /\ \A i \in 1..Len(gs) : i \in 1..n \/ \E j \in 2..Len(fs) :
              i = j + n - 1 /\ gs[i] = fs[j] /\ W[i] = V[j]
        /\ \A j \in 2..Len(fs) : /\ j + n - 1 \in 1..Len(gs) /\ gs[j + n - 1] = fs[j]
                                 /\ W[j + n - 1] = V[j]
    BY DEF Moved
  <1> SUFFICES ASSUME NEW i \in 1..Len(gs), NEW m \in W[i].names, ~Known(new, m, W[i])
               PROVE  \E k \in 1..Len(gs) : /\ k < i /\ Body(gs[k]) /\ gs[k].s.name = m
                                            /\ W[k].scopes <= W[i].scopes
    BY DEF NamesFit
  <1>2. CASE i \in 1..n
    BY <1>1, <1>2 DEF NamesOfItems
  <1>3. CASE i \notin 1..n
    <2>1. PICK j \in 2..Len(fs) : i = j + n - 1 /\ W[i] = V[j]
      BY <1>1, <1>3
    <2>2. j \in 1..Len(fs) /\ m \in V[j].names /\ ~Known(new, m, V[j])
      BY <1>1, <2>1
    <2>3. ~Known(sc, m, V[j])
      BY <2>2 DEF NamesOfOthers
    <2>4. PICK k \in 1..Len(fs) : /\ k < j /\ Body(fs[k]) /\ fs[k].s.name = m
                                  /\ V[k].scopes <= V[j].scopes
      BY <2>2, <2>3 DEF NamesFit
    <2>5. k # 1
      BY <2>2, <2>4 DEF NamesOfOthers
    <2>6. k \in 2..Len(fs) /\ k + n - 1 < i
      BY <1>1, <2>1, <2>4, <2>5
    <2> QED BY <1>1, <2>1, <2>4, <2>6
  <1> QED BY <1>2, <1>3

(***************************************************************************)
(* Handlers of statements.                                                 *)
(***************************************************************************)
Plain(f) == f.k \notin {"endproc", "endblock"}

(* The items are a part of what the frame f was, in the same context c.    *)
Handed(A, f, c, items) ==
    /\ Plain(f) /\ ~Body(f)
    /\ \A i \in 1..Len(items) :
          /\ ~IsDecl(f) /\ Plain(items[i])
          /\ \A s \in Todo(items[i]) : <<s, c>> \in A.at /\ Statement(s)
          /\ LabelsOf(A, items[i]) \subseteq LabelsOf(A, f)
          /\ GotosOf(A, items[i]) \subseteq GotosOf(A, f)
    /\ \A i, j \in 1..Len(items) :
          i < j => LabelsOf(A, items[i]) \cap LabelsOf(A, items[j]) = {}

(* A statement does not begin a body.                                      *)
LEMMA StatementsAreInside ==
    ASSUME NEW f, Plain(f), \A s \in Todo(f) : Statement(s)
    PROVE  ~Divides(f) /\ ~IsDecl(f) /\ (f.k = "gen" => ~Declares(f.s))
  <1>1. f.k = "gen" => Statement(f.s)
    BY DEF Todo
  <1>2. f.k = "gen" => ~Declares(f.s)
    BY <1>1 DEF Statement, Declares, HasBody
  <1> QED BY <1>1, <1>2 DEF Plain, Divides, IsDecl, Statement

(* Items of the same context as the frame that they replace.               *)
LEMMA HandedCarries ==
    ASSUME NEW A, NEW f, NEW c \in Context, NEW d, NEW fns, Under(fns, f, c, d),
           NEW items, Len(items) \in Nat, Handed(A, f, c, items)
    PROVE  /\ Carries(A, fns, f, c, d, items, [i \in Nat |-> c])
           /\ \A i \in 1..Len(items) : Part(A, f, items[i])
  <1> DEFINE K == [i \in Nat |-> c]
  <1>1. c.depth \in Nat /\ c.scopes \in Nat
    BY DEF Context
  <1>2. \A i \in Nat : K[i] = c
    OBVIOUS
  <1> HIDE DEF K
  <1>3. d.scopes = c.scopes /\ d.owner = c.owner
    BY DEF Handed, Plain, Under
  <1>4. ASSUME NEW i \in 1..Len(items)
        PROVE  /\ Plain(items[i]) /\ ~IsDecl(f) /\ ~Divides(items[i])
               /\ Judged(A, items[i], c) /\ K[i] = c
               /\ items[i].k = "gen" => ~Declares(items[i].s)
               /\ LabelsOf(A, items[i]) \subseteq LabelsOf(A, f)
               /\ GotosOf(A, items[i]) \subseteq GotosOf(A, f)
    <2>1. /\ Plain(items[i]) /\ ~IsDecl(f) /\ i \in Nat
          /\ \A s \in Todo(items[i]) : <<s, c>> \in A.at /\ Statement(s)
          /\ LabelsOf(A, items[i]) \subseteq LabelsOf(A, f)
          /\ GotosOf(A, items[i]) \subseteq GotosOf(A, f)
      BY DEF Handed
    <2>2. Judged(A, items[i], c)
      BY <2>1 DEF Judged, Plain
    <2> QED BY <1>2, <2>1, <2>2, StatementsAreInside
  <1>5. ASSUME NEW i \in 1..Len(items)
        PROVE  Under(fns, items[i], K[i], IF i = Len(items) THEN d ELSE K[i + 1])
    <2>1. i + 1 \in Nat /\ K[i] = c /\ K[i + 1] = c
      BY <1>2
    <2> QED BY <1>3, <1>4, <2>1 DEF Under, Plain
  <1>6. ASSUME NEW i \in 1..Len(items) PROVE Deeper(A, f, c, items[i], K[i])
    BY <1>1, <1>4 DEF Deeper, Plain
  <1>7. ASSUME NEW i \in 1..Len(items), NEW j \in 1..Len(items), i < j
        PROVE  Above(A, items[i], items[j], K[i], K[j])
    <2>1. LabelsOf(A, items[i]) \cap LabelsOf(A, items[j]) = {}
      BY <1>7 DEF Handed
    <2> QED BY <1>1, <1>4, <2>1 DEF Above, Plain
  <1>8. \A i \in 1..Len(items) : Part(A, f, items[i])
    BY <1>4 DEF Part
  <1> QED BY <1>4, <1>5, <1>6, <1>7, <1>8 DEF Carries, K

(* The stack after a handler, with the contexts K of the items.            *)
Follows(V, K, items, W, fs, gs) ==
    /\ W \in [Nat -> Context] /\ Moved(V, W, Len(items), fs, gs)
    /\ \A i \in 1..Len(items) : gs[i] = items[i] /\ W[i] = K[i]

(* There are such contexts.                                                *)
LEMMA StackMoved ==
    ASSUME IInv, work # <<>>, NEW V \in [Nat -> Context], NEW K \in [Nat -> Context],
           NEW items \in Seq(FrameSet), Continue(items)
    PROVE  \E W : Follows(V, K, items, W, work, work')
  <1>1. work \in Seq(FrameSet) /\ work' = items \o Tail(work)
    BY DEF IInv, Typed, TypeOK, Continue
  <1>2. Continued(V, K, items, work, items \o Tail(work))
    BY <1>1, ContextsPushed
  <1>3. PICK W \in [Nat -> Context] :
              /\ Pushed(V, W, Len(items), work, work')
              /\ \A i \in 1..Len(items) : work'[i] = items[i] /\ W[i] = K[i]
    BY <1>1, <1>2 DEF Continued
  <1>4. Moved(V, W, Len(items), work, work')
    BY <1>3, Moves
  <1> QED BY <1>3, <1>4 DEF Follows

(* The frame on top.                                                       *)
LEMMA TopIsFirst ==
    ASSUME IInv, work # <<>>
    PROVE  Top = work[1] /\ Len(work) \in Nat \ {0} /\ 1 \in 1..Len(work)
  <1>1. Head(work) = work[1] /\ Len(work) \in Nat \ {0}
    BY TailProperties DEF IInv, Typed, TypeOK
  <1> QED BY <1>1 DEF Top

(* What the invariant says of the top of the stack.                        *)
LEMMA TopSound ==
    ASSUME IInv, work # <<>>, NEW A, NEW V \in [Nat -> Context], Sound(A, V)
    PROVE  /\ V[1] \in Context /\ V[2] \in Context
           /\ Judged(A, Top, V[1]) /\ Under(funcs, Top, V[1], V[2])
           /\ V[1].scopes = Len(scopes) /\ funcs[curFunc] = V[1].owner
           /\ \A j \in 2..Len(work) : Above(A, Top, work[j], V[1], V[j])
  <1>1. Top = work[1] /\ 1 \in 1..Len(work) /\ Len(work) \in Nat /\ 1 + 1 = 2
    BY TopIsFirst
  <1>2. \A j \in 2..Len(work) : j \in 1..Len(work) /\ 1 < j
    BY <1>1
  <1> QED BY <1>1, <1>2 DEF Sound, Nesting, Stacked

(* What a handler of a statement leaves.                                   *)
LEMMA HandedOn ==
    ASSUME IInv, work # <<>>, NEW A, Reading(A), NEW V \in [Nat -> Context], Sound(A, V),
           NEW items \in Seq(FrameSet), Continue(items), Handed(A, Top, V[1], items),
           FunctionUnchanged, UNCHANGED scopes
    PROVE  \E W \in [Nat -> Context] :
              /\ Moved(V, W, Len(items), work, work')
              /\ \A i \in 1..Len(items) : /\ work'[i] = items[i]
                                          /\ Part(A, work[1], work'[i])
              /\ Nesting(A, W)' /\ NamesFit(W, work', scopes')
  <1> DEFINE c == V[1]
             K == [i \in Nat |-> c]
             n == Len(items)
  <1>1. /\ V[1] \in Context /\ V[2] \in Context
        /\ Judged(A, Top, V[1]) /\ Under(funcs, Top, V[1], V[2])
        /\ V[1].scopes = Len(scopes) /\ funcs[curFunc] = V[1].owner
    BY TopSound
  <1>2. Top = work[1] /\ Len(work) \in Nat \ {0} /\ 1 \in 1..Len(work)
    BY TopIsFirst
  <1>3. n \in Nat
    BY LenProperties
  <1>4. K \in [Nat -> Context] /\ \A i \in Nat : K[i] = V[1]
    BY <1>1
  <1>5. /\ Carries(A, funcs, Top, V[1], V[2], items, K)
        /\ \A i \in 1..n : Part(A, Top, items[i])
    BY <1>1, <1>3, HandedCarries
  <1> HIDE DEF K
  <1>6. PICK W \in [Nat -> Context] :
              /\ Moved(V, W, Len(items), work, work')
              /\ \A i \in 1..Len(items) : work'[i] = items[i] /\ W[i] = K[i]
    <2>1. K \in [Nat -> Context]
      BY <1>4
    <2>2. PICK W : Follows(V, K, items, W, work, work')
      BY <2>1, StackMoved
    <2> QED BY <2>2 DEF Follows
  <1>7. Stacked(A, funcs, W, work')
    <2>1. Stacked(A, funcs, V, work)
      BY DEF Sound, Nesting
    <2>2. Carries(A, funcs, work[1], V[1], V[2], items, K)
      BY <1>2, <1>5
    <2> QED BY <1>6, <2>1, <2>2, StackedKept
  <1>8. \A i \in 1..n : W[i] = V[1]
    BY <1>3, <1>4, <1>6
  <1>9. W[1].scopes = Len(scopes) /\ W[1].owner = funcs[curFunc]
    <2>1. CASE n = 0
      <3>1. W[1] = V[2]
        BY <1>6, <2>1 DEF Moved
      <3>2. V[2].scopes = V[1].scopes /\ V[2].owner = V[1].owner
        BY <1>1 DEF Under, Handed, Plain
      <3> QED BY <1>1, <3>1, <3>2
    <2>2. CASE n # 0
      <3>1. 1 \in 1..n
        BY <1>3, <2>2
      <3> QED BY <1>1, <1>8, <3>1
    <2> QED BY <2>1, <2>2
  <1>10. Nesting(A, W)'
    BY <1>7, <1>9 DEF Nesting, FunctionUnchanged
  <1>11. NamesFit(W, work', scopes')
    <2>1. NamesFit(V, work, scopes)
      BY DEF Sound
    <2>2. ASSUME NEW i \in 1..n, NEW m \in W[i].names PROVE Known(scopes, m, W[i])
      <3>1. m \in V[1].names /\ W[i] = V[1]
        BY <1>8
      <3>2. \A k \in 1..Len(work) : ~(k < 1)
        OBVIOUS
      <3> QED BY <1>2, <2>1, <3>1, <3>2 DEF NamesFit
    <2>3. ~Body(work[1])
      BY <1>2 DEF Handed
    <2>4. NamesFit(W, work', scopes)
      <3>1. NamesOfItems(W, Len(items), work', scopes)
        BY <2>2 DEF NamesOfItems
      <3>2. NamesOfOthers(V, work, scopes, scopes)
        BY <2>3 DEF NamesOfOthers
      <3> QED BY <1>6, <2>1, <3>1, <3>2, NamesKept
    <2> QED BY <2>4
  <1> QED BY <1>2, <1>5, <1>6, <1>10, <1>11

(* If the labels are all still to be placed, nothing is wrong with them.   *)
Whole(A, f, items) ==
    \A l \in LabelsOf(A, f) : \E i \in 1..Len(items) : l \in LabelsOf(A, items[i])

(* The same, when the labels that were awaited still are.                  *)
LEMMA HandedWhole ==
    ASSUME IInv, work # <<>>, NEW A, Reading(A), NEW V \in [Nat -> Context], Sound(A, V),
           NEW items \in Seq(FrameSet), Continue(items), Handed(A, Top, V[1], items),
           Whole(A, Top, items), FunctionUnchanged, LabelsUnchanged, UNCHANGED scopes
    PROVE  \E W \in [Nat -> Context] : Sound(A, W)'
  <1>1. Top = work[1]
    BY TopIsFirst
  <1>2. PICK W \in [Nat -> Context] :
              /\ Moved(V, W, Len(items), work, work')
              /\ \A i \in 1..Len(items) : /\ work'[i] = items[i]
                                          /\ Part(A, work[1], work'[i])
              /\ Nesting(A, W)' /\ NamesFit(W, work', scopes')
    BY HandedOn
  <1>3. relabelled = {} /\ OneEach(labels) /\ Waiting(A, work, labels, pending)
    BY DEF Sound, LabelsFit
  <1>4. \A l \in LabelsOf(A, work[1]) :
            \E i \in 1..Len(items) : l \in LabelsOf(A, work'[i])
    BY <1>1, <1>2 DEF Whole
  <1>5. Waiting(A, work', labels, pending)
    BY <1>2, <1>3, <1>4, WaitingKept
  <1>6. LabelsFit(A)'
    BY <1>3, <1>5 DEF LabelsFit, LabelsUnchanged, OneEach
  <1> QED BY <1>2, <1>6 DEF Sound

(***************************************************************************)
(* What handlers push.                                                     *)
(***************************************************************************)
Settled(A, V) == Reading(A) /\ V \in [Nat -> Context] /\ Sound(A, V)
Resettled(A)  == \E V \in [Nat -> Context] : Sound(A, V)

(* The children of a statement are statements, in the same context.        *)
LEMMA ChildPlaced ==
    ASSUME NEW A, Reading(A), NEW s, NEW c, <<s, c>> \in A.at,
           s.kind \notin {"Block", "Proc"}, NEW d \in Children(s)
    PROVE  /\ <<d, c>> \in A.at /\ Statement(d)
           /\ A.labels[d] \subseteq A.labels[s] /\ A.gotos[d] \subseteq A.gotos[s]
  <1>1. ChildrenPlaced(A, s, c) /\ LabelsPlaced(A, s, c)
    BY DEF Reading
  <1>2. <<d, c>> \in A.at /\ Statement(d)
    BY <1>1 DEF ChildrenPlaced, HasBody
  <1>3. A.labels[d] \subseteq A.labels[s] /\ A.gotos[d] \subseteq A.gotos[s]
    BY <1>1 DEF LabelsPlaced
  <1> QED BY <1>2, <1>3

(* A node on top of the stack.                                             *)
LEMMA NodeOnTop ==
    ASSUME IInv, work # <<>>, NEW A, NEW V, Settled(A, V), Top.k = "gen"
    PROVE  /\ Top.s \in Node /\ V[1] \in Context /\ <<Top.s, V[1]>> \in A.at
           /\ Todo(Top) = {Top.s}
           /\ LabelsOf(A, Top) = A.labels[Top.s] /\ GotosOf(A, Top) = A.gotos[Top.s]
           /\ Plain(Top)
           /\ Top.s.kind # "Proc" => ~Body(Top) /\ ~IsDecl(Top)
  <1>1. Judged(A, Top, V[1]) /\ V[1] \in Context
    BY TopSound DEF Settled
  <1>2. Todo(Top) = {Top.s}
    BY DEF Todo
  <1>3. <<Top.s, V[1]>> \in A.at /\ Top.s \in Node
    BY <1>1, <1>2 DEF Judged, Settled, Reading
  <1> QED BY <1>1, <1>2, <1>3 DEF LabelsOf, GotosOf, Plain, Body, HasBody, IsDecl

(* A handler that returns and had nothing left to generate.                *)
LEMMA ReturnsSettled ==
    ASSUME IInv, work # <<>>, NEW A, NEW V, Settled(A, V),
           Continue(<<>>), LabelsOf(A, Top) = {}, Plain(Top), ~Body(Top),
           FunctionUnchanged, LabelsUnchanged, UNCHANGED scopes
    PROVE  Resettled(A)'
  <1> DEFINE items == <<>>
  <1>1. items \in Seq(FrameSet) /\ Len(items) = 0 /\ 1..Len(items) = {} /\ Continue(items)
    OBVIOUS
  <1> HIDE DEF items
  <1>2. Handed(A, Top, V[1], items) /\ Whole(A, Top, items)
    BY <1>1 DEF Handed, Whole
  <1>3. Reading(A) /\ V \in [Nat -> Context] /\ Sound(A, V)
    BY DEF Settled
  <1> QED BY <1>1, <1>2, <1>3, HandedWhole DEF Resettled

(* Two items.                                                              *)
LEMMA PairSettled ==
    ASSUME IInv, work # <<>>, NEW A, NEW V, Settled(A, V),
           NEW x \in FrameSet, NEW g \in FrameSet, Continue(<<x, g>>),
           Plain(Top), ~Body(Top), ~IsDecl(Top), Plain(x), Plain(g),
           \A s \in Todo(x) \cup Todo(g) : <<s, V[1]>> \in A.at /\ Statement(s),
           LabelsOf(A, Top) = LabelsOf(A, x) \cup LabelsOf(A, g),
           LabelsOf(A, x) \cap LabelsOf(A, g) = {},
           GotosOf(A, x) \cup GotosOf(A, g) \subseteq GotosOf(A, Top),
           FunctionUnchanged, LabelsUnchanged, UNCHANGED scopes
    PROVE  Resettled(A)'
  <1> DEFINE items == <<x, g>>
  <1>1. /\ items \in Seq(FrameSet) /\ Len(items) = 2 /\ items[1] = x /\ items[2] = g
        /\ 1..2 = {1, 2} /\ Continue(items)
    OBVIOUS
  <1> HIDE DEF items
  <1>2. Handed(A, Top, V[1], items)
    BY <1>1 DEF Handed
  <1>3. Whole(A, Top, items)
    BY <1>1 DEF Whole
  <1>4. Reading(A) /\ V \in [Nat -> Context] /\ Sound(A, V)
    BY DEF Settled
  <1> QED BY <1>1, <1>2, <1>3, <1>4, HandedWhole DEF Resettled

(* The statements of a list, each with its frame, and a frame behind them. *)
LEMMA ListSettled ==
    ASSUME IInv, work # <<>>, NEW A, NEW V, Settled(A, V), Top.k = "gen",
           Top.s.kind \in {"Do", "Repeat", "Case"},
           NEW us \in Seq(FrameSet), Len(us) = Len(Top.s.stmts),
           \A i \in 1..Len(us) : Plain(us[i]) /\ Todo(us[i]) = {Top.s.stmts[i]},
           NEW g \in FrameSet, Plain(g), Todo(g) = {}, Continue(us \o <<g>>),
           FunctionUnchanged, LabelsUnchanged, UNCHANGED scopes
    PROVE  Resettled(A)'
  <1> DEFINE items == us \o <<g>>
             s == Top.s
             n == Len(us)
  <1>1. /\ items \in Seq(FrameSet) /\ Len(items) = n + 1 /\ n \in Nat
        /\ \A i \in 1..n : items[i] = us[i]
        /\ items[n + 1] = g
    <2>1. <<g>> \in Seq(FrameSet) /\ Len(<<g>>) = 1 /\ DOMAIN <<g>> = {1} /\ <<g>>[1] = g
      OBVIOUS
    <2> QED BY <2>1, ConcatElements
  <1>2. Continue(items)
    OBVIOUS
  <1> HIDE DEF items
  <1>3. /\ s \in Node /\ <<s, V[1]>> \in A.at /\ LabelsOf(A, Top) = A.labels[s]
        /\ GotosOf(A, Top) = A.gotos[s] /\ Plain(Top) /\ ~Body(Top) /\ ~IsDecl(Top)
    BY NodeOnTop
  <1>4. s.stmts \in Seq(Node)
    BY <1>3, NodeAssumption DEF WellFormed, WellFormedNode, Optional
  <1>5. /\ DOMAIN s.stmts = 1..n /\ Children(s) = {s.stmts[i] : i \in 1..n}
    BY <1>4 DEF Children
  <1>6. Reading(A) /\ V \in [Nat -> Context] /\ Sound(A, V)
    BY DEF Settled
  <1>7. LabelsPlaced(A, s, V[1])
    BY <1>3, <1>6 DEF Reading
  <1>8. ASSUME NEW i \in 1..n
        PROVE  /\ items[i] = us[i] /\ Plain(items[i]) /\ Todo(items[i]) = {s.stmts[i]}
               /\ <<s.stmts[i], V[1]>> \in A.at /\ Statement(s.stmts[i])
               /\ LabelsOf(A, items[i]) = A.labels[s.stmts[i]]
               /\ GotosOf(A, items[i]) = A.gotos[s.stmts[i]]
               /\ A.labels[s.stmts[i]] \subseteq A.labels[s]
               /\ A.gotos[s.stmts[i]] \subseteq A.gotos[s]
    <2>1. /\ <<s.stmts[i], V[1]>> \in A.at /\ Statement(s.stmts[i])
          /\ A.labels[s.stmts[i]] \subseteq A.labels[s]
          /\ A.gotos[s.stmts[i]] \subseteq A.gotos[s]
      BY <1>3, <1>5, <1>6, ChildPlaced
    <2>2. items[i] = us[i] /\ Plain(us[i]) /\ Todo(us[i]) = {s.stmts[i]}
      BY <1>1
    <2>3. /\ LabelsOf(A, us[i]) = A.labels[s.stmts[i]]
          /\ GotosOf(A, us[i]) = A.gotos[s.stmts[i]]
      BY <2>2 DEF LabelsOf, GotosOf
    <2> QED BY <2>1, <2>2, <2>3
  <1>9. LabelsOf(A, g) = {} /\ GotosOf(A, g) = {}
    BY DEF LabelsOf, GotosOf
  <1>10. A.labels[s] = UNION {A.labels[d] : d \in Children(s)}
    BY <1>7 DEF LabelsPlaced
  <1> HIDE DEF s, n
  <1>11. \A i \in 1..Len(items) : i \in 1..n \/ (i \notin 1..n /\ items[i] = g)
    BY <1>1
  <1>12. \A i, j \in 1..Len(items) : i < j =>
            LabelsOf(A, items[i]) \cap LabelsOf(A, items[j]) = {}
    <2> SUFFICES ASSUME NEW i \in 1..Len(items), NEW j \in 1..Len(items), i < j
                 PROVE  LabelsOf(A, items[i]) \cap LabelsOf(A, items[j]) = {}
      OBVIOUS
    <2>1. CASE i \in 1..n /\ j \in 1..n
      <3>1. A.labels[s.stmts[i]] \cap A.labels[s.stmts[j]] = {}
        <4>1. i \in DOMAIN s.stmts /\ j \in DOMAIN s.stmts /\ i # j
          BY <1>5, <2>1
        <4>2. s.kind \in {"Do", "Repeat", "Case"}
          BY DEF s
        <4> QED BY <1>7, <4>1, <4>2 DEF LabelsPlaced
      <3> QED BY <1>8, <2>1, <3>1
    <2> QED BY <1>9, <1>11, <2>1
  <1>13. Handed(A, Top, V[1], items)
    <2>1. ASSUME NEW i \in 1..Len(items)
          PROVE  /\ ~IsDecl(Top) /\ Plain(items[i])
                 /\ \A t \in Todo(items[i]) : <<t, V[1]>> \in A.at /\ Statement(t)
                 /\ LabelsOf(A, items[i]) \subseteq LabelsOf(A, Top)
                 /\ GotosOf(A, items[i]) \subseteq GotosOf(A, Top)
      <3>1. CASE i \in 1..n
        <4> DEFINE t == s.stmts[i]
        <4>1. /\ Plain(items[i]) /\ Todo(items[i]) = {t}
              /\ <<t, V[1]>> \in A.at /\ Statement(t)
              /\ LabelsOf(A, items[i]) = A.labels[t] /\ A.labels[t] \subseteq A.labels[s]
              /\ GotosOf(A, items[i]) = A.gotos[t] /\ A.gotos[t] \subseteq A.gotos[s]
          BY <1>8, <3>1
        <4> HIDE DEF t
        <4> QED BY <1>3, <4>1
      <3>2. CASE items[i] = g
        BY <1>3, <1>9, <3>2
      <3> QED BY <1>11, <3>1, <3>2
    <2> QED BY <1>3, <1>12, <2>1 DEF Handed
  <1>14. Whole(A, Top, items)
    <2>1. 1..n \subseteq 1..Len(items)
      BY <1>1
    <2>2. ASSUME NEW l \in LabelsOf(A, Top)
          PROVE  \E i \in 1..Len(items) : l \in LabelsOf(A, items[i])
      <3>1. PICK i \in 1..n : l \in A.labels[s.stmts[i]]
        BY <1>3, <1>5, <1>10
      <3>2. LabelsOf(A, items[i]) = A.labels[s.stmts[i]]
        BY <1>8
      <3>3. i \in 1..Len(items)
        BY <2>1
      <3> QED BY <3>1, <3>2, <3>3
    <2> QED BY <2>2 DEF Whole
  <1> QED BY <1>1, <1>2, <1>6, <1>13, <1>14, HandedWhole DEF Resettled

(* Handlers that end, and statements that have no part.                    *)
LEMMA LeafOnTop ==
    ASSUME IInv, work # <<>>, NEW A, NEW V, Settled(A, V), Top.k = "gen",
           \/ Top.s.kind \in StraightLine \cup {"Call", "Return", "Goto"}
           \/ Top.s.kind = "Proc" /\ Top.s.forward
    PROVE  LabelsOf(A, Top) = {} /\ Plain(Top) /\ ~Body(Top)
  <1>1. /\ <<Top.s, V[1]>> \in A.at /\ LabelsOf(A, Top) = A.labels[Top.s] /\ Plain(Top)
        /\ Top.s.kind # "Proc" => ~Body(Top)
    BY NodeOnTop
  <1>2. LabelsPlaced(A, Top.s, V[1])
    BY <1>1 DEF Settled, Reading
  <1>3. CASE Top.s.kind \in StraightLine \cup {"Call", "Return", "Goto"}
    <2>1. Children(Top.s) = {}
      BY <1>3 DEF Children, StraightLine
    <2> QED BY <1>1, <1>2, <1>3, <2>1 DEF LabelsPlaced, StraightLine
  <1>4. CASE Top.s.kind = "Proc" /\ Top.s.forward
    BY <1>1, <1>2, <1>4 DEF LabelsPlaced, Body, HasBody
  <1> QED BY <1>3, <1>4

(* Statements without sub-statements.                                      *)
LEMMA LeavesSettled ==
    ASSUME IInv, NEW A, NEW V, Settled(A, V),
           GenStraightLine \/ GenReturn \/ GenForward \/ (GenCall /\ status' # "error")
    PROVE  Resettled(A)'
  <1>1. /\ work # <<>> /\ Top.k = "gen" /\ Continue(<<>>)
        /\ FunctionUnchanged /\ LabelsUnchanged /\ UNCHANGED scopes
        /\ \/ Top.s.kind \in StraightLine \cup {"Call", "Return", "Goto"}
           \/ Top.s.kind = "Proc" /\ Top.s.forward
    BY DEF GenStraightLine, GenReturn, GenForward, GenCall, AtNode, OnlyBlocks
  <1> QED BY <1>1, LeafOnTop, ReturnsSettled

(* Ends of statements, which generate nothing more.                        *)
LEMMA EndsSettled ==
    ASSUME IInv, NEW A, NEW V, Settled(A, V),
           \/ EndElse \/ EndWhile \/ EndFor \/ EndDo \/ EndRepeat \/ EndArm \/ EndCase
           \/ (EndThen /\ Top.s.alt = <<>>)
    PROVE  Resettled(A)'
  <1>1. /\ work # <<>> /\ Continue(<<>>)
        /\ FunctionUnchanged /\ LabelsUnchanged /\ UNCHANGED scopes
        /\ \/ Top.k \in {"endelse", "endwhile", "endfor", "enddo", "endrepeat",
                         "endarm", "endcase"}
           \/ Top.k = "endthen" /\ Top.s.alt = <<>>
    BY DEF EndElse, EndWhile, EndFor, EndDo, EndRepeat, EndArm, EndCase, EndThen,
           AtFrame, OnlyBlocks
  <1>2. Todo(Top) = {}
    <2>1. DOMAIN <<>> = {}
      OBVIOUS
    <2> QED BY <1>1, <2>1 DEF Todo
  <1>3. LabelsOf(A, Top) = {} /\ Plain(Top) /\ ~Body(Top)
    BY <1>1, <1>2 DEF LabelsOf, Plain, Body
  <1> QED BY <1>1, <1>3, ReturnsSettled

(* The frames that are pushed, as far as they matter here.                 *)
LEMMA EndFramed ==
    ASSUME NEW k \in {"endelse", "endwhile", "endfor", "enddo", "endrepeat", "endarm",
                      "endcase"},
           NEW s \in Node, NEW g,
           \E to, owed \in Seq(Nat) : g = Frame(k, s, to, owed)
    PROVE  g \in FrameSet /\ g.k = k /\ Plain(g) /\ Todo(g) = {}
  BY DEF Frame, FrameSet, FrameKinds, Todo, Plain

(* The frame of a node.                                                    *)
LEMMA GenFramed ==
    ASSUME NEW s \in Node, NEW A
    PROVE  /\ Gen(s) \in FrameSet /\ Gen(s).k = "gen" /\ Gen(s).s = s
           /\ Plain(Gen(s)) /\ Todo(Gen(s)) = {s}
           /\ LabelsOf(A, Gen(s)) = A.labels[s] /\ GotosOf(A, Gen(s)) = A.gotos[s]
  <1>1. /\ Gen(s) \in FrameSet /\ Gen(s).k = "gen" /\ Gen(s).s = s
        /\ Plain(Gen(s)) /\ Todo(Gen(s)) = {s}
    BY DEF Gen, Frame, FrameSet, FrameKinds, Todo, Plain
  <1> QED BY <1>1 DEF LabelsOf, GotosOf

(* The one statement of a loop, an arm or a label is generated next.       *)
LEMMA OneSettled ==
    ASSUME IInv, work # <<>>, NEW A, NEW V, Settled(A, V),
           Plain(Top), ~Body(Top), ~IsDecl(Top),
           NEW x \in Node, <<x, V[1]>> \in A.at, Statement(x),
           LabelsOf(A, Top) = A.labels[x], A.gotos[x] \subseteq GotosOf(A, Top),
           NEW g \in FrameSet, Plain(g), Todo(g) = {}, Continue(<<Gen(x), g>>),
           FunctionUnchanged, LabelsUnchanged, UNCHANGED scopes
    PROVE  Resettled(A)'
  <1>1. /\ Gen(x) \in FrameSet /\ Plain(Gen(x)) /\ Todo(Gen(x)) = {x}
        /\ LabelsOf(A, Gen(x)) = A.labels[x] /\ GotosOf(A, Gen(x)) = A.gotos[x]
    BY GenFramed
  <1> DEFINE y == Gen(x)
  <1>2. Continue(<<y, g>>)
    OBVIOUS
  <1>3. LabelsOf(A, g) = {} /\ GotosOf(A, g) = {}
    BY DEF LabelsOf, GotosOf
  <1>4. \A s \in Todo(y) \cup Todo(g) : <<s, V[1]>> \in A.at /\ Statement(s)
    BY <1>1
  <1> HIDE DEF y
  <1>5. /\ y \in FrameSet /\ Plain(y)
        /\ LabelsOf(A, Top) = LabelsOf(A, y) \cup LabelsOf(A, g)
        /\ LabelsOf(A, y) \cap LabelsOf(A, g) = {}
        /\ GotosOf(A, y) \cup GotosOf(A, g) \subseteq GotosOf(A, Top)
    BY <1>1, <1>3 DEF y
  <1> QED BY <1>2, <1>4, <1>5, PairSettled

(* WHILE and FOR generate their body next.                                 *)
LEMMA LoopsSettled ==
    ASSUME IInv, NEW A, NEW V, Settled(A, V), GenWhile \/ GenFor
    PROVE  Resettled(A)'
  <1>1. /\ work # <<>> /\ Top.k = "gen" /\ Top.s.kind \in {"While", "For"}
        /\ FunctionUnchanged /\ LabelsUnchanged /\ UNCHANGED scopes
    BY DEF GenWhile, GenFor, AtNode, OnlyBlocks
  <1>2. PICK k \in {"endwhile", "endfor"} :
            Continue(<<Gen(Top.s.stmts[1]), Frame(k, Top.s, <<Fresh(1)>>, <<Fresh(3)>>)>>)
    BY DEF GenWhile, GenFor
  <1>3. Fresh(1) \in Nat /\ Fresh(3) \in Nat
    BY <1>1, LenProperties DEF IInv, Typed, TypeOK, Fresh
  <1>4. /\ Top.s \in Node /\ <<Top.s, V[1]>> \in A.at
        /\ LabelsOf(A, Top) = A.labels[Top.s] /\ GotosOf(A, Top) = A.gotos[Top.s]
        /\ Plain(Top) /\ ~Body(Top) /\ ~IsDecl(Top)
    BY <1>1, NodeOnTop
  <1>5. Top.s.stmts \in Seq(Node) /\ Len(Top.s.stmts) = 1
    BY <1>1, <1>4, NodeAssumption DEF WellFormed, WellFormedNode
  <1>6. Top.s.stmts[1] \in Node /\ Children(Top.s) = {Top.s.stmts[1]}
    BY <1>1, <1>5 DEF Children
  <1>7. /\ <<Top.s.stmts[1], V[1]>> \in A.at /\ Statement(Top.s.stmts[1])
        /\ A.gotos[Top.s.stmts[1]] \subseteq A.gotos[Top.s]
    BY <1>1, <1>4, <1>6, ChildPlaced DEF Settled
  <1>8. A.labels[Top.s] = A.labels[Top.s.stmts[1]]
    <2>1. LabelsPlaced(A, Top.s, V[1])
      BY <1>4 DEF Settled, Reading
    <2>2. A.labels[Top.s] = UNION {A.labels[d] : d \in Children(Top.s)}
      BY <1>1, <2>1 DEF LabelsPlaced
    <2> QED BY <1>6, <2>2
  <1> DEFINE g == Frame(k, Top.s, <<Fresh(1)>>, <<Fresh(3)>>)
  <1>9. g \in FrameSet /\ Plain(g) /\ Todo(g) = {}
    <2>1. k \in {"endelse", "endwhile", "endfor", "enddo", "endrepeat", "endarm", "endcase"}
      BY <1>2
    <2>2. \E to, owed \in Seq(Nat) : g = Frame(k, Top.s, to, owed)
      <3>1. <<Fresh(1)>> \in Seq(Nat) /\ <<Fresh(3)>> \in Seq(Nat)
        BY <1>3
      <3> QED BY <3>1
    <2> HIDE DEF g
    <2> QED BY <1>4, <2>1, <2>2, EndFramed
  <1>10. Continue(<<Gen(Top.s.stmts[1]), g>>)
    BY <1>2
  <1> HIDE DEF g
  <1> QED BY <1>1, <1>4, <1>6, <1>7, <1>8, <1>9, <1>10, OneSettled

(* IF generates its THEN part and owes the ELSE part.                      *)
LEMMA GenIfSettled ==
    ASSUME IInv, NEW A, NEW V, Settled(A, V), GenIf PROVE Resettled(A)'
  <1> DEFINE s == Top.s
             owed == IF s.alt = <<>> THEN <<Fresh(2)>> ELSE <<Fresh(2), Fresh(3)>>
             g == Frame("endthen", s, <<>>, owed)
  <1>1. /\ work # <<>> /\ Top.k = "gen" /\ s.kind = "If"
        /\ FunctionUnchanged /\ LabelsUnchanged /\ UNCHANGED scopes
        /\ Continue(<<Gen(s.stmts[1]), g>>)
    BY DEF GenIf, AtNode, OnlyBlocks
  <1>2. Fresh(2) \in Nat /\ Fresh(3) \in Nat
    BY <1>1, LenProperties DEF IInv, Typed, TypeOK, Fresh
  <1>3. /\ s \in Node /\ <<s, V[1]>> \in A.at
        /\ LabelsOf(A, Top) = A.labels[s] /\ GotosOf(A, Top) = A.gotos[s]
        /\ Plain(Top) /\ ~Body(Top) /\ ~IsDecl(Top)
    BY <1>1, NodeOnTop
  <1>4. s.stmts \in Seq(Node) /\ Len(s.stmts) = 1 /\ s.alt \in Optional(Node)
    BY <1>1, <1>3, NodeAssumption DEF WellFormed, WellFormedNode
  <1>5. /\ s.stmts[1] \in Node
        /\ Children(s) = {s.stmts[1]} \cup {s.alt[i] : i \in DOMAIN s.alt}
    BY <1>1, <1>4 DEF Children
  <1>6. g \in FrameSet /\ Plain(g) /\ Todo(g) = {s.alt[i] : i \in DOMAIN s.alt}
    <2>1. owed \in Seq(Nat) /\ "endthen" \in FrameKinds
      BY <1>2 DEF FrameKinds
    <2> HIDE DEF owed
    <2>2. g \in FrameSet /\ g.k = "endthen" /\ g.s = s
      BY <1>3, <2>1 DEF Frame, FrameSet
    <2> QED BY <2>2 DEF Todo, Plain
  <1> DEFINE x == Gen(s.stmts[1])
  <1>7. /\ x \in FrameSet /\ Plain(x) /\ Todo(x) = {s.stmts[1]}
        /\ LabelsOf(A, x) = A.labels[s.stmts[1]] /\ GotosOf(A, x) = A.gotos[s.stmts[1]]
    BY <1>5, GenFramed
  <1>8. Continue(<<x, g>>)
    BY <1>1
  <1> HIDE DEF x, g
  <1>9. \A d \in Children(s) : /\ <<d, V[1]>> \in A.at /\ Statement(d)
                               /\ A.gotos[d] \subseteq A.gotos[s]
    BY <1>1, <1>3, ChildPlaced DEF Settled
  <1>10. Children(s) = Todo(x) \cup Todo(g)
    BY <1>5, <1>6, <1>7
  <1>11. LabelsPlaced(A, s, V[1])
    BY <1>3 DEF Settled, Reading
  <1>12. A.labels[s] = UNION {A.labels[d] : d \in Children(s)}
    BY <1>1, <1>11 DEF LabelsPlaced
  <1>13. LabelsOf(A, Top) = LabelsOf(A, x) \cup LabelsOf(A, g)
    BY <1>3, <1>10, <1>12 DEF LabelsOf
  <1>14. GotosOf(A, x) \cup GotosOf(A, g) \subseteq GotosOf(A, Top)
    BY <1>3, <1>9, <1>10 DEF GotosOf
  <1>15. LabelsOf(A, x) \cap LabelsOf(A, g) = {}
    <2>1. \A i \in DOMAIN s.alt : A.labels[s.stmts[1]] \cap A.labels[s.alt[i]] = {}
      BY <1>1, <1>11 DEF LabelsPlaced
    <2> QED BY <1>6, <1>7, <2>1 DEF LabelsOf
  <1> HIDE DEF s
  <1> QED BY <1>1, <1>3, <1>6, <1>7, <1>8, <1>9, <1>10, <1>13, <1>14, <1>15, PairSettled

(* After the THEN part comes the ELSE part, if there is one.               *)
LEMMA EndThenSettled ==
    ASSUME IInv, NEW A, NEW V, Settled(A, V), EndThen PROVE Resettled(A)'
  <1> DEFINE s == Top.s
             x == s.alt[1]
             g == Frame("endelse", s, <<>>, <<Top.owed[1]>>)
  <1>1. /\ work # <<>> /\ Top.k = "endthen" /\ status = "generating"
        /\ FunctionUnchanged /\ LabelsUnchanged /\ UNCHANGED scopes
        /\ s.alt # <<>> => Continue(<<Gen(x), g>>)
    BY DEF EndThen, AtFrame, OnlyBlocks
  <1>2. CASE s.alt = <<>>
    BY <1>2, EndsSettled
  <1>3. CASE s.alt # <<>>
    <2>1. /\ s \in Node /\ s.kind = "If" /\ Top.owed \in Seq(Nat)
          /\ Len(Top.owed) = 2 /\ s.alt \in Optional(Node)
      BY <1>1, <1>3, Begin DEF FrameOK, NodeOf, WellFormedNode, FrameSet
    <2>2. Top.owed[1] \in Nat /\ s.alt \in Seq(Node) /\ x \in Node /\ DOMAIN s.alt = {1}
      BY <1>3, <2>1 DEF Optional
    <2>3. g \in FrameSet /\ Plain(g) /\ Todo(g) = {}
      <3>1. <<Top.owed[1]>> \in Seq(Nat) /\ <<>> \in Seq(Nat)
        BY <2>2
      <3>2. \E to, owed \in Seq(Nat) : g = Frame("endelse", s, to, owed)
        BY <3>1
      <3> HIDE DEF g, s
      <3> QED BY <2>1, <3>2, EndFramed
    <2>4. Todo(Top) = {x} /\ Plain(Top) /\ ~Body(Top) /\ ~IsDecl(Top)
      BY <1>1, <2>2 DEF Todo, Plain, Body, IsDecl
    <2>5. LabelsOf(A, Top) = A.labels[x] /\ GotosOf(A, Top) = A.gotos[x]
      BY <2>4 DEF LabelsOf, GotosOf
    <2>6. <<x, V[1]>> \in A.at /\ Statement(x)
      <3>1. Judged(A, Top, V[1])
        BY <1>1, TopSound DEF Settled
      <3> QED BY <1>1, <2>4, <3>1 DEF Judged
    <2> HIDE DEF x, g
    <2> QED BY <1>1, <1>3, <2>2, <2>3, <2>4, <2>5, <2>6, OneSettled
  <1> QED BY <1>2, <1>3

(* An arm of a CASE generates its statement.                               *)
LEMMA GenArmSettled ==
    ASSUME IInv, NEW A, NEW V, Settled(A, V), GenArm PROVE Resettled(A)'
  <1> DEFINE s == Top.s
             x == s.stmts[Top.to[3]]
             g == Frame("endarm", s, <<Top.to[4]>>, <<>>)
  <1>1. /\ work # <<>> /\ Top.k = "arm" /\ status = "generating"
        /\ FunctionUnchanged /\ LabelsUnchanged /\ UNCHANGED scopes
        /\ Continue(<<Gen(x), g>>)
    BY DEF GenArm, AtFrame, OnlyBlocks
  <1>2. /\ s \in Node /\ s.kind = "Case" /\ Top.to \in Seq(Nat) /\ Len(Top.to) = 4
        /\ s.stmts \in Seq(Node) /\ Top.to[3] \in DOMAIN s.stmts
    <2>1. /\ Top \in FrameSet /\ FrameOK(Top, Len(blocks), Len(funcs))
          /\ s \in Node /\ WellFormedNode(s, Node, Name, Expr)
      BY <1>1, Begin
    <2>2. s.kind = "Case" /\ Top.to \in Seq(Nat) /\ Len(Top.to) = 4
          /\ Top.to[3] \in DOMAIN s.stmts
      BY <1>1, <2>1 DEF FrameOK, NodeOf, FrameSet
    <2> QED BY <2>1, <2>2 DEF WellFormedNode
  <1>3. Top.to[4] \in Nat /\ x \in Node
    BY <1>2
  <1>4. g \in FrameSet /\ Plain(g) /\ Todo(g) = {}
    <2>1. <<Top.to[4]>> \in Seq(Nat) /\ <<>> \in Seq(Nat)
      BY <1>3
    <2>2. \E to, owed \in Seq(Nat) : g = Frame("endarm", s, to, owed)
      BY <2>1
    <2> HIDE DEF g, s
    <2> QED BY <1>2, <2>2, EndFramed
  <1>5. Todo(Top) = {x} /\ Plain(Top) /\ ~Body(Top) /\ ~IsDecl(Top)
    BY <1>1 DEF Todo, Plain, Body, IsDecl
  <1>6. LabelsOf(A, Top) = A.labels[x] /\ GotosOf(A, Top) = A.gotos[x]
    BY <1>5 DEF LabelsOf, GotosOf
  <1>7. <<x, V[1]>> \in A.at /\ Statement(x)
    <2>1. Judged(A, Top, V[1])
      BY <1>1, TopSound DEF Settled
    <2> QED BY <1>1, <1>5, <2>1 DEF Judged
  <1> HIDE DEF x, g
  <1> QED BY <1>1, <1>3, <1>4, <1>5, <1>6, <1>7, OneSettled

(* DO and REPEAT generate their statements one after another.              *)
LEMMA GenListSettled ==
    ASSUME IInv, NEW A, NEW V, Settled(A, V), GenDo \/ GenRepeat PROVE Resettled(A)'
  <1> DEFINE s == Top.s
             us == GenAll(s.stmts)
  <1>1. /\ work # <<>> /\ Top.k = "gen" /\ s.kind \in {"Do", "Repeat"}
        /\ status = "generating"
        /\ FunctionUnchanged /\ LabelsUnchanged /\ UNCHANGED scopes
    BY DEF GenDo, GenRepeat, AtNode, OnlyBlocks
  <1>2. s \in Node /\ s.stmts \in Seq(Node) /\ Len(blocks) \in Nat
    BY <1>1, Begin DEF WellFormedNode, Optional
  <1>3. \E g : /\ Continue(us \o <<g>>)
               /\ \E k \in {"enddo", "endrepeat"}, to, owed \in Seq(Nat) :
                     g = Frame(k, s, to, owed)
    <2>1. <<Fresh(1)>> \in Seq(Nat) /\ <<Fresh(2)>> \in Seq(Nat) /\ <<>> \in Seq(Nat)
      BY <1>2 DEF Fresh
    <2>2. CASE GenDo
      <3> DEFINE g == Frame("enddo", s, <<Fresh(1)>>, <<>>)
      <3>1. Continue(us \o <<g>>)
        BY <2>2 DEF GenDo
      <3> HIDE DEF us, s
      <3> QED BY <2>1, <3>1
    <2>3. CASE GenRepeat
      <3> DEFINE g == Frame("endrepeat", s, <<Fresh(1)>>, <<Fresh(2)>>)
      <3>1. Continue(us \o <<g>>)
        BY <2>3 DEF GenRepeat
      <3> HIDE DEF us, s
      <3> QED BY <2>1, <3>1
    <2> QED BY <2>2, <2>3
  <1>4. PICK g : /\ Continue(us \o <<g>>)
                 /\ \E k \in {"enddo", "endrepeat"}, to, owed \in Seq(Nat) :
                       g = Frame(k, s, to, owed)
    BY <1>3
  <1>5. g \in FrameSet /\ Plain(g) /\ Todo(g) = {}
    <2>1. PICK k \in {"enddo", "endrepeat"} :
              \E to, owed \in Seq(Nat) : g = Frame(k, s, to, owed)
      BY <1>4
    <2>2. k \in {"endelse", "endwhile", "endfor", "enddo", "endrepeat", "endarm", "endcase"}
      BY <2>1
    <2> HIDE DEF s
    <2> QED BY <1>2, <2>1, <2>2, EndFramed
  <1>6. us \in Seq(FrameSet) /\ Len(us) = Len(s.stmts)
        /\ \A i \in 1..Len(us) : us[i] = Gen(s.stmts[i]) /\ s.stmts[i] \in Node
    BY <1>2, GenAllFrames DEF GenNodes, GenAll
  <1>7. \A i \in 1..Len(us) : Plain(us[i]) /\ Todo(us[i]) = {s.stmts[i]}
    BY <1>6, GenFramed
  <1>8. Top.s.kind \in {"Do", "Repeat", "Case"} /\ Len(us) = Len(Top.s.stmts)
        /\ \A i \in 1..Len(us) : Plain(us[i]) /\ Todo(us[i]) = {Top.s.stmts[i]}
    BY <1>1, <1>6, <1>7
  <1> HIDE DEF us, s
  <1> QED BY <1>1, <1>4, <1>5, <1>6, <1>8, ListSettled

(* CASE leaves an arm for each of its statements.                          *)
LEMMA GenCaseSettled ==
    ASSUME IInv, NEW A, NEW V, Settled(A, V), GenCase PROVE Resettled(A)'
  <1> DEFINE s == Top.s
             at == Len(blocks[insert].ins) + 1
             us == [i \in 1..Len(s.stmts) |->
                        Frame("arm", s, <<insert, at, i, Fresh(2)>>, <<>>)]
             g == Frame("endcase", s, <<>>, <<Fresh(1), Fresh(2)>>)
  <1>1. /\ work # <<>> /\ Top.k = "gen" /\ s.kind = "Case" /\ status = "generating"
        /\ FunctionUnchanged /\ LabelsUnchanged /\ UNCHANGED scopes
        /\ Continue(us \o <<g>>)
    BY DEF GenCase, AtNode, OnlyBlocks
  <1>2. /\ s \in Node /\ s.stmts \in Seq(Node) /\ Len(blocks) \in Nat /\ insert \in Nat
        /\ blocks[insert] \in BlockSet
    <2>1. /\ s \in Node /\ WellFormedNode(s, Node, Name, Expr) /\ Len(blocks) \in Nat
          /\ insert \in 1..Len(blocks) /\ blocks \in Seq(BlockSet)
      BY <1>1, Begin
    <2> QED BY <1>1, <2>1 DEF WellFormedNode
  <1>3. at \in Nat /\ Fresh(1) \in Nat /\ Fresh(2) \in Nat /\ Len(s.stmts) \in Nat
    <2>1. blocks[insert].ins \in Seq(InstructionSet)
      BY <1>2 DEF BlockSet
    <2> QED BY <1>2, <2>1 DEF Fresh
  <1> HIDE DEF at
  <1>4. g \in FrameSet /\ Plain(g) /\ Todo(g) = {}
    <2>1. <<>> \in Seq(Nat) /\ <<Fresh(1), Fresh(2)>> \in Seq(Nat)
      BY <1>3
    <2>2. \E to, owed \in Seq(Nat) : g = Frame("endcase", s, to, owed)
      BY <2>1
    <2> HIDE DEF g, s
    <2> QED BY <1>2, <2>2, EndFramed
  <1>5. ASSUME NEW i \in 1..Len(s.stmts)
        PROVE  LET u == Frame("arm", s, <<insert, at, i, Fresh(2)>>, <<>>)
               IN u \in FrameSet /\ Plain(u) /\ Todo(u) = {s.stmts[i]}
    <2> DEFINE to == <<insert, at, i, Fresh(2)>>
               u == Frame("arm", s, to, <<>>)
    <2>1. to \in Seq(Nat) /\ to[3] = i /\ <<>> \in Seq(Nat) /\ "arm" \in FrameKinds
      BY <1>2, <1>3 DEF FrameKinds
    <2> HIDE DEF to, s
    <2>2. u \in FrameSet /\ u.k = "arm" /\ u.s = s /\ u.to = to
      BY <1>2, <2>1 DEF Frame, FrameSet
    <2> HIDE DEF u
    <2>3. Plain(u) /\ Todo(u) = {s.stmts[i]}
      BY <2>1, <2>2 DEF Plain, Todo
    <2> QED BY <2>2, <2>3 DEF u, to
  <1>6. us \in Seq(FrameSet) /\ Len(us) = Len(s.stmts)
        /\ \A i \in 1..Len(us) : Plain(us[i]) /\ Todo(us[i]) = {s.stmts[i]}
    BY <1>3, <1>5
  <1>7. Top.s.kind \in {"Do", "Repeat", "Case"} /\ Len(us) = Len(Top.s.stmts)
        /\ \A i \in 1..Len(us) : Plain(us[i]) /\ Todo(us[i]) = {Top.s.stmts[i]}
    BY <1>1, <1>6
  <1> HIDE DEF us, s, g
  <1> QED BY <1>1, <1>4, <1>6, <1>7, ListSettled

(***************************************************************************)
(* GOTOs and labels.                                                       *)
(***************************************************************************)
(* The blocks of labels_ and those announced are blocks, and a new one is  *)
(* none of them.                                                           *)
LEMMA FreshBlock ==
    ASSUME IInv
    PROVE  /\ Fresh(1) \in Nat /\ Fresh(1) # 0 /\ Fresh(1) \notin pending /\ 0 \notin pending
           /\ labels \in [Name -> Nat] /\ \A l \in Name : labels[l] # Fresh(1)
  <1>1. /\ Len(blocks) \in Nat /\ labels \in [Name -> Nat]
        /\ pending \subseteq 1..Len(blocks) /\ \A l \in Name : labels[l] \in 0..Len(blocks)
    BY LenProperties DEF IInv, Typed, TypeOK
  <1> QED BY <1>1 DEF Fresh

(* A node that is a statement begins no body.                              *)
LEMMA StatementOnTop ==
    ASSUME IInv, work # <<>>, NEW A, NEW V, Settled(A, V), Top.k = "gen",
           Top.s.kind \notin {"Block", "Proc"}
    PROVE  /\ work[1] = Top /\ ~Divides(Top) /\ ~IsDecl(Top)
  <1>1. Plain(Top) /\ Todo(Top) = {Top.s} /\ Top = work[1]
    BY NodeOnTop, TopIsFirst
  <1>2. \A s \in Todo(Top) : Statement(s)
    BY <1>1 DEF Statement
  <1> QED BY <1>1, <1>2, StatementsAreInside

(* The block a GOTO announces is that of a label still to come.            *)
LEMMA GenGotoSettled ==
    ASSUME IInv, NEW A, NEW V, Settled(A, V), GenGoto PROVE Resettled(A)'
  <1> DEFINE s == Top.s
             l == s.name
             new == Fresh(1)
  <1>1. /\ work # <<>> /\ Top.k = "gen" /\ s.kind = "Goto" /\ Continue(<<>>)
        /\ FunctionUnchanged /\ UNCHANGED <<scopes, relabelled>>
    BY DEF GenGoto, AtNode
  <1>2. LabelsOf(A, Top) = {} /\ Plain(Top) /\ ~Body(Top)
    BY <1>1, LeafOnTop
  <1>3. CASE labels[l] # 0
    <2>1. LabelsUnchanged
      BY <1>1, <1>3 DEF GenGoto, LabelsUnchanged
    <2> QED BY <1>1, <1>2, <2>1, ReturnsSettled
  <1>4. CASE labels[l] = 0
    <2>1. labels' = [labels EXCEPT ![l] = new] /\ pending' = pending \cup {new}
      BY <1>4 DEF GenGoto
    <2>2. /\ s \in Node /\ <<s, V[1]>> \in A.at /\ GotosOf(A, Top) = A.gotos[s]
          /\ work[1] = Top /\ ~Divides(Top) /\ ~IsDecl(Top)
      BY <1>1, NodeOnTop, StatementOnTop
    <2>3. l \in Name
      BY <1>1, <2>2, NodeAssumption DEF WellFormed, WellFormedNode
    <2>4. l \in GotosOf(A, Top)
      <3>1. LabelsPlaced(A, s, V[1])
        BY <2>2 DEF Settled, Reading
      <3> QED BY <1>1, <2>2, <3>1 DEF LabelsPlaced
    <2>5. Reading(A) /\ V \in [Nat -> Context] /\ Sound(A, V)
      BY DEF Settled
    <2> DEFINE items == <<>>
    <2>6. items \in Seq(FrameSet) /\ Len(items) = 0 /\ 1..Len(items) = {} /\ Continue(items)
      BY <1>1
    <2> HIDE DEF items
    <2>7. Handed(A, Top, V[1], items)
      BY <1>2, <2>6 DEF Handed
    <2>8. PICK W \in [Nat -> Context] :
                /\ Moved(V, W, Len(items), work, work')
                /\ Nesting(A, W)' /\ NamesFit(W, work', scopes')
      BY <1>1, <2>5, <2>6, <2>7, HandedOn
    <2>9. Stacked(A, funcs, V, work) /\ Waiting(A, work, labels, pending)
          /\ relabelled = {} /\ OneEach(labels)
      BY <2>5 DEF Sound, Nesting, LabelsFit
    <2>10. /\ new \in Nat /\ new # 0 /\ new \notin pending /\ 0 \notin pending
           /\ labels \in [Name -> Nat] /\ \A m \in Name : labels[m] # new
      BY FreshBlock
    <2> HIDE DEF new, l
    <2>11. Moved(V, W, 0, work, work')
      BY <2>6, <2>8
    <2>12. Waiting(A, work', labels', pending')
      <3>1. Waiting(A, work', [labels EXCEPT ![l] = new], pending \cup {new})
        BY <1>2, <1>4, <2>2, <2>3, <2>4, <2>5, <2>9, <2>10, <2>11, WaitingAnnounced
      <3> QED BY <2>1, <3>1
    <2>13. OneEach(labels)'
      BY <2>1, <2>3, <2>9, <2>10 DEF OneEach
    <2>14. LabelsFit(A)'
      BY <1>1, <2>9, <2>12, <2>13 DEF LabelsFit
    <2> QED BY <2>8, <2>14 DEF Sound, Resettled
  <1> QED BY <1>3, <1>4

(* A label is placed once: it is awaited nowhere else any more.            *)
LEMMA GenLabelSettled ==
    ASSUME IInv, NEW A, NEW V, Settled(A, V), GenLabel PROVE Resettled(A)'
  <1> DEFINE s == Top.s
             l == s.name
             x == s.stmts[1]
             b == labels[l]
  <1>1. /\ work # <<>> /\ Top.k = "gen" /\ s.kind = "Label" /\ Continue(<<Gen(x)>>)
        /\ FunctionUnchanged /\ UNCHANGED scopes
    BY DEF GenLabel, AtNode
  <1>2. /\ s \in Node /\ <<s, V[1]>> \in A.at /\ Todo(Top) = {s}
        /\ LabelsOf(A, Top) = A.labels[s] /\ GotosOf(A, Top) = A.gotos[s]
        /\ Plain(Top) /\ ~Body(Top)
        /\ work[1] = Top /\ ~Divides(Top) /\ ~IsDecl(Top)
    BY <1>1, NodeOnTop, StatementOnTop
  <1>3. s.stmts \in Seq(Node) /\ Len(s.stmts) = 1 /\ l \in Name
    BY <1>1, <1>2, NodeAssumption DEF WellFormed, WellFormedNode
  <1>4. x \in Node /\ Children(s) = {x}
    BY <1>1, <1>3 DEF Children
  <1>5. Reading(A) /\ V \in [Nat -> Context] /\ Sound(A, V)
    BY DEF Settled
  <1>6. /\ <<x, V[1]>> \in A.at /\ Statement(x)
        /\ A.labels[x] \subseteq A.labels[s] /\ A.gotos[x] \subseteq A.gotos[s]
    BY <1>1, <1>2, <1>4, <1>5, ChildPlaced
  <1>7. A.labels[s] = {l} \cup A.labels[x] /\ l \notin A.labels[x]
    <2>1. LabelsPlaced(A, s, V[1])
      BY <1>2, <1>5 DEF Reading
    <2>2. A.labels[s] = {l} \cup UNION {A.labels[d] : d \in Children(s)}
      BY <1>1, <2>1 DEF LabelsPlaced
    <2> QED BY <1>1, <1>4, <2>1, <2>2 DEF LabelsPlaced
  <1> DEFINE y == Gen(x)
  <1>8. /\ y \in FrameSet /\ Plain(y) /\ Todo(y) = {x}
        /\ LabelsOf(A, y) = A.labels[x] /\ GotosOf(A, y) = A.gotos[x]
    BY <1>4, GenFramed
  <1>9. Continue(<<y>>)
    BY <1>1
  <1> HIDE DEF y
  <1> DEFINE items == <<y>>
  <1>10. /\ items \in Seq(FrameSet) /\ Len(items) = 1 /\ 1..1 = {1} /\ items[1] = y
         /\ Continue(items)
    BY <1>8, <1>9
  <1> HIDE DEF items, x
  <1>11. Handed(A, Top, V[1], items)
    BY <1>2, <1>6, <1>8, <1>10 DEF Handed
  <1>12. PICK W \in [Nat -> Context] :
              /\ Moved(V, W, Len(items), work, work')
              /\ \A i \in 1..Len(items) : /\ work'[i] = items[i]
                                          /\ Part(A, work[1], work'[i])
              /\ Nesting(A, W)' /\ NamesFit(W, work', scopes')
    BY <1>1, <1>5, <1>10, <1>11, HandedOn
  <1>13. Moved(V, W, 1, work, work') /\ work'[1] = y /\ Part(A, work[1], work'[1])
    BY <1>10, <1>12
  <1>14. Stacked(A, funcs, V, work) /\ Waiting(A, work, labels, pending)
         /\ relabelled = {} /\ OneEach(labels)
    BY <1>5 DEF Sound, Nesting, LabelsFit
  <1>15. /\ Fresh(1) \in Nat /\ Fresh(1) # 0 /\ Fresh(1) \notin pending /\ 0 \notin pending
         /\ labels \in [Name -> Nat] /\ \A m \in Name : labels[m] # Fresh(1)
    BY FreshBlock
  <1>16. /\ b \in {0, labels'[l]} /\ labels'[l] # 0 /\ OneEach(labels)'
         /\ \A m \in Name : m # l => labels'[m] = labels[m]
         /\ pending' = pending \ {labels'[l]} /\ relabelled' = relabelled
    <2>1. CASE b # 0
      <3>1. labels' = labels /\ pending' = pending \ {b}
            /\ relabelled' = IF b \in pending THEN relabelled ELSE relabelled \cup {b}
        BY <2>1 DEF GenLabel
      <3>2. b \in pending
        <4>1. 1 \in 1..Len(work)
          BY <1>1, TopIsFirst
        <4>2. l \in LabelsOf(A, work[1])
          BY <1>2, <1>7
        <4> QED BY <1>14, <2>1, <4>1, <4>2 DEF Waiting
      <3> QED BY <1>14, <2>1, <3>1, <3>2 DEF OneEach
    <2>2. CASE b = 0
      <3>1. /\ labels' = [labels EXCEPT ![l] = Fresh(1)] /\ pending' = pending
            /\ relabelled' = relabelled
        BY <2>2 DEF GenLabel
      <3>2. labels'[l] = Fresh(1) /\ \A m \in Name : m # l => labels'[m] = labels[m]
        BY <1>3, <1>15, <3>1
      <3> HIDE DEF l
      <3> QED BY <1>14, <1>15, <2>2, <3>1, <3>2 DEF OneEach
    <2> QED BY <2>1, <2>2
  <1>17. Waiting(A, work', labels', pending')
    <2>1. /\ l \in LabelsOf(A, work[1]) /\ l \notin LabelsOf(A, work'[1])
          /\ LabelsOf(A, work[1]) = {l} \cup LabelsOf(A, work'[1])
          /\ Todo(work[1]) # {} /\ ~Divides(work[1]) /\ ~IsDecl(work[1])
      BY <1>2, <1>7, <1>8, <1>13
    <2> HIDE DEF l
    <2>2. Waiting(A, work', labels', pending \ {labels'[l]})
      <3>1. \A new : (/\ b \in {0, new[l]} /\ new[l] # 0 /\ OneEach(new)
                      /\ \A m \in Name : m # l => new[m] = labels[m])
                     => Waiting(A, work', new, pending \ {new[l]})
        <4> SUFFICES ASSUME NEW new, b \in {0, new[l]}, new[l] # 0, OneEach(new),
                            \A m \in Name : m # l => new[m] = labels[m]
                     PROVE  Waiting(A, work', new, pending \ {new[l]})
          OBVIOUS
        <4>1. labels[l] \in {0, new[l]}
          OBVIOUS
        <4> HIDE DEF b
        <4>2. /\ Reading(A) /\ V \in [Nat -> Context] /\ Moved(V, W, 1, work, work')
              /\ Stacked(A, funcs, V, work) /\ Part(A, work[1], work'[1])
              /\ l \in Name /\ Waiting(A, work, labels, pending) /\ 0 \notin pending
          BY <1>3, <1>5, <1>13, <1>14, <1>15
        <4> QED BY <2>1, <4>1, <4>2, WaitingPlaced
      <3>2. OneEach(labels')
        BY <1>16 DEF OneEach
      <3> QED BY <1>16, <3>1, <3>2
    <2> QED BY <1>16, <2>2
  <1>18. LabelsFit(A)'
    BY <1>14, <1>16, <1>17 DEF LabelsFit
  <1> QED BY <1>12, <1>18 DEF Sound, Resettled

(***************************************************************************)
(* Blocks and procedures.                                                  *)
(***************************************************************************)
(* What genBlock and genDecl push: the declarations ds, the statements ss  *)
(* and a frame g behind them.                                              *)
BodyItems(ds, ss, g, items) ==
    /\ items \in Seq(FrameSet)
    /\ Len(ds) \in Nat /\ Len(ss) \in Nat /\ Len(items) = Len(ds) + Len(ss) + 1
    /\ \A i \in 1..Len(ds) : items[i] = Gen(ds[i])
    /\ \A i \in 1..Len(ss) : items[Len(ds) + i] = Gen(ss[i])
    /\ items[Len(items)] = g

(* What GenBlock and GenProc push.                                         *)
LEMMA BodyPushed ==
    ASSUME NEW ds \in Seq(Node), NEW ss \in Seq(Node), NEW g \in FrameSet
    PROVE  BodyItems(ds, ss, g, GenAll(ds) \o GenAll(ss) \o <<g>>)
  <1> DEFINE a == GenAll(ds)
             b == GenAll(ss)
             ab == a \o b
             one == <<g>>
             items == ab \o one
  <1>1. /\ a \in Seq(FrameSet) /\ b \in Seq(FrameSet)
        /\ Len(a) = Len(ds) /\ Len(b) = Len(ss) /\ Len(ds) \in Nat /\ Len(ss) \in Nat
        /\ DOMAIN a = 1..Len(ds) /\ DOMAIN b = 1..Len(ss)
        /\ \A i \in 1..Len(ds) : a[i] = Gen(ds[i])
        /\ \A i \in 1..Len(ss) : b[i] = Gen(ss[i])
    <2>1. a \in Seq(FrameSet) /\ b \in Seq(FrameSet)
      BY GenAllFrames DEF GenNodes
    <2>2. Len(ds) \in Nat /\ Len(ss) \in Nat
      BY LenProperties
    <2> QED BY <2>1, <2>2 DEF GenAll
  <1>2. one \in Seq(FrameSet) /\ Len(one) = 1 /\ DOMAIN one = {1} /\ one[1] = g
    OBVIOUS
  <1> HIDE DEF a, b, one
  <1>3. /\ ab \in Seq(FrameSet) /\ Len(ab) = Len(ds) + Len(ss)
        /\ DOMAIN ab = 1..(Len(ds) + Len(ss))
        /\ \A i \in 1..Len(ds) : ab[i] = a[i]
        /\ \A i \in 1..Len(ss) : ab[Len(ds) + i] = b[i]
    <2>1. /\ ab \in Seq(FrameSet) /\ Len(ab) = Len(a) + Len(b)
          /\ DOMAIN ab = 1..(Len(a) + Len(b))
          /\ \A i \in DOMAIN a : ab[i] = a[i]
          /\ \A i \in DOMAIN b : ab[Len(a) + i] = b[i]
      <3>1. a \in Seq(FrameSet) /\ b \in Seq(FrameSet)
        BY <1>1
      <3> QED BY <3>1, ConcatElements
    <2> HIDE DEF ab
    <2> QED BY <1>1, <2>1
  <1> HIDE DEF ab
  <1>4. /\ items \in Seq(FrameSet) /\ Len(items) = Len(ds) + Len(ss) + 1
        /\ \A i \in 1..(Len(ds) + Len(ss)) : items[i] = ab[i]
        /\ items[Len(ds) + Len(ss) + 1] = g
    <2>1. /\ items \in Seq(FrameSet) /\ Len(items) = Len(ab) + Len(one)
          /\ \A i \in DOMAIN ab : items[i] = ab[i]
          /\ \A i \in DOMAIN one : items[Len(ab) + i] = one[i]
      <3>1. ab \in Seq(FrameSet) /\ one \in Seq(FrameSet)
        BY <1>2, <1>3
      <3> QED BY <3>1, ConcatElements
    <2> HIDE DEF items
    <2>2. 1 \in DOMAIN one
      BY <1>2
    <2> QED BY <1>1, <1>2, <1>3, <2>1, <2>2
  <1> HIDE DEF items
  <1>5. ASSUME NEW i \in 1..Len(ds) PROVE items[i] = Gen(ds[i])
    <2>1. i \in 1..(Len(ds) + Len(ss))
      BY <1>1
    <2> QED BY <1>1, <1>3, <1>4, <2>1
  <1>6. ASSUME NEW i \in 1..Len(ss) PROVE items[Len(ds) + i] = Gen(ss[i])
    <2>1. Len(ds) + i \in 1..(Len(ds) + Len(ss))
      BY <1>1
    <2> QED BY <1>1, <1>3, <1>4, <2>1
  <1> QED BY <1>1, <1>4, <1>5, <1>6 DEF BodyItems, items, ab, a, b, one

(* The contexts of these items.                                            *)
Contexts(s, c) ==
    [i \in Nat |-> ContextIn(s, c, IF i <= Len(s.decls) THEN i ELSE Len(s.decls) + 1)]

(* What a body adds to the context around it.                              *)
LEMMA InnerContext ==
    ASSUME NEW s \in Node, s.kind \in {"Block", "Proc"}, NEW c \in Context, NEW i \in Nat
    PROVE  /\ ContextIn(s, c, i) \in Context
           /\ ContextIn(s, c, i).scopes = c.scopes + 1
           /\ ContextIn(s, c, i).depth = IF s.kind = "Proc" THEN c.depth + 1 ELSE c.depth
           /\ ContextIn(s, c, i).owner = IF s.kind = "Proc" THEN <<s>> ELSE c.owner
           /\ ContextIn(s, c, i).names = c.names \cup (IF s.kind = "Proc" THEN {s.name} ELSE {})
                                           \cup NamedBefore(s, i)
  <1>1. s.decls \in Seq(Node) /\ (s.kind = "Proc" => s.name \in Name)
    BY NodeAssumption DEF WellFormed, WellFormedNode
  <1>2. NamedBefore(s, i) \subseteq Name
    <2> SUFFICES ASSUME NEW j \in DOMAIN s.decls, HasBody(s.decls[j])
                 PROVE  s.decls[j].name \in Name
      BY DEF NamedBefore
    <2>1. s.decls[j] \in Node /\ s.decls[j].kind = "Proc"
      BY <1>1 DEF HasBody
    <2> QED BY <2>1, NodeAssumption DEF WellFormed, WellFormedNode
  <1>3. <<s>> \in Optional(Node)
    <2>1. <<s>> \in Seq(Node) /\ Len(<<s>>) = 1
      OBVIOUS
    <2> QED BY <2>1 DEF Optional
  <1>4. /\ c.depth \in Nat /\ c.scopes \in Nat /\ c.owner \in Optional(Node)
        /\ c.names \subseteq Name
    BY DEF Context
  <1>5. /\ (IF s.kind = "Proc" THEN c.depth + 1 ELSE c.depth) \in Nat
        /\ c.scopes + 1 \in Nat \ {0}
        /\ (IF s.kind = "Proc" THEN <<s>> ELSE c.owner) \in Optional(Node)
        /\ c.names \cup (IF s.kind = "Proc" THEN {s.name} ELSE {}) \cup NamedBefore(s, i)
             \in SUBSET Name
    BY <1>1, <1>2, <1>3, <1>4
  <1> HIDE DEF NamedBefore
  <1> QED BY <1>5 DEF ContextIn, Context

(* The contexts of all that stands in a body.                              *)
LEMMA ContextsAreContexts ==
    ASSUME NEW s \in Node, s.kind \in {"Block", "Proc"}, NEW c \in Context
    PROVE  /\ Contexts(s, c) \in [Nat -> Context]
           /\ \A i \in Nat :
                /\ Contexts(s, c)[i].scopes = c.scopes + 1
                /\ Contexts(s, c)[i].depth = IF s.kind = "Proc" THEN c.depth + 1 ELSE c.depth
                /\ Contexts(s, c)[i].owner = IF s.kind = "Proc" THEN <<s>> ELSE c.owner
           /\ \A i \in 1..Len(s.decls) : Contexts(s, c)[i] = ContextIn(s, c, i)
           /\ \A i \in Nat : i > Len(s.decls) =>
                Contexts(s, c)[i] = ContextIn(s, c, Len(s.decls) + 1)
  <1>1. Len(s.decls) \in Nat
    BY NodeAssumption, LenProperties DEF WellFormed, WellFormedNode
  <1> DEFINE at(i) == IF i <= Len(s.decls) THEN i ELSE Len(s.decls) + 1
  <1>2. \A i \in Nat : at(i) \in Nat
    BY <1>1
  <1>3. \A i \in Nat : Contexts(s, c)[i] = ContextIn(s, c, at(i))
    BY DEF Contexts
  <1>4. \A i \in Nat : at(i) = IF i <= Len(s.decls) THEN i ELSE Len(s.decls) + 1
    OBVIOUS
  <1>5. Contexts(s, c) = [i \in Nat |-> ContextIn(s, c, at(i))]
    BY DEF Contexts
  <1> HIDE DEF at
  <1>6. \A i \in Nat :
          /\ ContextIn(s, c, at(i)) \in Context
          /\ ContextIn(s, c, at(i)).scopes = c.scopes + 1
          /\ ContextIn(s, c, at(i)).depth = IF s.kind = "Proc" THEN c.depth + 1 ELSE c.depth
          /\ ContextIn(s, c, at(i)).owner = IF s.kind = "Proc" THEN <<s>> ELSE c.owner
    BY <1>2, InnerContext
  <1>7. Contexts(s, c) \in [Nat -> Context]
    BY <1>5, <1>6
  <1>8. ASSUME NEW i \in 1..Len(s.decls) PROVE Contexts(s, c)[i] = ContextIn(s, c, i)
    <2>1. i \in Nat /\ i <= Len(s.decls)
      BY <1>1
    <2> QED BY <1>3, <1>4, <2>1
  <1>9. ASSUME NEW i \in Nat, i > Len(s.decls)
        PROVE  Contexts(s, c)[i] = ContextIn(s, c, Len(s.decls) + 1)
    <2>1. ~(i <= Len(s.decls))
      BY <1>1, <1>9
    <2> QED BY <1>3, <1>4, <2>1
  <1> QED BY <1>3, <1>6, <1>7, <1>8, <1>9

(* Where the nodes of a body stand; s stands in c.                         *)
LEMMA BodyNodes ==
    ASSUME NEW A, Reading(A), NEW s \in Node, NEW c \in Context, <<s, c>> \in A.at,
           s.kind = "Block" \/ HasBody(s)
    PROVE  /\ s.decls \in Seq(Node) /\ s.stmts \in Seq(Node)
           /\ Len(s.decls) \in Nat /\ Len(s.stmts) \in Nat
           /\ DOMAIN s.decls = 1..Len(s.decls) /\ DOMAIN s.stmts = 1..Len(s.stmts)
           /\ s.kind \in {"Block", "Proc"}
           /\ \A i \in 1..Len(s.decls) :
                 /\ s.decls[i] \in Node /\ s.decls[i].kind = "Proc"
                 /\ <<s.decls[i], Contexts(s, c)[i]>> \in A.at
                 /\ A.labels[s.decls[i]] = {} /\ A.gotos[s.decls[i]] = {}
           /\ \A j \in 1..Len(s.stmts) :
                 /\ s.stmts[j] \in Node /\ Statement(s.stmts[j])
                 /\ <<s.stmts[j], Contexts(s, c)[Len(s.decls) + j]>> \in A.at
           /\ \A i, j \in 1..Len(s.stmts) :
                 i # j => A.labels[s.stmts[i]] \cap A.labels[s.stmts[j]] = {}
  <1>1. s.kind \in {"Block", "Proc"}
    BY DEF HasBody
  <1>2. /\ s.decls \in Seq(Node) /\ s.stmts \in Seq(Node)
        /\ Len(s.decls) \in Nat /\ Len(s.stmts) \in Nat
        /\ DOMAIN s.decls = 1..Len(s.decls) /\ DOMAIN s.stmts = 1..Len(s.stmts)
    <2>1. s.decls \in Seq(Node) /\ s.stmts \in Seq(Node)
      BY <1>1, NodeAssumption DEF WellFormed, WellFormedNode
    <2> QED BY <2>1, LenProperties
  <1>3. ChildrenPlaced(A, s, c) /\ LabelsPlaced(A, s, c)
    BY DEF Reading
  <1>4. /\ \A i \in 1..Len(s.decls) : /\ s.decls[i].kind = "Proc"
                                      /\ <<s.decls[i], ContextIn(s, c, i)>> \in A.at
        /\ \A j \in 1..Len(s.stmts) :
              /\ Statement(s.stmts[j])
              /\ <<s.stmts[j], ContextIn(s, c, Len(s.decls) + 1)>> \in A.at
    <2>1. /\ \A i \in DOMAIN s.decls : /\ s.decls[i].kind = "Proc"
                                       /\ <<s.decls[i], ContextIn(s, c, i)>> \in A.at
          /\ \A j \in DOMAIN s.stmts :
                /\ Statement(s.stmts[j])
                /\ <<s.stmts[j], ContextIn(s, c, Len(s.decls) + 1)>> \in A.at
      BY <1>3 DEF ChildrenPlaced, HasBody
    <2> QED BY <1>2, <2>1
  <1>5. /\ \A i \in 1..Len(s.decls) : Contexts(s, c)[i] = ContextIn(s, c, i)
        /\ \A i \in Nat : i > Len(s.decls) =>
             Contexts(s, c)[i] = ContextIn(s, c, Len(s.decls) + 1)
    BY <1>1, ContextsAreContexts
  <1>6. ASSUME NEW i \in 1..Len(s.decls)
        PROVE  /\ s.decls[i] \in Node /\ s.decls[i].kind = "Proc"
               /\ <<s.decls[i], Contexts(s, c)[i]>> \in A.at
               /\ A.labels[s.decls[i]] = {} /\ A.gotos[s.decls[i]] = {}
    <2>1. s.decls[i] \in Node
      BY <1>2
    <2>2. s.decls[i].kind = "Proc" /\ <<s.decls[i], Contexts(s, c)[i]>> \in A.at
      BY <1>4, <1>5
    <2>3. LabelsPlaced(A, s.decls[i], Contexts(s, c)[i])
      BY <2>2 DEF Reading
    <2> QED BY <2>1, <2>2, <2>3 DEF LabelsPlaced
  <1>7. ASSUME NEW j \in 1..Len(s.stmts)
        PROVE  /\ s.stmts[j] \in Node /\ Statement(s.stmts[j])
               /\ <<s.stmts[j], Contexts(s, c)[Len(s.decls) + j]>> \in A.at
    <2>1. Len(s.decls) + j \in Nat /\ Len(s.decls) + j > Len(s.decls)
      BY <1>2
    <2> QED BY <1>2, <1>4, <1>5, <2>1
  <1>8. \A i, j \in 1..Len(s.stmts) :
            i # j => A.labels[s.stmts[i]] \cap A.labels[s.stmts[j]] = {}
    BY <1>1, <1>2, <1>3 DEF LabelsPlaced
  <1> QED BY <1>1, <1>2, <1>6, <1>7, <1>8

(* So does what genBlock and genDecl push.                                 *)
Inner(ds, ss, g, items) ==
    /\ Len(items) \in Nat \ {0} /\ items[Len(items)] = g
    /\ \A i \in 1..Len(items) :
          \/ i = Len(items)
          \/ i # Len(items) /\ i \in 1..Len(ds) /\ items[i] = Gen(ds[i])
          \/ /\ i # Len(items) /\ i > Len(ds)
             /\ \E j \in 1..Len(ss) : i = Len(ds) + j /\ items[i] = Gen(ss[j])

(* Where the items of a body come from.                                    *)
LEMMA BodyInner ==
    ASSUME NEW ds, NEW ss, NEW g, NEW items, BodyItems(ds, ss, g, items)
    PROVE  Inner(ds, ss, g, items)
  <1>1. /\ Len(ds) \in Nat /\ Len(ss) \in Nat
        /\ Len(items) = Len(ds) + Len(ss) + 1
    BY DEF BodyItems
  <1>2. /\ \A i \in 1..Len(ds) : items[i] = Gen(ds[i])
        /\ \A i \in 1..Len(ss) : items[Len(ds) + i] = Gen(ss[i])
        /\ items[Len(items)] = g
    BY DEF BodyItems
  <1>3. ASSUME NEW i \in 1..Len(items), i # Len(items), i \notin 1..Len(ds)
        PROVE  i > Len(ds) /\ \E j \in 1..Len(ss) :
                  i = Len(ds) + j /\ items[i] = Gen(ss[j])
    <2>1. i - Len(ds) \in 1..Len(ss)
      BY <1>1, <1>3
    <2>2. PICK j \in 1..Len(ss) : j = i - Len(ds)
      BY <2>1
    <2>3. i > Len(ds) /\ i = Len(ds) + j
      BY <1>1, <1>3, <2>2
    <2> QED BY <1>2, <2>3
  <1>4. Len(items) \in Nat \ {0}
    BY <1>1
  <1> QED BY <1>2, <1>3, <1>4 DEF Inner

(* The items of a body fit into one another and into what is below.        *)
LEMMA BodyCarries ==
    ASSUME NEW A, Reading(A), NEW f, f.k = "gen", NEW s \in Node, f.s = s, NEW c \in Context,
           <<s, c>> \in A.at, s.kind = "Block" \/ HasBody(s),
           NEW d, d.scopes = c.scopes, d.owner = c.owner,
           NEW g, g.s = s, g.k = (IF s.kind = "Proc" THEN "endproc" ELSE "endblock"),
           NEW fns, g.k = "endproc" => fns[g.to[1]] = c.owner,
           NEW items, BodyItems(s.decls, s.stmts, g, items)
    PROVE  Carries(A, fns, f, c, d, items, Contexts(s, c))
  <1> DEFINE K == Contexts(s, c)
             m == Len(s.decls)
             own == s.kind = "Proc"
  <1>1. /\ m \in Nat /\ s.kind \in {"Block", "Proc"}
        /\ DOMAIN s.decls = 1..Len(s.decls) /\ DOMAIN s.stmts = 1..Len(s.stmts)
        /\ \A i \in 1..m :
              /\ s.decls[i] \in Node /\ s.decls[i].kind = "Proc"
              /\ <<s.decls[i], K[i]>> \in A.at
              /\ A.labels[s.decls[i]] = {} /\ A.gotos[s.decls[i]] = {}
        /\ \A j \in 1..Len(s.stmts) :
              /\ s.stmts[j] \in Node /\ Statement(s.stmts[j])
              /\ <<s.stmts[j], K[m + j]>> \in A.at
        /\ \A i, j \in 1..Len(s.stmts) :
              i # j => A.labels[s.stmts[i]] \cap A.labels[s.stmts[j]] = {}
    BY BodyNodes
  <1>2. /\ K \in [Nat -> Context]
        /\ \A i \in Nat : /\ K[i].scopes = c.scopes + 1
                          /\ K[i].depth = IF own THEN c.depth + 1 ELSE c.depth
                          /\ K[i].owner = IF own THEN <<s>> ELSE c.owner
    BY <1>1, ContextsAreContexts
  <1>3. /\ Len(items) \in Nat \ {0} /\ items[Len(items)] = g
        /\ \A i \in 1..Len(items) :
              \/ i = Len(items)
              \/ /\ i # Len(items) /\ i \in 1..m /\ items[i] = Gen(s.decls[i])
              \/ /\ i # Len(items) /\ i > m
                 /\ \E j \in 1..Len(s.stmts) : i = m + j /\ items[i] = Gen(s.stmts[j])
    <2>1. Inner(s.decls, s.stmts, g, items)
      BY BodyInner
    <2> QED BY <2>1 DEF Inner
  <1> HIDE DEF K, m
  <1>4. c.depth \in Nat /\ c.scopes \in Nat
    BY DEF Context
  <1>5. \A i \in 1..Len(items) : i \in Nat /\ i + 1 \in Nat
    BY <1>3
  <1>6. /\ Todo(g) = {} /\ LabelsOf(A, g) = {}
    <2>1. Todo(g) = {}
      BY DEF Todo
    <2> QED BY <2>1 DEF LabelsOf
  <1>7. \A x \in Node : /\ Todo(Gen(x)) = {x} /\ Gen(x).k = "gen" /\ Gen(x).s = x
                        /\ LabelsOf(A, Gen(x)) = A.labels[x]
    BY GenFramed
  <1>8. ASSUME NEW i \in 1..Len(items)
        PROVE  /\ Judged(A, items[i], K[i])
               /\ i # Len(items) => items[i].k = "gen"
               /\ items[i].k = "gen" /\ Declares(items[i].s) => i <= m /\ i # Len(items)
               /\ i <= m /\ i # Len(items) => IsDecl(items[i]) /\ LabelsOf(A, items[i]) = {}
               /\ own \/ \A l \in LabelsOf(A, items[i]) : l \in A.labels[s]
    <2>1. CASE i = Len(items)
      <3>1. K[i].owner = IF own THEN <<s>> ELSE c.owner
        BY <1>2, <1>5
      <3> QED BY <1>3, <1>6, <2>1, <3>1 DEF Judged
    <2>2. CASE i # Len(items) /\ i \in 1..m /\ items[i] = Gen(s.decls[i])
      <3>1. s.decls[i] \in Node /\ s.decls[i].kind = "Proc" /\ <<s.decls[i], K[i]>> \in A.at
            /\ A.labels[s.decls[i]] = {}
        BY <1>1, <2>2
      <3>2. i <= m /\ i # Len(items)
        BY <1>1, <2>2
      <3> QED BY <1>7, <2>2, <3>1, <3>2 DEF Judged, IsDecl
    <2>3. CASE /\ i # Len(items) /\ i > m
               /\ \E j \in 1..Len(s.stmts) : i = m + j /\ items[i] = Gen(s.stmts[j])
      <3>1. PICK j \in 1..Len(s.stmts) : i = m + j /\ items[i] = Gen(s.stmts[j])
        BY <2>3
      <3>2. s.stmts[j] \in Node /\ Statement(s.stmts[j]) /\ <<s.stmts[j], K[i]>> \in A.at
        BY <1>1, <3>1
      <3>3. ~(i <= m)
        BY <1>1, <2>3
      <3>4. ~Declares(s.stmts[j])
        BY <3>2 DEF Declares, Statement, HasBody
      <3>5. own \/ A.labels[s.stmts[j]] \subseteq A.labels[s]
        <4>1. LabelsPlaced(A, s, c)
          BY DEF Reading
        <4>2. s.stmts[j] \in Children(s)
          BY <1>1, <3>1 DEF Children
        <4> QED BY <4>1, <4>2 DEF LabelsPlaced
      <3> QED BY <1>7, <2>3, <3>1, <3>2, <3>3, <3>4, <3>5 DEF Judged
    <2> QED BY <1>3, <2>1, <2>2, <2>3
  <1>9. LabelsOf(A, f) = A.labels[s]
    BY DEF LabelsOf, Todo
  <1>10. ASSUME NEW i \in 1..Len(items) PROVE Deeper(A, f, c, items[i], K[i])
    <2>1. /\ K[i].scopes = c.scopes + 1
          /\ K[i].depth = IF own THEN c.depth + 1 ELSE c.depth
      BY <1>2, <1>5
    <2>2. c.depth <= K[i].depth /\ c.scopes < K[i].scopes /\ c.scopes <= K[i].scopes
      BY <1>4, <2>1
    <2>3. items[i].k = "endproc" => own
      BY <1>3, <1>8
    <2>4. IsDecl(f) => own
      BY DEF IsDecl
    <2>5. own => c.depth < K[i].depth
      BY <1>4, <2>1
    <2>6. \A l \in LabelsOf(A, items[i]) : l \in LabelsOf(A, f) \/ c.depth < A.depth[l]
      <3>1. CASE own
        <4> SUFFICES ASSUME NEW l \in LabelsOf(A, items[i]) PROVE c.depth < A.depth[l]
          OBVIOUS
        <4>1. Judged(A, items[i], K[i])
          BY <1>8
        <4>2. A.depth[l] = K[i].depth
          BY <4>1, LabelDepth
        <4> QED BY <2>5, <3>1, <4>2
      <3>2. CASE ~own
        BY <1>8, <1>9, <3>2
      <3> QED BY <3>1, <3>2
    <2> HIDE DEF own
    <2> QED BY <2>2, <2>3, <2>4, <2>5, <2>6 DEF Deeper
  <1>11. ASSUME NEW i \in 1..Len(items)
         PROVE  Under(fns, items[i], K[i], IF i = Len(items) THEN d ELSE K[i + 1])
    <2>1. CASE i = Len(items)
      <3>1. items[i] = g
        BY <1>3, <2>1
      <3>2. K[i].scopes = c.scopes + 1 /\ K[i].owner = IF own THEN <<s>> ELSE c.owner
        BY <1>2, <1>5
      <3>3. d.scopes = K[i].scopes - 1
        BY <1>4, <3>2
      <3> QED BY <2>1, <3>1, <3>2, <3>3 DEF Under
    <2>2. CASE i # Len(items)
      <3>1. items[i].k = "gen"
        BY <1>8, <2>2
      <3>2. K[i].scopes = K[i + 1].scopes /\ K[i].owner = K[i + 1].owner
        BY <1>2, <1>5
      <3> QED BY <2>2, <3>1, <3>2 DEF Under
    <2> QED BY <2>1, <2>2
  <1>12. ASSUME NEW i \in 1..Len(items), NEW j \in 1..Len(items), i < j
         PROVE  Above(A, items[i], items[j], K[i], K[j])
    <2>1. i # Len(items) /\ items[i].k = "gen"
      <3>1. i # Len(items)
        BY <1>3, <1>12
      <3> QED BY <1>8, <3>1
    <2>2. K[j].scopes = K[i].scopes /\ K[j].depth = K[i].depth
          /\ K[i].scopes \in Nat /\ K[i].depth \in Nat
      BY <1>2, <1>4, <1>5
    <2>3. items[j].k = "gen" /\ Declares(items[j].s) => IsDecl(items[i])
      <3>1. j <= m => i <= m
        BY <1>1, <1>12
      <3> QED BY <1>8, <2>1, <3>1
    <2>4. LabelsOf(A, items[i]) \cap LabelsOf(A, items[j]) = {}
      <3>1. CASE i <= m
        BY <1>8, <2>1, <3>1
      <3>2. CASE j = Len(items)
        BY <1>3, <1>6, <3>2
      <3>3. CASE ~(i <= m) /\ j # Len(items)
        <4>1. ~(j <= m)
          BY <1>1, <1>12, <3>3
        <4>2. PICK a \in 1..Len(s.stmts) : i = m + a /\ items[i] = Gen(s.stmts[a])
          BY <1>1, <1>3, <2>1, <3>3
        <4>3. PICK b \in 1..Len(s.stmts) : j = m + b /\ items[j] = Gen(s.stmts[b])
          BY <1>1, <1>3, <3>3, <4>1
        <4>4. a # b
          BY <1>12, <4>2, <4>3
        <4>5. A.labels[s.stmts[a]] \cap A.labels[s.stmts[b]] = {}
          BY <1>1, <4>4
        <4>6. LabelsOf(A, items[i]) = A.labels[s.stmts[a]]
          <5>1. s.stmts[a] \in Node
            BY <1>1
          <5> HIDE DEF Gen
          <5> QED BY <1>7, <4>2, <5>1
        <4>7. LabelsOf(A, items[j]) = A.labels[s.stmts[b]]
          <5>1. s.stmts[b] \in Node
            BY <1>1
          <5> HIDE DEF Gen
          <5> QED BY <1>7, <4>3, <5>1
        <4> QED BY <4>5, <4>6, <4>7
      <3> QED BY <3>1, <3>2, <3>3
    <2> QED BY <2>1, <2>2, <2>3, <2>4 DEF Above
  <1> QED BY <1>8, <1>10, <1>11, <1>12 DEF Carries, K

(* What the names of a body may be, wherever a node stands in it.          *)
NamedIn(s, c, i, m) ==
    \/ m \in c.names
    \/ s.kind = "Proc" /\ m = s.name
    \/ \E j \in 1..Len(s.decls) : j < i /\ HasBody(s.decls[j]) /\ s.decls[j].name = m

(* A name known in a body is known around it or declared there before.     *)
LEMMA NamesInside ==
    ASSUME NEW A, Reading(A), NEW s \in Node, NEW c \in Context, <<s, c>> \in A.at,
           s.kind = "Block" \/ HasBody(s), NEW i \in Nat \ {0},
           NEW m \in Contexts(s, c)[i].names
    PROVE  NamedIn(s, c, i, m)
  <1>1. /\ Len(s.decls) \in Nat /\ DOMAIN s.decls = 1..Len(s.decls)
        /\ s.kind \in {"Block", "Proc"}
    BY BodyNodes
  <1>2. /\ \A k \in 1..Len(s.decls) : Contexts(s, c)[k] = ContextIn(s, c, k)
        /\ \A k \in Nat : k > Len(s.decls) =>
             Contexts(s, c)[k] = ContextIn(s, c, Len(s.decls) + 1)
    BY <1>1, ContextsAreContexts
  <1>3. PICK k \in Nat : k <= i /\ Contexts(s, c)[i] = ContextIn(s, c, k)
    <2>1. CASE i \in 1..Len(s.decls)
      BY <1>2, <2>1
    <2>2. CASE i \notin 1..Len(s.decls)
      <3>1. i \in Nat /\ i > Len(s.decls) /\ Len(s.decls) + 1 \in Nat /\ Len(s.decls) + 1 <= i
        BY <1>1, <2>2
      <3> QED BY <1>2, <3>1
    <2> QED BY <2>1, <2>2
  <1>4. m \in c.names \cup (IF s.kind = "Proc" THEN {s.name} ELSE {}) \cup NamedBefore(s, k)
    <2>1. ContextIn(s, c, k).names =
             c.names \cup (IF s.kind = "Proc" THEN {s.name} ELSE {}) \cup NamedBefore(s, k)
      BY <1>1, <1>3, InnerContext
    <2> QED BY <1>3, <2>1
  <1>5. CASE m \in NamedBefore(s, k)
    <2>1. PICK j \in 1..Len(s.decls) : j < k /\ HasBody(s.decls[j]) /\ s.decls[j].name = m
      BY <1>1, <1>5 DEF NamedBefore
    <2>2. j < i
      BY <1>1, <1>3, <2>1
    <2> QED BY <2>1, <2>2 DEF NamedIn
  <1> QED BY <1>4, <1>5 DEF NamedIn

(* The stack and the scopes when a body is entered.                        *)
LEMMA BodyEntered ==
    ASSUME IInv, work # <<>>, NEW A, NEW V, Settled(A, V), Top.k = "gen",
           NEW s, s = Top.s, s.kind = "Block" \/ HasBody(s),
           NEW g \in FrameSet, g.s = s,
           g.k = (IF s.kind = "Proc" THEN "endproc" ELSE "endblock"),
           NEW items, BodyItems(s.decls, s.stmts, g, items), Continue(items),
           g.k = "endproc" => funcs'[g.to[1]] = V[1].owner,
           \A i \in 1..Len(funcs) : funcs'[i] = funcs[i],
           Len(scopes') = Len(scopes) + 1,
           \A q \in 1..Len(scopes) : \A m \in Name :
               scopes[q][m] # 0 => scopes'[q][m] # 0,
           s.kind = "Proc" => scopes'[Len(scopes)][s.name] # 0,
           funcs'[curFunc'] = IF s.kind = "Proc" THEN <<s>> ELSE funcs[curFunc]
    PROVE  \E W \in [Nat -> Context] :
              /\ Moved(V, W, Len(items), work, work')
              /\ \A i \in 1..Len(items) : work'[i] = items[i]
              /\ Nesting(A, W)' /\ NamesFit(W, work', scopes')
  <1> DEFINE c == V[1]
             d == V[2]
             K == Contexts(s, c)
             n == Len(items)
  <1>1. /\ s \in Node /\ c \in Context /\ d \in Context /\ <<s, c>> \in A.at
        /\ Reading(A) /\ V \in [Nat -> Context] /\ Sound(A, V)
    BY NodeOnTop, TopSound DEF Settled
  <1>2. /\ Under(funcs, Top, V[1], V[2])
        /\ V[1].scopes = Len(scopes) /\ funcs[curFunc] = V[1].owner
        /\ \A j \in 2..Len(work) : Above(A, Top, work[j], V[1], V[j])
    BY <1>1, TopSound
  <1>3. Top = work[1] /\ Len(work) \in Nat \ {0} /\ 1 \in 1..Len(work)
    BY TopIsFirst
  <1>4. /\ s.kind \in {"Block", "Proc"} /\ Len(s.decls) \in Nat
        /\ \A i \in 1..Len(s.decls) : s.decls[i] \in Node
    BY <1>1, BodyNodes
  <1>5. /\ K \in [Nat -> Context]
        /\ \A i \in Nat : /\ K[i].scopes = c.scopes + 1
                          /\ K[i].owner = IF s.kind = "Proc" THEN <<s>> ELSE c.owner
    BY <1>1, <1>4, ContextsAreContexts
  <1>6. /\ c.scopes \in Nat \ {0} /\ c.names \subseteq Name /\ Len(scopes) \in Nat
    BY <1>1, <1>2 DEF Context
  <1>7. /\ n \in Nat \ {0} /\ items \in Seq(FrameSet)
        /\ \A i \in 1..Len(s.decls) : i \in 1..n /\ items[i] = Gen(s.decls[i])
    <2>1. /\ Len(s.decls) \in Nat /\ Len(s.stmts) \in Nat
          /\ n = Len(s.decls) + Len(s.stmts) + 1
      BY DEF BodyItems
    <2>2. n \in Nat \ {0} /\ 1..Len(s.decls) \subseteq 1..n
      <3>1. \A a, b \in Nat : a + b + 1 \in Nat \ {0} /\ 1..a \subseteq 1..(a + b + 1)
        OBVIOUS
      <3> QED BY <2>1, <3>1
    <2>3. /\ items \in Seq(FrameSet) /\ \A i \in 1..Len(s.decls) : items[i] = Gen(s.decls[i])
      BY DEF BodyItems
    <2> QED BY <2>2, <2>3
  <1>8. Carries(A, funcs', work[1], V[1], V[2], items, K)
    <2>1. d.scopes = c.scopes /\ d.owner = c.owner
      BY <1>2 DEF Under
    <2>2. Carries(A, funcs', Top, c, d, items, K)
      BY <1>1, <2>1, BodyCarries
    <2> QED BY <1>3, <2>2
  <1>9. PICK W \in [Nat -> Context] :
              /\ Moved(V, W, Len(items), work, work')
              /\ \A i \in 1..Len(items) : work'[i] = items[i] /\ W[i] = K[i]
    <2>1. K \in [Nat -> Context] /\ V \in [Nat -> Context] /\ items \in Seq(FrameSet)
      BY <1>1, <1>5, <1>7
    <2>2. PICK W : Follows(V, K, items, W, work, work')
      BY <2>1, StackMoved
    <2> QED BY <2>2 DEF Follows
  <1>10. Stacked(A, funcs', W, work')
    <2>1. Stacked(A, funcs, V, work)
      BY <1>1 DEF Sound, Nesting
    <2>2. ASSUME NEW i \in 2..Len(work), work[i].k = "endproc"
          PROVE  funcs'[work[i].to[1]] = funcs[work[i].to[1]]
      <3>1. i \in DOMAIN work
        BY <1>3 DEF IInv, Typed, TypeOK
      <3>2. work[i].to[1] \in 1..Len(funcs)
        BY <2>2, <3>1 DEF IInv, Typed, FramesOK, FrameOK
      <3> QED BY <3>2
    <2> HIDE DEF K, c, d
    <2> QED BY <1>1, <1>8, <1>9, <2>1, <2>2, StackedKept
  <1>11. 1 \in 1..n /\ W[1] = K[1] /\ 1 \in Nat
    BY <1>7, <1>9
  <1>12. Nesting(A, W)'
    <2>1. W[1].scopes = Len(scopes) + 1 /\ W[1].owner = funcs'[curFunc']
      BY <1>2, <1>5, <1>11
    <2> QED BY <1>10, <2>1 DEF Nesting
  <1>13. \A m \in Name, e \in Context : Known(scopes, m, e) => Known(scopes', m, e)
    <2> SUFFICES ASSUME NEW m \in Name, NEW e \in Context, Known(scopes, m, e)
                 PROVE  Known(scopes', m, e)
      OBVIOUS
    <2>1. PICK q \in 1..e.scopes : q \in 1..Len(scopes) /\ scopes[q][m] # 0
      BY DEF Known
    <2>2. q \in 1..Len(scopes') /\ scopes'[q][m] # 0
      BY <1>6, <2>1
    <2> QED BY <2>2 DEF Known
  <1>14. NamesFit(V, work, scopes)
    BY <1>1 DEF Sound
  <1>15. ASSUME NEW i \in 1..n, NEW m \in W[i].names
         PROVE  \/ Known(scopes', m, W[i])
                \/ \E k \in 1..n : /\ k < i /\ Body(work'[k]) /\ work'[k].s.name = m
                                   /\ W[k].scopes <= W[i].scopes
    <2>1. i \in Nat \ {0} /\ W[i] = K[i] /\ W[i].scopes = c.scopes + 1
      BY <1>5, <1>7, <1>9
    <2>2. \/ m \in c.names
          \/ s.kind = "Proc" /\ m = s.name
          \/ \E j \in 1..Len(s.decls) : j < i /\ HasBody(s.decls[j]) /\ s.decls[j].name = m
      <3>1. m \in Contexts(s, c)[i].names
        BY <2>1
      <3>2. s \in Node /\ c \in Context /\ <<s, c>> \in A.at /\ Reading(A)
            /\ i \in Nat \ {0} /\ (s.kind = "Block" \/ HasBody(s))
        BY <1>1, <2>1
      <3>3. NamedIn(s, c, i, m)
        <4> HIDE DEF c
        <4> QED BY <3>1, <3>2, NamesInside
      <3> QED BY <3>3 DEF NamedIn
    <2>3. CASE m \in c.names
      <3>1. \A k \in 1..Len(work) : ~(k < 1)
        OBVIOUS
      <3>2. Known(scopes, m, c)
        BY <1>3, <1>14, <2>3, <3>1 DEF NamesFit
      <3>3. PICK q \in 1..c.scopes : q \in 1..Len(scopes) /\ scopes[q][m] # 0
        BY <3>2 DEF Known
      <3>4. m \in Name /\ q \in 1..W[i].scopes /\ q \in 1..Len(scopes')
        BY <1>6, <2>1, <2>3, <3>3
      <3> QED BY <3>3, <3>4 DEF Known
    <2>4. CASE s.kind = "Proc" /\ m = s.name
      <3>1. Len(scopes) \in 1..W[i].scopes /\ Len(scopes) \in 1..Len(scopes')
        BY <1>2, <1>6, <2>1
      <3> QED BY <2>4, <3>1 DEF Known
    <2>5. CASE \E j \in 1..Len(s.decls) : j < i /\ HasBody(s.decls[j]) /\ s.decls[j].name = m
      <3>1. PICK j \in 1..Len(s.decls) : j < i /\ HasBody(s.decls[j]) /\ s.decls[j].name = m
        BY <2>5
      <3>2. j \in 1..n /\ work'[j] = Gen(s.decls[j]) /\ W[j] = K[j] /\ s.decls[j] \in Node
            /\ j \in Nat
        BY <1>4, <1>7, <1>9
      <3>3. Body(work'[j]) /\ work'[j].s.name = m
        BY <3>1, <3>2, GenFramed DEF Body
      <3>4. W[j].scopes = c.scopes + 1
        BY <1>5, <3>2
      <3>5. W[j].scopes <= W[i].scopes
        BY <1>6, <2>1, <3>4
      <3> QED BY <3>1, <3>2, <3>3, <3>5
    <2> QED BY <2>2, <2>3, <2>4, <2>5
  <1>16. ASSUME NEW j \in 2..Len(work), NEW m \in V[j].names, Known(scopes, m, V[j])
         PROVE  Known(scopes', m, V[j])
    <2>1. V[j] \in Context
      BY <1>1, <1>3
    <2>2. m \in Name
      BY <2>1 DEF Context
    <2> QED BY <1>13, <1>16, <2>1, <2>2
  <1>17. ASSUME Body(work[1]), NEW j \in 2..Len(work), V[1].scopes <= V[j].scopes
         PROVE  Known(scopes', work[1].s.name, V[j])
    <2>1. s.kind = "Proc" /\ work[1].s = s
      BY <1>3, <1>17 DEF Body, HasBody
    <2>2. V[j].scopes \in Nat
      BY <1>1, <1>3 DEF Context
    <2>3. Len(scopes) \in 1..V[j].scopes /\ Len(scopes) \in 1..Len(scopes')
      BY <1>2, <1>6, <1>17, <2>2
    <2> QED BY <2>1, <2>3 DEF Known
  <1>18. NamesFit(W, work', scopes')
    <2>1. NamesOfItems(W, n, work', scopes')
      <3> HIDE DEF n
      <3> QED BY <1>15 DEF NamesOfItems
    <2>2. NamesOfOthers(V, work, scopes, scopes')
      BY <1>16, <1>17 DEF NamesOfOthers
    <2> QED BY <1>9, <1>14, <2>1, <2>2, NamesKept
  <1> QED BY <1>9, <1>12, <1>18

(* A block opens a scope for its declarations and statements.              *)
LEMMA GenBlockSettled ==
    ASSUME IInv, NEW A, NEW V, Settled(A, V), GenBlock PROVE Resettled(A)'
  <1> DEFINE s == Top.s
             g == Frame("endblock", s, <<>>, <<>>)
             items == GenAll(s.decls) \o GenAll(s.stmts) \o <<g>>
             m == Len(s.decls)
             n == Len(items)
  <1>1. /\ work # <<>> /\ Top.k = "gen" /\ s.kind = "Block" /\ Continue(items)
        /\ FunctionUnchanged /\ LabelsUnchanged /\ scopes' = PushScope(scopes)
    BY DEF GenBlock, AtNode
  <1>2. /\ s \in Node /\ V[1] \in Context /\ <<s, V[1]>> \in A.at
        /\ LabelsOf(A, Top) = A.labels[s] /\ GotosOf(A, Top) = A.gotos[s] /\ Top = work[1]
    BY <1>1, NodeOnTop, TopIsFirst
  <1>3. Reading(A) /\ V \in [Nat -> Context] /\ Sound(A, V)
    BY DEF Settled
  <1>4. /\ s.decls \in Seq(Node) /\ s.stmts \in Seq(Node) /\ m \in Nat
        /\ DOMAIN s.decls = 1..m /\ DOMAIN s.stmts = 1..Len(s.stmts)
        /\ \A i \in 1..m :
              /\ s.decls[i] \in Node /\ s.decls[i].kind = "Proc"
              /\ A.labels[s.decls[i]] = {} /\ A.gotos[s.decls[i]] = {}
        /\ \A j \in 1..Len(s.stmts) : s.stmts[j] \in Node /\ Statement(s.stmts[j])
    <2>1. s.kind = "Block" \/ HasBody(s)
      BY <1>1
    <2>2. PICK c \in Context : <<s, c>> \in A.at
      BY <1>2
    <2> HIDE DEF s
    <2> QED BY <1>2, <1>3, <2>1, <2>2, BodyNodes
  <1>5. g \in FrameSet /\ g.s = s /\ g.k = "endblock"
    BY <1>2 DEF Frame, FrameSet, FrameKinds
  <1> HIDE DEF g
  <1>6. BodyItems(s.decls, s.stmts, g, items)
    BY <1>4, <1>5, BodyPushed
  <1> HIDE DEF items
  <1>7. /\ Len(scopes) \in Nat /\ Len(scopes') = Len(scopes) + 1
        /\ \A q \in 1..Len(scopes) : scopes'[q] = scopes[q]
    <2>1. scopes \in Seq([Name -> Nat])
      BY DEF IInv, Typed, TypeOK
    <2> QED BY <1>1, <2>1 DEF PushScope
  <1>8. PICK W \in [Nat -> Context] :
              /\ Moved(V, W, Len(items), work, work')
              /\ \A i \in 1..Len(items) : work'[i] = items[i]
              /\ Nesting(A, W)' /\ NamesFit(W, work', scopes')
    <2>1. /\ g.k = "endproc" => funcs'[g.to[1]] = V[1].owner
          /\ \A i \in 1..Len(funcs) : funcs'[i] = funcs[i]
          /\ funcs'[curFunc'] = funcs[curFunc]
          /\ s.kind # "Proc"
      BY <1>1, <1>5 DEF FunctionUnchanged
    <2>2. \A q \in 1..Len(scopes) : \A l \in Name : scopes[q][l] # 0 => scopes'[q][l] # 0
      BY <1>7
    <2>3. s = Top.s
      OBVIOUS
    <2> HIDE DEF s
    <2> QED BY <1>1, <1>5, <1>6, <1>7, <2>1, <2>2, <2>3, BodyEntered
  <1>9. /\ relabelled = {} /\ OneEach(labels) /\ Waiting(A, work, labels, pending)
    BY <1>3 DEF Sound, LabelsFit
  <1>10. LabelsPlaced(A, s, V[1])
    BY <1>2, <1>3 DEF Reading
  <1>11. /\ Children(s) = {s.stmts[i] : i \in 1..Len(s.stmts)} \cup {s.decls[i] : i \in 1..m}
    BY <1>1, <1>4 DEF Children
  <1>12. /\ A.labels[s] = UNION {A.labels[d] : d \in Children(s)}
         /\ A.gotos[s] = UNION {A.gotos[d] : d \in Children(s)}
    BY <1>1, <1>10 DEF LabelsPlaced
  <1>13. \A x \in Node : /\ Gen(x).k = "gen" /\ Gen(x).s = x
                         /\ LabelsOf(A, Gen(x)) = A.labels[x] /\ GotosOf(A, Gen(x)) = A.gotos[x]
    BY GenFramed
  <1>14. ASSUME NEW i \in 1..n PROVE Part(A, work[1], items[i])
    <2>1. CASE i = n
      <3>1. items[i] = g
        BY <1>6, <2>1 DEF BodyItems
      <3>2. Todo(g) = {} /\ ~Divides(g)
        BY <1>5 DEF Todo, Divides
      <3> QED BY <3>1, <3>2 DEF Part, LabelsOf, GotosOf
    <2>2. CASE \E j \in 1..m : items[i] = Gen(s.decls[j])
      <3>1. PICK j \in 1..m : items[i] = Gen(s.decls[j])
        BY <2>2
      <3> DEFINE x == s.decls[j]
      <3>2. x \in Node /\ x.kind = "Proc" /\ A.labels[x] = {} /\ A.gotos[x] = {}
        BY <1>4
      <3>3. Declares(x) => Declares(s)
        BY <1>1, <1>4, <3>2 DEF Declares
      <3>4. Divides(Gen(x)) => Divides(work[1])
        BY <1>1, <1>2, <1>13, <3>2, <3>3 DEF Divides
      <3> HIDE DEF x
      <3>5. items[i] = Gen(x)
        BY <3>1 DEF x
      <3> QED BY <1>13, <3>2, <3>4, <3>5 DEF Part
    <2>3. CASE \E j \in 1..Len(s.stmts) : items[i] = Gen(s.stmts[j])
      <3>1. PICK j \in 1..Len(s.stmts) : items[i] = Gen(s.stmts[j])
        BY <2>3
      <3> DEFINE x == s.stmts[j]
      <3>2. x \in Node /\ Statement(x) /\ x \in Children(s)
        BY <1>4, <1>11
      <3>3. A.labels[x] \subseteq A.labels[s] /\ A.gotos[x] \subseteq A.gotos[s]
        BY <1>12, <3>2
      <3>4. ~Declares(x)
        BY <3>2 DEF Declares, Statement, HasBody
      <3>5. ~Divides(Gen(x))
        BY <1>13, <3>2, <3>4 DEF Divides
      <3> HIDE DEF x, s
      <3>6. items[i] = Gen(x)
        BY <3>1 DEF x
      <3> QED BY <1>2, <1>13, <3>2, <3>3, <3>5, <3>6 DEF Part
    <2>4. Inner(s.decls, s.stmts, g, items)
      BY <1>6, BodyInner
    <2>5. \/ i = Len(items)
          \/ i # Len(items) /\ i \in 1..Len(s.decls) /\ items[i] = Gen(s.decls[i])
          \/ /\ i # Len(items) /\ i > Len(s.decls)
             /\ \E j \in 1..Len(s.stmts) : i = Len(s.decls) + j /\ items[i] = Gen(s.stmts[j])
      BY <2>4 DEF Inner
    <2> QED BY <2>1, <2>2, <2>3, <2>5
  <1>15. ASSUME NEW l \in LabelsOf(A, work[1])
         PROVE  \E i \in 1..n : l \in LabelsOf(A, items[i])
    <2>1. PICK d \in Children(s) : l \in A.labels[d]
      BY <1>2, <1>12
    <2>2. PICK j \in 1..Len(s.stmts) : d = s.stmts[j]
      BY <1>4, <1>11, <2>1
    <2>3. m + j \in 1..n
      <3>1. m \in Nat /\ Len(s.stmts) \in Nat /\ n = m + Len(s.stmts) + 1
        BY <1>6 DEF BodyItems
      <3>2. \A a, b \in Nat : \A k \in 1..b : a + k \in 1..(a + b + 1)
        OBVIOUS
      <3> QED BY <3>1, <3>2
    <2>4. items[m + j] = Gen(d)
      BY <1>6, <2>2 DEF BodyItems
    <2>5. d \in Node
      BY <1>4, <2>2
    <2>6. l \in LabelsOf(A, items[m + j])
      BY <1>13, <2>1, <2>4, <2>5
    <2> QED BY <2>3, <2>6
  <1> HIDE DEF n
  <1>16. n = Len(items)
    BY DEF n
  <1>17. Waiting(A, work', labels, pending)
    <2>1. \A i \in 1..n : Part(A, work[1], work'[i])
      BY <1>8, <1>14, <1>16
    <2>2. \A l \in LabelsOf(A, work[1]) : \E i \in 1..n : l \in LabelsOf(A, work'[i])
      <3> SUFFICES ASSUME NEW l \in LabelsOf(A, work[1])
                   PROVE  \E i \in 1..n : l \in LabelsOf(A, work'[i])
        OBVIOUS
      <3>1. PICK i \in 1..n : l \in LabelsOf(A, items[i])
        BY <1>15
      <3>2. work'[i] = items[i]
        BY <1>8, <1>16
      <3> QED BY <3>1, <3>2
    <2>3. Moved(V, W, n, work, work')
      BY <1>8, <1>16
    <2> QED BY <1>9, <2>1, <2>2, <2>3, WaitingKept
  <1>18. LabelsFit(A)'
    BY <1>1, <1>9, <1>17 DEF LabelsFit, LabelsUnchanged, OneEach
  <1> QED BY <1>8, <1>18 DEF Sound, Resettled

(* A procedure begins with no labels, and all the GOTOs of its body name   *)
(* labels of that body.                                                    *)
LEMMA WaitingInside ==
    ASSUME NEW A, NEW V, NEW W, NEW n, NEW fs, NEW gs, Moved(V, W, n, fs, gs),
           NEW lab, NEW pen, Waiting(A, fs, lab, pen), Divides(fs[1]),
           LabelsOf(A, fs[1]) = {},
           \A i \in 1..n : \A l \in GotosOf(A, gs[i]) :
               \E j \in 1..n : l \in LabelsOf(A, gs[j]),
           \A i \in 1..Len(gs) : LabelsOf(A, gs[i]) \subseteq Name
    PROVE  Waiting(A, gs, NoLabels, pen)
  <1>1. /\ n \in Nat /\ Len(fs) \in Nat \ {0} /\ 1..n \subseteq 1..Len(gs)
        /\ \A i \in 1..Len(gs) : i \in 1..n \/ \E j \in 2..Len(fs) :
              i = j + n - 1 /\ gs[i] = fs[j]
        /\ \A j \in 2..Len(fs) : j + n - 1 \in 1..Len(gs) /\ gs[j + n - 1] = fs[j]
    BY DEF Moved
  <1>2. 1 \in 1..Len(fs) /\ 2..Len(fs) \subseteq 1..Len(fs)
        /\ \A i \in 1..Len(fs) : i = 1 \/ i \in 2..Len(fs)
    BY <1>1
  <1>3. \A i \in 1..Len(fs) : ~Open(fs, i)
    <2>1. \A i \in 1..Len(fs) : 1 \in 1..i
      BY <1>1
    <2> QED BY <2>1 DEF Open
  <1>4. pen = {}
    BY <1>3 DEF Waiting
  <1>5. ASSUME NEW i \in 1..Len(gs), NEW l \in GotosOf(A, gs[i]) PROVE Awaited(A, gs, l)
    <2>1. CASE i \in 1..n
      BY <1>1, <2>1 DEF Awaited
    <2>2. CASE i \notin 1..n
      <3>1. PICK j \in 2..Len(fs) : gs[i] = fs[j]
        BY <1>1, <2>2
      <3>2. Awaited(A, fs, l)
        BY <1>2, <1>3, <3>1 DEF Waiting
      <3>3. PICK k \in 1..Len(fs) : l \in LabelsOf(A, fs[k])
        BY <3>2 DEF Awaited
      <3>4. k \in 2..Len(fs)
        BY <1>2, <3>3
      <3> QED BY <1>1, <3>3, <3>4 DEF Awaited
    <2> QED BY <2>1, <2>2
  <1>6. ASSUME NEW i \in 1..Len(gs), NEW l \in LabelsOf(A, gs[i]) PROVE NoLabels[l] = 0
    BY DEF NoLabels
  <1> QED BY <1>4, <1>5, <1>6 DEF Waiting

(* setSymbol gives the name its procedure and hides nothing.               *)
LEMMA SymbolSet ==
    ASSUME NEW sc \in Seq([Name -> Nat]), Len(sc) \in Nat \ {0},
           NEW n \in Name, NEW f \in Nat, f # 0
    PROVE  /\ Len(SetSymbol(sc, n, f)) = Len(sc)
           /\ SetSymbol(sc, n, f) \in Seq([Name -> Nat])
           /\ \A q \in 1..Len(sc) : \A l \in Name :
                 sc[q][l] # 0 => SetSymbol(sc, n, f)[q][l] # 0
           /\ SetSymbol(sc, n, f)[Len(sc)][n] = f
  <1> DEFINE x == [sc[Len(sc)] EXCEPT ![n] = f]
             new == [sc EXCEPT ![Len(sc)] = x]
  <1>1. SetSymbol(sc, n, f) = new
    BY DEF SetSymbol
  <1>2. Len(sc) \in 1..Len(sc) /\ sc[Len(sc)] \in [Name -> Nat]
    OBVIOUS
  <1>3. /\ x \in [Name -> Nat] /\ x[n] = f
        /\ \A l \in Name : sc[Len(sc)][l] # 0 => x[l] # 0
    BY <1>2
  <1> HIDE DEF x
  <1>4. /\ new \in Seq([Name -> Nat]) /\ Len(new) = Len(sc)
        /\ \A q \in 1..Len(sc) : new[q] = IF q = Len(sc) THEN x ELSE sc[q]
    BY <1>2, <1>3, ExceptSeq
  <1> HIDE DEF new
  <1>5. ASSUME NEW q \in 1..Len(sc), NEW l \in Name, sc[q][l] # 0 PROVE new[q][l] # 0
    BY <1>3, <1>4, <1>5
  <1> QED BY <1>1, <1>2, <1>3, <1>4, <1>5

(* A procedure names itself and opens a body with labels of its own.       *)
LEMMA GenProcSettled ==
    ASSUME IInv, NEW A, NEW V, Settled(A, V), GenProc PROVE Resettled(A)'
  <1> DEFINE s == Top.s
             fn == Len(funcs) + 1
             g == Frame("endproc", s, <<curFunc>>, <<insert>>)
             items == GenAll(s.decls) \o GenAll(s.stmts) \o <<g>>
             m == Len(s.decls)
             n == Len(items)
  <1>1. /\ work # <<>> /\ Top.k = "gen" /\ s.kind = "Proc" /\ HasBody(s) /\ Continue(items)
        /\ status = "generating"
        /\ funcs' = Append(funcs, <<s>>) /\ curFunc' = fn /\ labels' = NoLabels
        /\ scopes' = PushScope(SetSymbol(scopes, s.name, fn))
        /\ UNCHANGED <<pending, relabelled>>
    BY DEF GenProc, AtNode, HasBody
  <1>2. /\ s \in Node /\ V[1] \in Context /\ <<s, V[1]>> \in A.at
        /\ LabelsOf(A, Top) = A.labels[s] /\ Top = work[1]
    BY <1>1, NodeOnTop, TopIsFirst
  <1>3. Reading(A) /\ V \in [Nat -> Context] /\ Sound(A, V)
    BY DEF Settled
  <1>4. /\ s.decls \in Seq(Node) /\ s.stmts \in Seq(Node) /\ m \in Nat
        /\ DOMAIN s.decls = 1..m /\ DOMAIN s.stmts = 1..Len(s.stmts)
        /\ \A i \in 1..m :
              /\ s.decls[i] \in Node /\ s.decls[i].kind = "Proc"
              /\ A.labels[s.decls[i]] = {} /\ A.gotos[s.decls[i]] = {}
        /\ \A j \in 1..Len(s.stmts) : s.stmts[j] \in Node /\ Statement(s.stmts[j])
    <2>1. PICK c \in Context : <<s, c>> \in A.at
      BY <1>2
    <2> HIDE DEF s
    <2> QED BY <1>1, <1>2, <1>3, <2>1, BodyNodes
  <1>5. /\ curFunc \in Nat /\ curFunc \in 1..Len(funcs) /\ Len(funcs) \in Nat
        /\ insert \in Nat /\ funcs \in Seq(Optional(Node)) /\ s.name \in Name
    <2>1. /\ curFunc \in Nat /\ curFunc \in 1..Len(funcs) /\ Len(funcs) \in Nat
          /\ insert \in 1..Len(blocks) /\ Len(blocks) \in Nat
          /\ WellFormedNode(s, Node, Name, Expr)
      BY <1>1, Begin
    <2> QED BY <1>1, <2>1 DEF IInv, Typed, TypeOK, WellFormedNode
  <1>6. g \in FrameSet /\ g.s = s /\ g.k = "endproc" /\ g.to[1] = curFunc
    <2>1. <<curFunc>> \in Seq(Nat) /\ <<insert>> \in Seq(Nat) /\ <<curFunc>>[1] = curFunc
      BY <1>5
    <2> HIDE DEF s
    <2> QED BY <1>2, <2>1 DEF Frame, FrameSet, FrameKinds
  <1> HIDE DEF g
  <1>7. BodyItems(s.decls, s.stmts, g, items)
    BY <1>4, <1>6, BodyPushed
  <1> HIDE DEF items
  <1>8. funcs[curFunc] = V[1].owner /\ V[1].scopes = Len(scopes)
    BY <1>1, <1>3, TopSound
  <1>9. /\ Len(scopes) \in Nat /\ Len(scopes') = Len(scopes) + 1
        /\ \A q \in 1..Len(scopes) : \A l \in Name : scopes[q][l] # 0 => scopes'[q][l] # 0
        /\ scopes'[Len(scopes)][s.name] # 0
    <2>1. scopes \in Seq([Name -> Nat]) /\ fn \in Nat /\ fn # 0
      BY <1>5 DEF IInv, Typed, TypeOK
    <2>2. Len(scopes) \in Nat \ {0}
      BY <1>2, <1>8 DEF Context
    <2> DEFINE new == SetSymbol(scopes, s.name, fn)
    <2>3. /\ Len(new) = Len(scopes)
          /\ new \in Seq([Name -> Nat])
          /\ \A q \in 1..Len(scopes) : \A l \in Name : scopes[q][l] # 0 => new[q][l] # 0
          /\ new[Len(scopes)][s.name] = fn
      <3>1. s.name \in Name
        BY <1>5
      <3> HIDE DEF fn, s, new
      <3> QED BY <2>1, <2>2, <3>1, SymbolSet DEF new
    <2>4. scopes' = Append(new, NoSymbols)
      BY <1>1 DEF PushScope
    <2> HIDE DEF new, fn, s
    <2>5. Len(scopes') = Len(new) + 1 /\ \A q \in 1..Len(new) : scopes'[q] = new[q]
      BY <2>3, <2>4
    <2>6. Len(scopes') = Len(scopes) + 1 /\ \A q \in 1..Len(scopes) : scopes'[q] = new[q]
      BY <2>3, <2>5
    <2>7. Len(scopes) \in 1..Len(scopes) /\ scopes'[Len(scopes)] = new[Len(scopes)]
      BY <2>2, <2>6
    <2>8. \A q \in 1..Len(scopes) : \A l \in Name : scopes[q][l] # 0 => scopes'[q][l] # 0
      BY <2>3, <2>6
    <2>9. scopes'[Len(scopes)][s.name] # 0
      BY <2>1, <2>3, <2>7
    <2> QED BY <2>2, <2>6, <2>8, <2>9
  <1>10. /\ \A i \in 1..Len(funcs) : funcs'[i] = funcs[i]
         /\ funcs'[curFunc'] = <<s>>
    BY <1>1, <1>5
  <1>11. PICK W \in [Nat -> Context] :
              /\ Moved(V, W, Len(items), work, work')
              /\ \A i \in 1..Len(items) : work'[i] = items[i]
              /\ Nesting(A, W)' /\ NamesFit(W, work', scopes')
    <2>1. g.k = "endproc" => funcs'[g.to[1]] = V[1].owner
      BY <1>5, <1>6, <1>8, <1>10
    <2>2. s = Top.s
      OBVIOUS
    <2> HIDE DEF s, fn
    <2> QED BY <1>1, <1>6, <1>7, <1>9, <1>10, <2>1, <2>2, BodyEntered
  <1>12. /\ relabelled = {} /\ Waiting(A, work, labels, pending)
    BY <1>3 DEF Sound, LabelsFit
  <1>13. LabelsPlaced(A, s, V[1])
    BY <1>2, <1>3 DEF Reading
  <1>14. LabelsOf(A, work[1]) = {} /\ Divides(work[1]) /\ Resolved(A, s)
    <2>1. A.labels[s] = {} /\ Resolved(A, s)
      BY <1>1, <1>13 DEF LabelsPlaced
    <2> QED BY <1>1, <1>2, <2>1 DEF Divides, Declares
  <1>15. \A x \in Node : /\ LabelsOf(A, Gen(x)) = A.labels[x]
                         /\ GotosOf(A, Gen(x)) = A.gotos[x]
    BY GenFramed
  <1> HIDE DEF n
  <1>16. n = Len(items)
    BY DEF n
  <1>17. ASSUME NEW j \in 1..Len(s.stmts) PROVE m + j \in 1..n /\ work'[m + j] = Gen(s.stmts[j])
    <2>1. m + j \in 1..n
      <3>1. m \in Nat /\ Len(s.stmts) \in Nat /\ n = m + Len(s.stmts) + 1
        BY <1>7, <1>16 DEF BodyItems
      <3>2. \A a, b \in Nat : \A k \in 1..b : a + k \in 1..(a + b + 1)
        OBVIOUS
      <3> QED BY <3>1, <3>2
    <2>2. items[m + j] = Gen(s.stmts[j])
      BY <1>7 DEF BodyItems
    <2>3. work'[m + j] = items[m + j]
      BY <1>11, <1>16, <2>1
    <2> QED BY <2>1, <2>2, <2>3
  <1>18. ASSUME NEW i \in 1..n, NEW l \in GotosOf(A, work'[i])
         PROVE  \E j \in 1..n : l \in LabelsOf(A, work'[j])
    <2>1. work'[i] = items[i]
      BY <1>11, <1>16
    <2>2. Inner(s.decls, s.stmts, g, items)
      BY <1>7, BodyInner
    <2>3. \/ i = Len(items)
          \/ i # Len(items) /\ i \in 1..Len(s.decls) /\ items[i] = Gen(s.decls[i])
          \/ /\ i # Len(items) /\ i > Len(s.decls)
             /\ \E j \in 1..Len(s.stmts) : i = Len(s.decls) + j /\ items[i] = Gen(s.stmts[j])
      BY <1>16, <2>2 DEF Inner
    <2>4. CASE i = Len(items)
      <3>1. items[i] = g
        BY <1>7, <2>4 DEF BodyItems
      <3>2. Todo(g) = {}
        BY <1>6 DEF Todo
      <3> QED BY <2>1, <3>1, <3>2 DEF GotosOf
    <2>5. CASE i \in 1..Len(s.decls) /\ items[i] = Gen(s.decls[i])
      <3> DEFINE x == s.decls[i]
      <3>1. x \in Node /\ A.gotos[x] = {} /\ items[i] = Gen(x)
        BY <1>4, <2>5
      <3> HIDE DEF x
      <3> QED BY <1>15, <2>1, <3>1
    <2>6. CASE \E j \in 1..Len(s.stmts) : items[i] = Gen(s.stmts[j])
      <3>1. PICK j \in 1..Len(s.stmts) : items[i] = Gen(s.stmts[j])
        BY <2>6
      <3> DEFINE x == s.stmts[j]
      <3>2. x \in Node /\ items[i] = Gen(x)
        BY <1>4, <3>1
      <3> HIDE DEF x
      <3>3. l \in A.gotos[s.stmts[j]]
        <4>1. l \in A.gotos[x]
          BY <1>15, <2>1, <3>2
        <4> QED BY <4>1 DEF x
      <3>4. PICK k \in 1..Len(s.stmts) : l \in A.labels[s.stmts[k]]
        BY <1>4, <1>14, <3>3 DEF Resolved
      <3>5. m + k \in 1..n /\ work'[m + k] = Gen(s.stmts[k]) /\ s.stmts[k] \in Node
        BY <1>4, <1>17
      <3>6. LabelsOf(A, work'[m + k]) = A.labels[s.stmts[k]]
        BY <1>15, <3>5
      <3> QED BY <3>4, <3>5, <3>6
    <2> QED BY <2>3, <2>4, <2>5, <2>6
  <1>19. Waiting(A, work', NoLabels, pending)
    <2>1. \A i \in 1..Len(work') : LabelsOf(A, work'[i]) \subseteq Name
      <3>1. \A i \in 1..Len(work') : Judged(A, work'[i], W[i])
        BY <1>11 DEF Nesting, Stacked
      <3> QED BY <1>3, <3>1, LabelsAreNames
    <2>2. Moved(V, W, n, work, work')
      BY <1>11, <1>16
    <2> QED BY <1>12, <1>14, <1>18, <2>1, <2>2, WaitingInside
  <1>20. LabelsFit(A)'
    <2>1. OneEach(labels')
      BY <1>1 DEF OneEach, NoLabels
    <2> QED BY <1>1, <1>12, <1>19, <2>1 DEF LabelsFit, OneEach
  <1> QED BY <1>11, <1>20 DEF Sound, Resettled

(* The scope of a body is closed when nothing of it is left.               *)
LEMMA BodyEndsSettled ==
    ASSUME IInv, NEW A, NEW V, Settled(A, V), EndBlock \/ EndProc PROVE Resettled(A)'
  <1>1. /\ work # <<>> /\ status = "generating" /\ Continue(<<>>) /\ UNCHANGED funcs
        /\ LabelsUnchanged /\ scopes' = PopScope(scopes)
        /\ Top.k \in {"endblock", "endproc"}
        /\ curFunc' = IF Top.k = "endproc" THEN Top.to[1] ELSE curFunc
    BY DEF EndBlock, EndProc, AtFrame, FunctionUnchanged
  <1>2. Reading(A) /\ V \in [Nat -> Context] /\ Sound(A, V)
    BY DEF Settled
  <1>3. /\ V[1] \in Context /\ V[2] \in Context /\ Under(funcs, Top, V[1], V[2])
        /\ V[1].scopes = Len(scopes) /\ funcs[curFunc] = V[1].owner
        /\ \A j \in 2..Len(work) : Above(A, Top, work[j], V[1], V[j])
    BY <1>1, <1>2, TopSound
  <1>4. Top = work[1] /\ Len(work) \in Nat \ {0}
    BY <1>1, TopIsFirst
  <1>5. Todo(Top) = {} /\ LabelsOf(A, Top) = {} /\ ~Body(Top)
    <2>1. Todo(Top) = {} /\ ~Body(Top)
      BY <1>1 DEF Todo, Body
    <2> QED BY <2>1 DEF LabelsOf
  <1> DEFINE items == <<>>
             K == V
  <1>6. items \in Seq(FrameSet) /\ Len(items) = 0 /\ 1..0 = {} /\ Continue(items)
    BY <1>1
  <1> HIDE DEF items
  <1>7. PICK W \in [Nat -> Context] :
              /\ Moved(V, W, Len(items), work, work')
              /\ \A i \in 1..Len(items) : work'[i] = items[i] /\ W[i] = K[i]
    <2>1. PICK W : Follows(V, K, items, W, work, work')
      BY <1>1, <1>2, <1>6, StackMoved
    <2> QED BY <2>1 DEF Follows
  <1>8. Stacked(A, funcs, W, work')
    <2>1. Carries(A, funcs, work[1], V[1], V[2], items, K)
      BY <1>6 DEF Carries
    <2>2. Stacked(A, funcs, V, work)
      BY <1>2 DEF Sound, Nesting
    <2> QED BY <1>2, <1>7, <2>1, <2>2, StackedKept
  <1>9. W[1] = V[2]
    BY <1>6, <1>7 DEF Moved
  <1>10. /\ Len(scopes) \in Nat \ {0} /\ Len(scopes') = Len(scopes) - 1
         /\ \A q \in 1..(Len(scopes) - 1) : scopes'[q] = scopes[q]
    <2>1. scopes \in Seq([Name -> Nat])
      BY DEF IInv, Typed, TypeOK
    <2>2. Len(scopes) \in Nat \ {0}
      BY <1>3 DEF Context
    <2>3. /\ SubSeq(scopes, 1, Len(scopes) - 1) \in Seq([Name -> Nat])
          /\ Len(SubSeq(scopes, 1, Len(scopes) - 1)) = Len(scopes) - 1
          /\ \A q \in 1..(Len(scopes) - 1) :
                SubSeq(scopes, 1, Len(scopes) - 1)[q] = scopes[q]
      <3>1. PICK n \in Nat : n = Len(scopes) - 1
        BY <2>2
      <3>2. /\ 1 \in Int /\ n \in Int /\ n - 1 + 1 = n
            /\ \A i \in 1..n : 1 + i - 1 = i /\ i \in 1..Len(scopes)
        BY <2>2, <3>1
      <3>3. \A i \in 1..n : scopes[i] \in [Name -> Nat]
        BY <2>1, <3>2
      <3>4. /\ SubSeq(scopes, 1, n) \in Seq([Name -> Nat])
            /\ Len(SubSeq(scopes, 1, n)) = IF 1 <= n THEN n - 1 + 1 ELSE 0
            /\ \A i \in 1..(n - 1 + 1) : SubSeq(scopes, 1, n)[i] = scopes[1 + i - 1]
        BY <3>2, <3>3, SubSeqProperties
      <3>5. Len(SubSeq(scopes, 1, n)) = n
        BY <3>1, <3>4
      <3>6. \A i \in 1..n : SubSeq(scopes, 1, n)[i] = scopes[i]
        BY <3>2, <3>4
      <3> QED BY <3>1, <3>4, <3>5, <3>6
    <2> QED BY <1>1, <2>2, <2>3 DEF PopScope
  <1>11. Nesting(A, W)'
    <2>1. W[1].scopes = Len(scopes')
      BY <1>1, <1>3, <1>9, <1>10 DEF Under
    <2>2. funcs[curFunc'] = W[1].owner
      BY <1>1, <1>3, <1>9 DEF Under
    <2> QED BY <1>1, <1>8, <2>1, <2>2 DEF Nesting
  <1>12. NamesFit(W, work', scopes')
    <2>1. NamesFit(V, work, scopes)
      BY <1>2 DEF Sound
    <2>2. ASSUME NEW j \in 2..Len(work), NEW m \in V[j].names, Known(scopes, m, V[j])
          PROVE  Known(scopes', m, V[j])
      <3>1. V[j].scopes < V[1].scopes
        BY <1>1, <1>3 DEF Above
      <3>2. V[j].scopes \in Nat
        BY <1>2, <1>4 DEF Context
      <3>3. PICK q \in 1..V[j].scopes : q \in 1..Len(scopes) /\ scopes[q][m] # 0
        BY <2>2 DEF Known
      <3>4. q \in 1..(Len(scopes) - 1) /\ q \in 1..Len(scopes')
        BY <1>3, <1>10, <3>1, <3>2, <3>3
      <3> QED BY <1>10, <3>3, <3>4 DEF Known
    <2>3. NamesOfItems(W, Len(items), work', scopes')
      BY <1>6 DEF NamesOfItems
    <2>4. NamesOfOthers(V, work, scopes, scopes')
      BY <1>4, <1>5, <2>2 DEF NamesOfOthers
    <2> QED BY <1>7, <2>1, <2>3, <2>4, NamesKept
  <1>13. relabelled = {} /\ OneEach(labels) /\ Waiting(A, work, labels, pending)
    BY <1>2 DEF Sound, LabelsFit
  <1>14. Waiting(A, work', labels, pending)
    <2>1. 1..Len(items) = {}
      BY <1>6
    <2> QED BY <1>4, <1>5, <1>7, <1>13, <2>1, WaitingKept
  <1>15. LabelsFit(A)'
    BY <1>1, <1>13, <1>14 DEF LabelsFit, LabelsUnchanged, OneEach
  <1> QED BY <1>11, <1>12, <1>15 DEF Sound, Resettled

(***************************************************************************)
(* Every step.                                                             *)
(***************************************************************************)
(* A CALL names a procedure that is in scope.                              *)
LEMMA CallsAreKnown ==
    ASSUME IInv, NEW A, NEW V, Settled(A, V), GenCall PROVE status' # "error"
  <1> DEFINE n == Top.s.name
  <1>1. /\ work # <<>> /\ Top.k = "gen" /\ Top.s.kind = "Call" /\ status = "generating"
        /\ LookupSymbol(scopes, n) # 0 => status' = status
    BY DEF GenCall, AtNode
  <1>2. Top.s \in Node /\ <<Top.s, V[1]>> \in A.at /\ 1 \in 1..Len(work) /\ V[1] \in Context
    BY <1>1, NodeOnTop, TopIsFirst
  <1>3. n \in V[1].names
    <2>1. Admitted(Top.s, V[1])
      BY <1>2 DEF Settled, Reading
    <2> QED BY <1>1, <2>1 DEF Admitted
  <1>4. NamesFit(V, work, scopes)
    BY DEF Settled, Sound
  <1>5. Known(scopes, n, V[1])
    <2>1. \A k \in 1..Len(work) : ~(k < 1)
      OBVIOUS
    <2> QED BY <1>2, <1>3, <1>4, <2>1 DEF NamesFit
  <1>6. Declaring(scopes, n) # {} /\ scopes \in Seq([Name -> Nat])
    <2>1. scopes \in Seq([Name -> Nat])
      BY DEF IInv, Typed, TypeOK
    <2>2. DOMAIN scopes = 1..Len(scopes)
      BY <2>1, LenProperties
    <2> QED BY <1>5, <2>1, <2>2 DEF Declaring, Known
  <1>7. LookupSymbol(scopes, n) # 0
    <2> DEFINE D == Declaring(scopes, n)
               last == CHOOSE i \in D : \A j \in D : j <= i
    <2>1. \E i \in D : \A j \in D : j <= i
      BY <1>6, InnermostDeclaring
    <2> HIDE DEF D
    <2>2. last \in D
      BY <2>1
    <2> HIDE DEF last
    <2>3. scopes[last][n] # 0
      BY <2>2 DEF D, Declaring
    <2>4. LookupSymbol(scopes, n) = scopes[last][n]
      BY <1>6 DEF LookupSymbol, last, D
    <2> QED BY <2>3, <2>4
  <1> QED BY <1>1, <1>7

(* Whatever is generated next, the rest is still in order.                 *)
LEMMA StepSettled ==
    ASSUME IInv, NEW A, NEW V, Settled(A, V), [Next]_vars, status' = "generating"
    PROVE  Resettled(A)'
  <1>1. CASE UNCHANGED vars
    <2>1. Nesting(A, V)' /\ LabelsFit(A)' /\ NamesFit(V, work', scopes')
      BY <1>1 DEF Settled, Sound, Nesting, LabelsFit, OneEach, vars
    <2> QED BY <2>1 DEF Settled, Sound, Resettled
  <1>2. CASE GenStraightLine \/ GenReturn \/ GenForward \/ GenCall
    BY <1>2, LeavesSettled
  <1>3. CASE EndElse \/ EndWhile \/ EndFor \/ EndDo \/ EndRepeat \/ EndArm \/ EndCase
    BY <1>3, EndsSettled
  <1>4. CASE GenWhile \/ GenFor
    BY <1>4, LoopsSettled
  <1>5. CASE GenDo \/ GenRepeat
    BY <1>5, GenListSettled
  <1>6. CASE EndBlock \/ EndProc
    BY <1>6, BodyEndsSettled
  <1>7. CASE GenBlock \/ GenProc
    BY <1>7, GenBlockSettled, GenProcSettled
  <1>8. CASE GenIf \/ EndThen
    BY <1>8, GenIfSettled, EndThenSettled
  <1>9. CASE GenCase \/ GenArm
    BY <1>9, GenCaseSettled, GenArmSettled
  <1>10. CASE GenGoto \/ GenLabel
    BY <1>10, GenGotoSettled, GenLabelSettled
  <1>11. CASE Finish
    BY <1>11 DEF Finish
  <1> QED BY <1>1, <1>2, <1>3, <1>4, <1>5, <1>6, <1>7, <1>8, <1>9, <1>10, <1>11 DEF Next

(* The program itself stands where nothing is around it.                   *)
LEMMA InitSettled ==
    ASSUME Init, NEW A, Legal(A, prog)
    PROVE  Reading(A) /\ Resettled(A)
  <1> DEFINE V == [i \in Nat |-> Outermost]
             f == Gen(prog)
  <1>1. prog \in Node /\ prog.kind = "Block" /\ <<prog, Outermost>> \in A.at
        /\ Reading(A) /\ Resolved(A, prog)
    BY ProgramsAssumption DEF Init, Legal
  <1>2. Outermost \in Context
    <2>1. <<>> \in Seq(Node) /\ Len(<<>>) = 0
      OBVIOUS
    <2> QED BY <2>1 DEF Outermost, Context, Optional
  <1>3. V \in [Nat -> Context] /\ V[1] = Outermost /\ V[2] = Outermost /\ V[1 + 1] = Outermost
    BY <1>2
  <1> HIDE DEF V
  <1>4. /\ f.k = "gen" /\ f.s = prog /\ Todo(f) = {prog}
        /\ LabelsOf(A, f) = A.labels[prog] /\ GotosOf(A, f) = A.gotos[prog]
    BY <1>1, GenFramed
  <1>5. work = <<f>> /\ scopes = <<NoSymbols>> /\ funcs = << <<>> >> /\ curFunc = 1
        /\ labels = NoLabels /\ pending = {} /\ relabelled = {}
    BY DEF Init
  <1> HIDE DEF f
  <1>6. Len(work) = 1 /\ work[1] = f /\ 1..1 = {1} /\ Len(scopes) = 1 /\ funcs[curFunc] = <<>>
    BY <1>5
  <1>7. Nesting(A, V)
    <2>1. Judged(A, f, Outermost)
      BY <1>1, <1>4 DEF Judged
    <2>2. Under(funcs, f, Outermost, Outermost)
      BY <1>4 DEF Under
    <2>3. Stacked(A, funcs, V, work)
      <3>1. V[Len(work) + 1].owner = <<>>
        BY <1>3, <1>6 DEF Outermost
      <3>2. ASSUME NEW i \in 1..Len(work)
            PROVE  Judged(A, work[i], V[i]) /\ Under(funcs, work[i], V[i], V[i + 1])
        <4>1. i = 1
          BY <1>6
        <4> QED BY <1>3, <1>6, <2>1, <2>2, <4>1
      <3>3. \A i, j \in 1..Len(work) : ~(i < j)
        BY <1>6
      <3> QED BY <3>1, <3>2, <3>3 DEF Stacked
    <2> QED BY <1>3, <1>6, <2>3 DEF Nesting, Outermost
  <1>8. A.gotos[prog] \subseteq A.labels[prog] /\ A.labels[prog] \subseteq Name
    <2> DEFINE s == prog
    <2>1. /\ DOMAIN s.decls = 1..Len(s.decls) /\ DOMAIN s.stmts = 1..Len(s.stmts)
          /\ \A i \in 1..Len(s.decls) : A.gotos[s.decls[i]] = {}
      BY <1>1, <1>2, BodyNodes
    <2>2. LabelsPlaced(A, s, Outermost)
      BY <1>1 DEF Reading
    <2>3. Children(s) = {s.stmts[i] : i \in DOMAIN s.stmts} \cup {s.decls[i] : i \in DOMAIN s.decls}
      BY <1>1 DEF Children
    <2>4. /\ A.labels[s] = UNION {A.labels[d] : d \in Children(s)}
          /\ A.gotos[s] = UNION {A.gotos[d] : d \in Children(s)}
      BY <1>1, <2>2 DEF LabelsPlaced
    <2>5. ASSUME NEW l \in A.gotos[s] PROVE l \in A.labels[s]
      <3>1. PICK d \in Children(s) : l \in A.gotos[d]
        BY <2>4
      <3>2. PICK i \in DOMAIN s.stmts : d = s.stmts[i]
        BY <2>1, <2>3, <3>1
      <3>3. PICK j \in DOMAIN s.stmts : l \in A.labels[s.stmts[j]]
        BY <1>1, <3>1, <3>2 DEF Resolved
      <3>4. s.stmts[j] \in Children(s)
        BY <2>3
      <3> QED BY <2>4, <3>3, <3>4
    <2> QED BY <1>1, <2>5 DEF Reading
  <1>9. LabelsFit(A)
    <2>1. \A l \in A.labels[prog] : NoLabels[l] = 0
      BY <1>8 DEF NoLabels
    <2>2. OneEach(labels)
      BY <1>5 DEF OneEach, NoLabels
    <2>3. Waiting(A, work, labels, pending)
      BY <1>4, <1>5, <1>6, <1>8, <2>1 DEF Waiting, Awaited
    <2> QED BY <1>5, <2>2, <2>3 DEF LabelsFit
  <1>10. NamesFit(V, work, scopes)
    BY <1>3, <1>6 DEF NamesFit, Outermost
  <1> QED BY <1>1, <1>3, <1>7, <1>9, <1>10 DEF Resettled, Sound

-----------------------------------------------------------------------------
(***************************************************************************)
(* Every instruction suits the function it is in: RETURNs fit (nothing but *)
(* the 0 that generate adds returns from main), and the case values of a   *)
(* switch differ.                                                          *)
(***************************************************************************)
Suits(o, i) == /\ i.op = "retvoid" => o # <<>> /\ o[1].ret = "void"
               /\ i.op = "ret"     => IF o = <<>> THEN i.e = <<>>
                                      ELSE o[1].ret = "value"
               /\ i.op = "switch"  => Distinct(i.arg)
SuitsAll(o, ins) == \A i \in DOMAIN ins : Suits(o, ins[i])
BlocksSuit(fns, bs) == \A b \in 1..Len(bs) : /\ bs[b].fn \in 1..Len(fns)
                                             /\ SuitsAll(fns[bs[b].fn], bs[b].ins)

(* The values of a CASE that are in the switch already are those before    *)
(* that of the next arm, so the arms yet to come bring new ones.           *)
Earlier(arg, vals, k) ==
    \A v \in DOMAIN arg : \E j \in DOMAIN vals : j < k /\ arg[v] = vals[j]
SwitchSuits(bs, b, p, vals, k) ==
    /\ b \in 1..Len(bs) /\ p \in DOMAIN bs[b].ins
    /\ Distinct(vals) /\ Earlier(bs[b].ins[p].arg, vals, k)
ArmSuits(bs, f) ==
    f.k = "arm" => SwitchSuits(bs, f.to[1], f.to[2], CaseValues(f.s), f.to[3])
SameSwitch(f, g) == /\ f.k = "arm" /\ g.k = "arm"
                    /\ f.to[1] = g.to[1] /\ f.to[2] = g.to[2]
ArmsSuit(bs, w) ==
    /\ \A i \in 1..Len(w) : ArmSuits(bs, w[i])
    /\ \A i, j \in 1..Len(w) : i < j /\ SameSwitch(w[i], w[j]) =>
          w[i].s = w[j].s /\ w[i].to[3] < w[j].to[3]

(* Blocks to which instructions and blocks were added.                     *)
Lengthened(bs) ==
    /\ bs \in Seq(BlockSet) /\ Len(bs) \in Nat /\ Len(blocks) <= Len(bs)
    /\ \A b \in 1..Len(blocks) : \A i \in DOMAIN blocks[b].ins :
          i \in DOMAIN bs[b].ins /\ bs[b].ins[i] = blocks[b].ins[i]
Added(bs) == Lengthened(bs) /\ BlocksSuit(funcs, bs)

(* The instructions that suit every function.                              *)
Common == {i \in InstructionSet : i.op \notin {"ret", "retvoid", "switch"}}

(* Creating blocks.                                                        *)
LEMMA LengthenedCreate ==
    ASSUME NEW bs, Lengthened(bs), Len(blocks) \in Nat, NEW n \in Nat, NEW fn \in Nat,
           NEW cs, cs = Create(bs, n, fn)
    PROVE  /\ Lengthened(cs) /\ Len(cs) = Len(bs) + n
           /\ \A b \in 1..Len(cs) : \/ b \in 1..Len(bs) /\ cs[b] = bs[b]
                                    \/ cs[b].fn = fn /\ DOMAIN cs[b].ins = {}
  <1>1. bs \in Seq(BlockSet) /\ Len(bs) \in Nat /\ Len(blocks) <= Len(bs)
    BY DEF Lengthened
  <1>2. /\ cs \in Seq(BlockSet) /\ Len(cs) = Len(bs) + n
        /\ \A b \in 1..Len(bs) : cs[b] = bs[b]
        /\ \A b \in (Len(bs) + 1)..(Len(bs) + n) : cs[b] = [fn |-> fn, ins |-> <<>>]
    <2>1. \A m, h \in Nat :
            /\ Create(bs, m, h) \in Seq(BlockSet)
            /\ Len(Create(bs, m, h)) = Len(bs) + m
            /\ \A b \in 1..Len(bs) : Create(bs, m, h)[b] = bs[b]
            /\ \A b \in (Len(bs) + 1)..(Len(bs) + m) :
                  Create(bs, m, h)[b] = [fn |-> h, ins |-> <<>>]
      BY <1>1, CreateBelongs
    <2> QED BY <2>1
  <1>3. \A b \in 1..Len(cs) : b \in 1..Len(bs) \/ b \in (Len(bs) + 1)..(Len(bs) + n)
    BY <1>1, <1>2
  <1>4. \A b \in (Len(bs) + 1)..(Len(bs) + n) : cs[b].fn = fn /\ DOMAIN cs[b].ins = {}
    BY <1>2
  <1>5. \A b \in 1..Len(blocks) : b \in 1..Len(bs)
    BY <1>1
  <1>6. Len(cs) \in Nat /\ Len(blocks) <= Len(cs)
    BY <1>1, <1>2
  <1>7. ASSUME NEW b \in 1..Len(blocks), NEW i \in DOMAIN blocks[b].ins
        PROVE  i \in DOMAIN cs[b].ins /\ cs[b].ins[i] = blocks[b].ins[i]
    <2>1. cs[b] = bs[b]
      BY <1>2, <1>5
    <2>2. i \in DOMAIN bs[b].ins /\ bs[b].ins[i] = blocks[b].ins[i]
      BY DEF Lengthened
    <2> QED BY <2>1, <2>2
  <1>8. Lengthened(cs)
    <2>1. \A b \in 1..Len(blocks) : \A i \in DOMAIN blocks[b].ins :
             i \in DOMAIN cs[b].ins /\ cs[b].ins[i] = blocks[b].ins[i]
      BY <1>7
    <2>2. cs \in Seq(BlockSet)
      BY <1>2
    <2> QED BY <1>6, <2>1, <2>2 DEF Lengthened
  <1>9. ASSUME NEW b \in 1..Len(cs)
        PROVE  \/ b \in 1..Len(bs) /\ cs[b] = bs[b]
               \/ cs[b].fn = fn /\ DOMAIN cs[b].ins = {}
    <2>1. CASE b \in 1..Len(bs)
      <3>1. cs[b] = bs[b]
        BY <1>2, <2>1
      <3> QED BY <2>1, <3>1
    <2>2. CASE b \in (Len(bs) + 1)..(Len(bs) + n)
      BY <1>4, <2>2
    <2> QED BY <1>3, <2>1, <2>2
  <1>10. Len(cs) = Len(bs) + n
    BY <1>2
  <1> QED BY <1>8, <1>9, <1>10

(* A block of the current function that is empty suits it.                 *)
LEMMA AddedCreate ==
    ASSUME NEW bs, Added(bs), Len(blocks) \in Nat, NEW n \in Nat,
           curFunc \in Nat, curFunc \in 1..Len(funcs),
           NEW cs, cs = Create(bs, n, curFunc)
    PROVE  Added(cs) /\ Len(cs) = Len(bs) + n
  <1> DEFINE fn == curFunc
  <1>1. fn \in Nat /\ fn \in 1..Len(funcs) /\ cs = Create(bs, n, fn)
    OBVIOUS
  <1> HIDE DEF fn
  <1>2. /\ Lengthened(cs) /\ Len(cs) = Len(bs) + n
        /\ \A b \in 1..Len(cs) : \/ b \in 1..Len(bs) /\ cs[b] = bs[b]
                                 \/ cs[b].fn = fn /\ DOMAIN cs[b].ins = {}
    BY <1>1, LengthenedCreate DEF Added
  <1> QED BY <1>1, <1>2 DEF Added, BlocksSuit, SuitsAll

(* Emitting instructions.                                                  *)
LEMMA AddedEmit ==
    ASSUME NEW bs, Added(bs), NEW b \in 1..Len(bs), NEW instrs \in Seq(InstructionSet),
           SuitsAll(funcs[bs[b].fn], instrs),
           NEW cs, cs = Emit(bs, b, instrs)
    PROVE  Added(cs) /\ Len(cs) = Len(bs)
  <1>1. bs \in Seq(BlockSet) /\ Len(bs) \in Nat /\ Len(blocks) <= Len(bs)
    BY DEF Added, Lengthened
  <1>2. bs[b] \in BlockSet
    BY <1>1
  <1>3. bs[b].ins \in Seq(InstructionSet)
    BY <1>2 DEF BlockSet
  <1> DEFINE old == bs[b].ins
             ins == old \o instrs
             new == [bs[b] EXCEPT !.ins = ins]
  <1>4. /\ ins \in Seq(InstructionSet)
        /\ \A i \in DOMAIN old : i \in DOMAIN ins /\ ins[i] = old[i]
        /\ \A i \in DOMAIN ins : \/ i \in DOMAIN old /\ ins[i] = old[i]
                                 \/ i - Len(old) \in DOMAIN instrs
                                    /\ ins[i] = instrs[i - Len(old)]
    BY <1>3, ConcatElements
  <1>5. new \in BlockSet /\ new.ins = ins /\ new.fn = bs[b].fn
    BY <1>2, <1>4 DEF BlockSet
  <1>6. cs = [bs EXCEPT ![b] = new]
    BY DEF Emit
  <1> HIDE DEF new, ins
  <1>7. /\ cs \in Seq(BlockSet) /\ Len(cs) = Len(bs) /\ cs[b] = new
        /\ \A c \in 1..Len(bs) : c # b => cs[c] = bs[c]
    BY <1>1, <1>5, <1>6, ExceptSeq
  <1>8. SuitsAll(funcs[new.fn], new.ins)
    <2>1. SuitsAll(funcs[bs[b].fn], old)
      BY DEF Added, BlocksSuit
    <2> QED BY <1>4, <1>5, <2>1 DEF SuitsAll
  <1>9. BlocksSuit(funcs, cs)
    BY <1>5, <1>7, <1>8 DEF Added, BlocksSuit
  <1>10. \A c \in 1..Len(bs) : \A i \in DOMAIN bs[c].ins :
            i \in DOMAIN cs[c].ins /\ cs[c].ins[i] = bs[c].ins[i]
    BY <1>4, <1>5, <1>7
  <1>11. \A c \in 1..Len(blocks) : c \in 1..Len(bs)
    BY <1>1, LenProperties
  <1>12. Lengthened(cs)
    BY <1>1, <1>7, <1>10, <1>11 DEF Added, Lengthened
  <1> QED BY <1>7, <1>9, <1>12 DEF Added

(* Instructions that suit every function.                                  *)
LEMMA AddedCommon ==
    ASSUME NEW bs, Added(bs), NEW b \in 1..Len(bs), NEW instrs \in Seq(Common),
           NEW cs, cs = Emit(bs, b, instrs)
    PROVE  Added(cs) /\ Len(cs) = Len(bs)
  <1>1. \A i \in DOMAIN instrs : instrs[i] \in Common
    OBVIOUS
  <1>2. SuitsAll(funcs[bs[b].fn], instrs)
    BY <1>1 DEF SuitsAll, Suits, Common
  <1>3. instrs \in Seq(InstructionSet)
    <2>1. Common \subseteq InstructionSet
      BY DEF Common
    <2> QED BY <2>1
  <1> QED BY <1>2, <1>3, AddedEmit

(* One instruction that suits the function.                                *)
LEMMA AddedOne ==
    ASSUME NEW bs, Added(bs), NEW b \in 1..Len(bs), NEW i \in InstructionSet,
           Suits(funcs[bs[b].fn], i) \/ i \in Common,
           NEW cs, cs = Emit(bs, b, <<i>>)
    PROVE  Added(cs) /\ Len(cs) = Len(bs)
  <1> DEFINE instrs == <<i>>
  <1>1. instrs \in Seq(InstructionSet) /\ \A k \in DOMAIN instrs : instrs[k] = i
    OBVIOUS
  <1>2. cs = Emit(bs, b, instrs)
    OBVIOUS
  <1> HIDE DEF instrs
  <1>3. Suits(funcs[bs[b].fn], i)
    BY DEF Suits, Common
  <1>4. SuitsAll(funcs[bs[b].fn], instrs)
    BY <1>1, <1>3 DEF SuitsAll
  <1> QED BY <1>1, <1>2, <1>4, AddedEmit

(* Branches, evaluations and calls suit every function.                    *)
LEMMA CommonInstructions ==
    ASSUME NEW e \in Expr, NEW yes \in Nat, NEW no \in Nat
    PROVE  /\ Br(yes) \in Common /\ CondBr(e, yes, no) \in Common
           /\ Eval(e) \in Common /\ Step(e) \in Common /\ CallTo(yes) \in Common
  <1>1. /\ Br(yes).op = "br" /\ CondBr(e, yes, no).op = "condbr" /\ Eval(e).op = "eval"
        /\ Step(e).op = "step" /\ CallTo(yes).op = "call"
    BY DEF Br, CondBr, Eval, Step, CallTo, Instruction
  <1> QED BY <1>1, Branches DEF Common

(* A branch.                                                               *)
LEMMA AddedBr ==
    ASSUME NEW bs, Added(bs), NEW b \in 1..Len(bs), NEW to \in Nat,
           NEW cs, cs = Emit(bs, b, <<Br(to)>>)
    PROVE  Added(cs) /\ Len(cs) = Len(bs)
  <1>1. Br(to) \in InstructionSet
    BY DEF Br, Instruction, InstructionSet, Ops, Terminators, Optional
  <1>2. Br(to) \in Common
    BY <1>1 DEF Common, Br, Instruction
  <1> QED BY <1>1, <1>2, AddedOne

(* A conditional branch.                                                   *)
LEMMA AddedCondBr ==
    ASSUME NEW bs, Added(bs), NEW b \in 1..Len(bs), NEW e \in Expr, NEW yes \in Nat,
           NEW no \in Nat, NEW cs, cs = Emit(bs, b, <<CondBr(e, yes, no)>>)
    PROVE  Added(cs) /\ Len(cs) = Len(bs)
  <1>1. CondBr(e, yes, no) \in InstructionSet /\ CondBr(e, yes, no) \in Common
    BY CommonInstructions DEF Common
  <1> QED BY <1>1, AddedOne

(* A branch where the block has none.                                      *)
LEMMA AddedFallTo ==
    ASSUME NEW bs, Added(bs), NEW b \in 1..Len(bs), NEW to \in Nat,
           NEW cs, cs = FallTo(bs, b, to)
    PROVE  Added(cs) /\ Len(cs) = Len(bs)
  <1>1. CASE Terminated(bs, b)
    BY <1>1 DEF FallTo
  <1>2. CASE ~Terminated(bs, b)
    <2>1. cs = Emit(bs, b, <<Br(to)>>)
      BY <1>2 DEF FallTo
    <2> QED BY <2>1, AddedBr
  <1> QED BY <1>1, <1>2

(* The arms of the stack gs are those of work, but for its top.            *)
ArmsBelow(gs) ==
    \A i \in 1..Len(gs) : gs[i].k = "arm" =>
        \E j \in 2..Len(work) : i = j + Len(gs) - Len(work) /\ gs[i] = work[j]

(* What a handler pushes is no arm.                                        *)
LEMMA NoArmPushed ==
    ASSUME IInv, work # <<>>, NEW S, NEW items \in Seq(S), Continue(items),
           \A i \in DOMAIN items : items[i].k # "arm"
    PROVE  ArmsBelow(work') /\ Len(work') \in Nat
  <1> DEFINE T == S \cup FrameSet
             t == Tail(work)
  <1>1. /\ t \in Seq(FrameSet) /\ Len(work) \in Nat \ {0}
        /\ DOMAIN t = 1..(Len(work) - 1) /\ Len(t) \in Nat
        /\ \A i \in DOMAIN t : t[i] = work[i + 1]
    BY TailProperties, LenProperties DEF IInv, Typed, TypeOK
  <1>2. work' = items \o t
    BY DEF Continue
  <1> HIDE DEF t
  <1>3. items \in Seq(T) /\ t \in Seq(T)
    BY <1>1
  <1> HIDE DEF T
  <1>4. /\ work' \in Seq(T) /\ Len(work') = Len(items) + Len(t)
        /\ DOMAIN work' = 1..(Len(items) + Len(t)) /\ Len(items) \in Nat
        /\ \A i \in DOMAIN work' :
              \/ i \in DOMAIN items /\ work'[i] = items[i]
              \/ i - Len(items) \in DOMAIN t /\ work'[i] = t[i - Len(items)]
    BY <1>2, <1>3, ConcatElements
  <1>5. Len(t) = Len(work) - 1
    BY <1>1
  <1>6. ASSUME NEW i \in 1..Len(work'), work'[i].k = "arm"
        PROVE  \E j \in 2..Len(work) : i = j + Len(work') - Len(work) /\ work'[i] = work[j]
    <2>1. i - Len(items) \in DOMAIN t /\ work'[i] = t[i - Len(items)]
      BY <1>4, <1>6
    <2>2. PICK m \in DOMAIN t : m = i - Len(items)
      BY <2>1
    <2>3. m + 1 \in 2..Len(work) /\ i = (m + 1) + Len(work') - Len(work)
      BY <1>1, <1>4, <1>5, <2>2
    <2>4. work'[i] = work[m + 1]
      BY <1>1, <2>1, <2>2
    <2> QED BY <2>3, <2>4
  <1> QED BY <1>1, <1>4, <1>6 DEF ArmsBelow

(* A handler that returns.                                                 *)
LEMMA NothingBelow ==
    ASSUME IInv, work # <<>>, Continue(<<>>)
    PROVE  ArmsBelow(work') /\ Len(work') \in Nat
  <1> DEFINE items == <<>>
  <1>1. items \in Seq({}) /\ DOMAIN items = {} /\ Continue(items)
    OBVIOUS
  <1> HIDE DEF items
  <1> QED BY <1>1, NoArmPushed

(* One item in place of the top.                                           *)
LEMMA OneBelow ==
    ASSUME IInv, work # <<>>, NEW x, x.k # "arm", Continue(<<x>>)
    PROVE  ArmsBelow(work') /\ Len(work') \in Nat
  <1> DEFINE items == <<x>>
  <1>1. items \in Seq({x}) /\ Continue(items) /\ \A i \in DOMAIN items : items[i] = x
    OBVIOUS
  <1> HIDE DEF items
  <1> QED BY <1>1, NoArmPushed

(* Two items in place of the top.                                          *)
LEMMA PairBelow ==
    ASSUME IInv, work # <<>>, NEW x, x.k # "arm", NEW y, y.k # "arm", Continue(<<x, y>>)
    PROVE  ArmsBelow(work') /\ Len(work') \in Nat
  <1> DEFINE items == <<x, y>>
  <1>1. items \in Seq({x, y}) /\ Continue(items)
        /\ \A i \in DOMAIN items : items[i] = x \/ items[i] = y
    OBVIOUS
  <1> HIDE DEF items
  <1> QED BY <1>1, NoArmPushed

(* A list of nodes and the frame that ends it.                             *)
LEMMA ListBelow ==
    ASSUME IInv, work # <<>>, NEW g, GenNodes(g), NEW f, f.k # "arm",
           Continue(g \o <<f>>)
    PROVE  ArmsBelow(work') /\ Len(work') \in Nat
  <1> DEFINE S == FrameSet \cup {f}
             last == <<f>>
             items == g \o last
  <1>1. g \in Seq(S) /\ last \in Seq(S) /\ \A i \in DOMAIN last : last[i] = f
    BY DEF GenNodes
  <1> HIDE DEF last, S
  <1>2. /\ items \in Seq(S)
        /\ \A i \in DOMAIN items :
              \/ i \in DOMAIN g /\ items[i] = g[i]
              \/ i - Len(g) \in DOMAIN last /\ items[i] = last[i - Len(g)]
    BY <1>1, ConcatElements
  <1>3. Continue(items)
    BY DEF last
  <1> HIDE DEF items
  <1>4. \A i \in DOMAIN items : items[i].k # "arm"
    <2>1. \A i \in DOMAIN g : g[i].k # "arm"
      BY DEF GenNodes
    <2> QED BY <1>1, <1>2, <2>1
  <1> QED BY <1>2, <1>3, <1>4, NoArmPushed

(* Adding to the blocks leaves the switches as they are.                   *)
LEMMA SwitchKept ==
    ASSUME IInv, NEW bs, Lengthened(bs), NEW b, NEW p, NEW vals, NEW k,
           SwitchSuits(blocks, b, p, vals, k)
    PROVE  SwitchSuits(bs, b, p, vals, k)
  <1>1. /\ Len(bs) \in Nat /\ Len(blocks) <= Len(bs) /\ Len(blocks) \in Nat
        /\ \A c \in 1..Len(blocks) : \A i \in DOMAIN blocks[c].ins :
              i \in DOMAIN bs[c].ins /\ bs[c].ins[i] = blocks[c].ins[i]
    BY LenProperties DEF IInv, Typed, TypeOK, Lengthened
  <1>2. \A c \in 1..Len(blocks) : c \in 1..Len(bs)
    BY <1>1
  <1>3. b \in 1..Len(blocks) /\ p \in DOMAIN blocks[b].ins
    BY DEF SwitchSuits
  <1>4. b \in 1..Len(bs) /\ p \in DOMAIN bs[b].ins /\ bs[b].ins[p] = blocks[b].ins[p]
    BY <1>1, <1>2, <1>3
  <1> QED BY <1>4 DEF SwitchSuits

(* An arm that suits the blocks still does when they are added to.         *)
LEMMA ArmKept ==
    ASSUME IInv, NEW bs, Lengthened(bs), NEW f, ArmSuits(blocks, f)
    PROVE  ArmSuits(bs, f)
  BY SwitchKept DEF ArmSuits

(* The same of all the arms of a stack.                                    *)
LEMMA ArmsKept ==
    ASSUME IInv, work # <<>>, ArmsSuit(blocks, work), NEW bs, Lengthened(bs),
           NEW gs, Len(gs) \in Nat, ArmsBelow(gs)
    PROVE  ArmsSuit(bs, gs)
  <1>1. Len(work) \in Nat
    BY LenProperties DEF IInv, Typed, TypeOK
  <1>2. \A f : ArmSuits(blocks, f) => ArmSuits(bs, f)
    BY ArmKept
  <1>3. ASSUME NEW i \in 1..Len(gs) PROVE ArmSuits(bs, gs[i])
    <2>1. CASE gs[i].k = "arm"
      <3>1. PICK j \in 2..Len(work) : gs[i] = work[j]
        BY <2>1 DEF ArmsBelow
      <3>2. j \in 1..Len(work)
        BY <1>1
      <3> QED BY <1>2, <3>1, <3>2 DEF ArmsSuit
    <2>2. CASE gs[i].k # "arm"
      BY <2>2 DEF ArmSuits
    <2> QED BY <2>1, <2>2
  <1>4. ASSUME NEW i \in 1..Len(gs), NEW j \in 1..Len(gs), i < j, SameSwitch(gs[i], gs[j])
        PROVE  gs[i].s = gs[j].s /\ gs[i].to[3] < gs[j].to[3]
    <2>1. gs[i].k = "arm" /\ gs[j].k = "arm"
      BY <1>4 DEF SameSwitch
    <2>2. PICK m \in 2..Len(work) : i = m + Len(gs) - Len(work) /\ gs[i] = work[m]
      BY <2>1 DEF ArmsBelow
    <2>3. PICK n \in 2..Len(work) : j = n + Len(gs) - Len(work) /\ gs[j] = work[n]
      BY <2>1 DEF ArmsBelow
    <2>4. m \in 1..Len(work) /\ n \in 1..Len(work) /\ m < n
      BY <1>1, <1>4, <2>2, <2>3
    <2> QED BY <1>4, <2>2, <2>3, <2>4 DEF ArmsSuit
  <1> QED BY <1>3, <1>4 DEF ArmsSuit

(* The part of the invariant that is about the blocks, and what is needed  *)
(* for it of a handler that keeps the functions.                           *)
Suiting == BlocksSuit(funcs, blocks) /\ ArmsSuit(blocks, work)

(* A handler that only adds to the blocks.                                 *)
LEMMA AddedSuits ==
    ASSUME IInv, work # <<>>, Suiting, Added(blocks'), funcs' = funcs,
           ArmsBelow(work'), Len(work') \in Nat
    PROVE  Suiting'
  <1>1. Lengthened(blocks') /\ BlocksSuit(funcs, blocks')
    BY DEF Added
  <1>2. ArmsSuit(blocks', work')
    BY <1>1, ArmsKept DEF Suiting
  <1> QED BY <1>1, <1>2 DEF Suiting

(* Where a handler begins.                                                 *)
LEMMA BeginSuiting ==
    ASSUME IInv, Suiting
    PROVE  /\ Added(blocks) /\ Len(blocks) \in Nat /\ insert \in 1..Len(blocks)
           /\ curFunc \in Nat /\ curFunc \in 1..Len(funcs) /\ Len(funcs) \in Nat
  <1>1. /\ blocks \in Seq(BlockSet) /\ Len(blocks) \in Nat
        /\ DOMAIN blocks = 1..Len(blocks) /\ DOMAIN funcs = 1..Len(funcs)
        /\ insert \in 1..Len(blocks)
        /\ curFunc \in Nat /\ curFunc \in 1..Len(funcs) /\ Len(funcs) \in Nat
    BY LenProperties DEF IInv, Typed, TypeOK
  <1> QED BY <1>1 DEF Suiting, Added, Lengthened

(***************************************************************************)
(* The handlers that emit what suits every function.                       *)
(***************************************************************************)
LEMMA QuietSuits ==
    ASSUME IInv, Suiting, GenForward \/ EndBlock \/ GenBlock PROVE Suiting'
  <1>1. /\ status = "generating" /\ work # <<>> /\ blocks' = blocks /\ funcs' = funcs
        /\ \/ Continue(<<>>)
           \/ /\ Top.s.kind = "Block"
              /\ Continue(GenAll(Top.s.decls) \o GenAll(Top.s.stmts)
                            \o <<Frame("endblock", Top.s, <<>>, <<>>)>>)
    BY DEF GenForward, EndBlock, GenBlock, AtNode, AtFrame, OnlyBlocks, FunctionUnchanged
  <1>2. Added(blocks')
    BY <1>1, BeginSuiting
  <1>3. ArmsBelow(work') /\ Len(work') \in Nat
    <2>1. CASE Continue(<<>>)
      BY <1>1, <2>1, NothingBelow
    <2>2. CASE ~Continue(<<>>)
      <3> DEFINE g == GenAll(Top.s.decls) \o GenAll(Top.s.stmts)
                 f == Frame("endblock", Top.s, <<>>, <<>>)
      <3>1. Top.s.decls \in Seq(Node) /\ Top.s.stmts \in Seq(Node)
        BY <1>1, <2>2, Begin DEF WellFormedNode
      <3>2. GenNodes(g)
        BY <3>1, GenAllFrames, GenNodesConcat
      <3>3. f.k # "arm"
        BY DEF Frame
      <3>4. Continue(g \o <<f>>)
        BY <1>1, <2>2
      <3> HIDE DEF g, f
      <3> QED BY <1>1, <3>2, <3>3, <3>4, ListBelow
    <2> QED BY <2>1, <2>2
  <1> QED BY <1>1, <1>2, <1>3, AddedSuits

(* An evaluation.                                                          *)
LEMMA StraightLineSuits ==
    ASSUME IInv, Suiting, GenStraightLine PROVE Suiting'
  <1>1. /\ status = "generating" /\ work # <<>> /\ funcs' = funcs /\ Continue(<<>>)
        /\ Top.s.kind \in StraightLine
        /\ blocks' = Emit(blocks, insert, <<Eval(Top.s.expr)>>)
    BY DEF GenStraightLine, AtNode, OnlyBlocks, FunctionUnchanged
  <1>2. Top.s.expr \in Expr
    BY <1>1, Begin DEF WellFormedNode, StraightLine
  <1>3. Eval(Top.s.expr) \in InstructionSet /\ Eval(Top.s.expr) \in Common
    <2>1. 1 \in Nat
      OBVIOUS
    <2> QED BY <1>2, <2>1, CommonInstructions DEF Common
  <1>4. Added(blocks')
    BY <1>1, <1>3, BeginSuiting, AddedOne
  <1> QED BY <1>1, <1>4, NothingBelow, AddedSuits

(* A call.                                                                 *)
LEMMA GenCallSuits ==
    ASSUME IInv, Suiting, GenCall, status' # "error" PROVE Suiting'
  <1> DEFINE f == LookupSymbol(scopes, Top.s.name)
  <1>1. /\ status = "generating" /\ work # <<>> /\ funcs' = funcs /\ Continue(<<>>)
        /\ Top.s.kind = "Call" /\ f # 0
        /\ blocks' = Emit(blocks, insert, <<CallTo(f)>>)
    BY DEF GenCall, AtNode, FunctionUnchanged
  <1>2. Top.s.name \in Name /\ scopes \in Seq([Name -> Nat])
    BY <1>1, Begin DEF WellFormedNode, IInv, Typed, TypeOK
  <1>3. f \in Nat
    BY <1>1, <1>2, LookupIsNat
  <1> HIDE DEF f
  <1>4. CallTo(f) \in InstructionSet
    BY <1>3 DEF CallTo, Instruction, InstructionSet, Ops, Terminators, Optional
  <1>5. CallTo(f) \in Common
    BY <1>4 DEF Common, CallTo, Instruction
  <1>6. Added(blocks')
    BY <1>1, <1>4, <1>5, BeginSuiting, AddedOne
  <1> QED BY <1>1, <1>6, NothingBelow, AddedSuits

(* IF branches to its parts.                                               *)
LEMMA GenIfSuits ==
    ASSUME IInv, Suiting, GenIf PROVE Suiting'
  <1> DEFINE s == Top.s
             n == IF s.alt = <<>> THEN 2 ELSE 3
             elseBB == IF s.alt = <<>> THEN Fresh(2) ELSE Fresh(3)
             owed == IF s.alt = <<>> THEN <<Fresh(2)>> ELSE <<Fresh(2), Fresh(3)>>
             x == Gen(s.stmts[1])
             g == Frame("endthen", s, <<>>, owed)
             bs == Create(blocks, n, curFunc)
  <1>1. /\ status = "generating" /\ work # <<>> /\ funcs' = funcs /\ s.kind = "If"
        /\ blocks' = Emit(bs, insert, <<CondBr(s.expr, Fresh(1), elseBB)>>)
        /\ Continue(<<x, g>>)
    BY DEF GenIf, AtNode, OnlyBlocks, FunctionUnchanged
  <1>2. /\ Added(blocks) /\ Len(blocks) \in Nat /\ insert \in 1..Len(blocks)
        /\ curFunc \in Nat /\ curFunc \in 1..Len(funcs)
    BY BeginSuiting
  <1>3. n \in Nat /\ Fresh(1) \in Nat /\ elseBB \in Nat
    BY <1>2 DEF Fresh
  <1>4. s.expr \in Expr
    BY <1>1, Begin DEF WellFormedNode
  <1>5. x.k # "arm" /\ g.k # "arm"
    BY DEF Gen, Frame
  <1> HIDE DEF n, elseBB, x, g
  <1>6. Added(bs) /\ Len(bs) = Len(blocks) + n
    BY <1>2, <1>3, AddedCreate
  <1>7. insert \in 1..Len(bs)
    BY <1>2, <1>3, <1>6
  <1> HIDE DEF bs, s
  <1>8. Added(blocks')
    BY <1>1, <1>3, <1>4, <1>6, <1>7, AddedCondBr
  <1> QED BY <1>1, <1>5, <1>8, PairBelow, AddedSuits

(* The THEN part falls into the merge block.                               *)
LEMMA EndThenSuits ==
    ASSUME IInv, Suiting, EndThen PROVE Suiting'
  <1> DEFINE s == Top.s
             to == Top.owed[1]
             x == Gen(s.alt[1])
             g == Frame("endelse", s, <<>>, <<to>>)
  <1>1. /\ status = "generating" /\ work # <<>> /\ funcs' = funcs /\ Top.k = "endthen"
        /\ blocks' = FallTo(blocks, insert, to)
        /\ Continue(<<>>) \/ Continue(<<x, g>>)
    BY DEF EndThen, AtFrame, OnlyBlocks, FunctionUnchanged
  <1>2. to \in Nat
    <2>1. Top.owed \in Seq(Nat) /\ Len(Top.owed) \in {1, 2}
      BY <1>1, Begin DEF FrameOK, FrameSet
    <2> QED BY <2>1
  <1>3. x.k # "arm" /\ g.k # "arm"
    BY DEF Gen, Frame
  <1> HIDE DEF to, x, g
  <1>4. Added(blocks')
    BY <1>1, <1>2, BeginSuiting, AddedFallTo
  <1> QED BY <1>1, <1>3, <1>4, NothingBelow, PairBelow, AddedSuits

(* So does the ELSE part, and an arm of a CASE.                            *)
LEMMA FallingSuits ==
    ASSUME IInv, Suiting, EndElse \/ EndArm PROVE Suiting'
  <1>1. /\ status = "generating" /\ work # <<>> /\ funcs' = funcs /\ Continue(<<>>)
        /\ \/ Top.k = "endelse" /\ blocks' = FallTo(blocks, insert, Top.owed[1])
           \/ Top.k = "endarm" /\ blocks' = FallTo(blocks, insert, Top.to[1])
    BY DEF EndElse, EndArm, AtFrame, OnlyBlocks, FunctionUnchanged
  <1>2. PICK to \in Nat : blocks' = FallTo(blocks, insert, to)
    <2>1. CASE Top.k = "endelse"
      <3>1. Top.owed \in Seq(Nat) /\ Len(Top.owed) = 1
        BY <1>1, <2>1, Begin DEF FrameOK, FrameSet
      <3>2. Top.owed[1] \in Nat
        BY <3>1
      <3> QED BY <1>1, <2>1, <3>2
    <2>2. CASE Top.k = "endarm"
      <3>1. Top.to \in Seq(Nat) /\ Len(Top.to) = 1
        BY <1>1, <2>2, Begin DEF FrameOK, FrameSet
      <3>2. Top.to[1] \in Nat
        BY <3>1
      <3> QED BY <1>1, <2>2, <3>2
    <2> QED BY <1>1, <2>1, <2>2
  <1>3. Added(blocks')
    BY <1>2, BeginSuiting, AddedFallTo
  <1> QED BY <1>1, <1>3, NothingBelow, AddedSuits

(* The default block of a CASE branches to the merge block.                *)
LEMMA EndCaseSuits ==
    ASSUME IInv, Suiting, EndCase PROVE Suiting'
  <1> DEFINE b == Top.owed[1]
             to == Top.owed[2]
  <1>1. /\ status = "generating" /\ work # <<>> /\ funcs' = funcs /\ Continue(<<>>)
        /\ Top.k = "endcase" /\ blocks' = Emit(blocks, b, <<Br(to)>>)
    BY DEF EndCase, AtFrame, OnlyBlocks, FunctionUnchanged
  <1>2. to \in Nat /\ b \in 1..Len(blocks)
    <2>1. Top.owed \in Seq(Nat) /\ Len(Top.owed) = 2 /\ OwedBy(Top) \subseteq 1..Len(blocks)
      BY <1>1, Begin DEF FrameOK, FrameSet
    <2>2. 1 \in DOMAIN Top.owed /\ 2 \in DOMAIN Top.owed
      BY <2>1
    <2> QED BY <2>1, <2>2 DEF OwedBy
  <1> HIDE DEF b, to
  <1>3. Added(blocks')
    BY <1>1, <1>2, BeginSuiting, AddedBr
  <1> QED BY <1>1, <1>3, NothingBelow, AddedSuits

(* The end of a loop knows two blocks and its UNTIL.                       *)
LEMMA LoopKnows ==
    ASSUME IInv, status = "generating", work # <<>>,
           Top.k \in {"endwhile", "endfor", "enddo", "endrepeat"}
    PROVE  /\ Top.to[1] \in Nat
           /\ Top.k # "enddo" => Top.owed[1] \in Nat
           /\ Top.s.kind = NodeOf[Top.k]
           /\ Top.k \in {"endfor", "endrepeat"} => Top.s.expr \in Expr
           /\ Top.k # "endrepeat" /\ Top.s.until # <<>> => Top.s.until[1] \in Expr
  <1>1. /\ Top.to \in Seq(Nat) /\ Len(Top.to) = 1 /\ Top.owed \in Seq(Nat)
        /\ Top.k # "enddo" => Len(Top.owed) = 1
        /\ Top.s.kind = NodeOf[Top.k]
        /\ WellFormedNode(Top.s, Node, Name, Expr)
    BY Begin DEF FrameOK, FrameSet, NodeOf
  <1>2. Top.to[1] \in Nat /\ (Top.k # "enddo" => Top.owed[1] \in Nat)
    BY <1>1
  <1>3. /\ Top.k \in {"endfor", "endrepeat"} => Top.s.expr \in Expr
        /\ Top.k # "endrepeat" /\ Top.s.until # <<>> => Top.s.until[1] \in Expr
    BY <1>1 DEF NodeOf, WellFormedNode, Optional
  <1> QED BY <1>1, <1>2, <1>3

(* A branch to a new block and the test of UNTIL in it.                    *)
LEMMA AddedUntil ==
    ASSUME IInv, Suiting, NEW n \in Nat, n >= 1, NEW e \in Expr, NEW yes \in Nat,
           NEW no \in Nat,
           NEW cs, cs = Emit(FallTo(Create(blocks, n, curFunc), insert, Fresh(1)),
                             Fresh(1), <<CondBr(e, yes, no)>>)
    PROVE  Added(cs) /\ Len(cs) = Len(blocks) + n
  <1> DEFINE bs == Create(blocks, n, curFunc)
             ds == FallTo(bs, insert, Fresh(1))
  <1>1. /\ Added(blocks) /\ Len(blocks) \in Nat /\ insert \in 1..Len(blocks)
        /\ curFunc \in Nat /\ curFunc \in 1..Len(funcs)
    BY BeginSuiting
  <1>2. cs = Emit(ds, Fresh(1), <<CondBr(e, yes, no)>>)
    OBVIOUS
  <1>3. Added(bs) /\ Len(bs) = Len(blocks) + n
    BY <1>1, AddedCreate
  <1> HIDE DEF bs
  <1>4. insert \in 1..Len(bs) /\ Fresh(1) \in 1..Len(bs) /\ Fresh(1) \in Nat
    BY <1>1, <1>3 DEF Fresh
  <1>5. Added(ds) /\ Len(ds) = Len(bs)
    BY <1>3, <1>4, AddedFallTo
  <1> HIDE DEF ds
  <1>6. Added(cs) /\ Len(cs) = Len(ds)
    BY <1>2, <1>4, <1>5, AddedCondBr
  <1> QED BY <1>3, <1>5, <1>6

(* WHILE and FOR, once they have branched to their condition.              *)
LEMMA LoopSuits ==
    ASSUME IInv, Suiting, work # <<>>, funcs' = funcs,
           NEW instrs \in Seq(Common), NEW e \in Expr, NEW x, NEW k \in {"endwhile", "endfor"},
           blocks' = Emit(Emit(Create(blocks, 3, curFunc), insert, instrs), Fresh(1),
                          <<CondBr(e, Fresh(2), Fresh(3))>>),
           Continue(<<Gen(x), Frame(k, Top.s, <<Fresh(1)>>, <<Fresh(3)>>)>>)
    PROVE  Suiting'
  <1> DEFINE n == 3
             bs == Create(blocks, n, curFunc)
             ds == Emit(bs, insert, instrs)
             y == Gen(x)
             g == Frame(k, Top.s, <<Fresh(1)>>, <<Fresh(3)>>)
  <1>1. /\ Added(blocks) /\ Len(blocks) \in Nat /\ insert \in 1..Len(blocks)
        /\ curFunc \in Nat /\ curFunc \in 1..Len(funcs)
    BY BeginSuiting
  <1>2. blocks' = Emit(ds, Fresh(1), <<CondBr(e, Fresh(2), Fresh(3))>>) /\ Continue(<<y, g>>)
    OBVIOUS
  <1>3. y.k # "arm" /\ g.k # "arm"
    BY DEF Gen, Frame
  <1> HIDE DEF y, g
  <1>4. n = 3 /\ n \in Nat /\ Fresh(1) \in Nat /\ Fresh(2) \in Nat /\ Fresh(3) \in Nat
    BY <1>1 DEF Fresh
  <1> HIDE DEF n
  <1>5. Added(bs) /\ Len(bs) = Len(blocks) + n
    BY <1>1, <1>4, AddedCreate
  <1> HIDE DEF bs
  <1>6. insert \in 1..Len(bs) /\ Fresh(1) \in 1..Len(bs)
    BY <1>1, <1>4, <1>5 DEF Fresh
  <1>7. Added(ds) /\ Len(ds) = Len(bs)
    BY <1>5, <1>6, AddedCommon
  <1> HIDE DEF ds
  <1>8. Added(blocks')
    BY <1>2, <1>4, <1>6, <1>7, AddedCondBr
  <1> QED BY <1>2, <1>3, <1>8, PairBelow, AddedSuits

(* WHILE.                                                                  *)
LEMMA GenWhileSuits ==
    ASSUME IInv, Suiting, GenWhile PROVE Suiting'
  <1> DEFINE instrs == <<Br(Fresh(1))>>
             e == Top.s.expr
             k == "endwhile"
             x == Top.s.stmts[1]
  <1>1. /\ status = "generating" /\ work # <<>> /\ funcs' = funcs /\ Top.s.kind = "While"
        /\ blocks' = Emit(Emit(Create(blocks, 3, curFunc), insert, instrs), Fresh(1),
                          <<CondBr(e, Fresh(2), Fresh(3))>>)
        /\ Continue(<<Gen(x), Frame(k, Top.s, <<Fresh(1)>>, <<Fresh(3)>>)>>)
    BY DEF GenWhile, AtNode, OnlyBlocks, FunctionUnchanged
  <1>2. e \in Expr /\ Fresh(1) \in Nat
    BY <1>1, Begin DEF WellFormedNode, Fresh
  <1>3. instrs \in Seq(Common) /\ k \in {"endwhile", "endfor"}
    <2>1. Br(Fresh(1)) \in Common
      BY <1>2, CommonInstructions
    <2> QED BY <2>1
  <1> HIDE DEF instrs, e, k, x
  <1> QED BY <1>1, <1>2, <1>3, LoopSuits

(* FOR evaluates its bounds first.                                         *)
LEMMA GenForSuits ==
    ASSUME IInv, Suiting, GenFor PROVE Suiting'
  <1> DEFINE es == <<Top.s.end>> \o Top.s.step \o Top.s.start
             instrs == Evals(es) \o <<Br(Fresh(1))>>
             e == Top.s.expr
             k == "endfor"
             x == Top.s.stmts[1]
  <1>1. /\ status = "generating" /\ work # <<>> /\ funcs' = funcs /\ Top.s.kind = "For"
        /\ blocks' = Emit(Emit(Create(blocks, 3, curFunc), insert, instrs), Fresh(1),
                          <<CondBr(e, Fresh(2), Fresh(3))>>)
        /\ Continue(<<Gen(x), Frame(k, Top.s, <<Fresh(1)>>, <<Fresh(3)>>)>>)
    BY DEF GenFor, AtNode, OnlyBlocks, FunctionUnchanged
  <1>2. e \in Expr /\ Fresh(1) \in Nat
    BY <1>1, Begin DEF WellFormedNode, Fresh
  <1>3. es \in Seq(Expr)
    <2>1. <<Top.s.end>> \in Seq(Expr) /\ Top.s.step \in Seq(Expr) /\ Top.s.start \in Seq(Expr)
      BY <1>1, Begin DEF WellFormedNode, Optional
    <2>2. <<Top.s.end>> \o Top.s.step \in Seq(Expr)
      BY <2>1, ConcatProperties
    <2> QED BY <2>1, <2>2, ConcatProperties
  <1> HIDE DEF es
  <1>4. Evals(es) \in Seq(Common)
    <2>1. \A i \in 1..Len(es) : es[i] \in Expr
      BY <1>3
    <2>2. \A i \in 1..Len(es) : Eval(es[i]) \in Common
      BY <1>2, <2>1, CommonInstructions
    <2>3. Len(es) \in Nat
      BY <1>3, LenProperties
    <2> QED BY <2>2, <2>3 DEF Evals
  <1>5. <<Br(Fresh(1))>> \in Seq(Common)
    <2>1. Br(Fresh(1)) \in Common
      BY <1>2, CommonInstructions
    <2> QED BY <2>1
  <1>6. instrs \in Seq(Common) /\ k \in {"endwhile", "endfor"}
    BY <1>4, <1>5, ConcatProperties
  <1> HIDE DEF instrs, e, k, x
  <1> QED BY <1>1, <1>2, <1>6, LoopSuits

(* The end of a WHILE, with UNTIL or without.                              *)
LEMMA EndWhileSuits ==
    ASSUME IInv, Suiting, EndWhile PROVE Suiting'
  <1> DEFINE s == Top.s
             condBB == Top.to[1]
             exitBB == Top.owed[1]
             n == 1
  <1>1. /\ status = "generating" /\ work # <<>> /\ Top.k = "endwhile" /\ funcs' = funcs
        /\ \/ s.until = <<>> /\ blocks' = FallTo(blocks, insert, condBB)
           \/ /\ s.until # <<>>
              /\ blocks' = Emit(FallTo(Create(blocks, n, curFunc), insert, Fresh(1)),
                                Fresh(1), <<CondBr(s.until[1], exitBB, condBB)>>)
        /\ Continue(<<>>)
    BY DEF EndWhile, AtFrame, OnlyBlocks, FunctionUnchanged
  <1>2. condBB \in Nat /\ exitBB \in Nat /\ (s.until # <<>> => s.until[1] \in Expr)
        /\ n \in Nat /\ n >= 1
    BY <1>1, LoopKnows
  <1> HIDE DEF s, condBB, exitBB, n
  <1>3. Added(blocks')
    BY <1>1, <1>2, BeginSuiting, AddedFallTo, AddedUntil
  <1> QED BY <1>1, <1>3, NothingBelow, AddedSuits

(* The end of a FOR steps its variable.                                    *)
LEMMA EndForSuits ==
    ASSUME IInv, Suiting, EndFor PROVE Suiting'
  <1> DEFINE s == Top.s
             condBB == Top.to[1]
             exitBB == Top.owed[1]
             n == 2
             no == Fresh(2)
             step == Step(s.expr)
             last == <<step, Br(condBB)>>
             test == Emit(FallTo(Create(blocks, n, curFunc), insert, Fresh(1)),
                          Fresh(1), <<CondBr(s.until[1], exitBB, no)>>)
             mid == Emit(blocks, insert, <<step>>)
  <1>1. /\ status = "generating" /\ work # <<>> /\ Top.k = "endfor" /\ funcs' = funcs
        /\ \/ s.until = <<>> /\ blocks' = FallTo(mid, insert, condBB)
           \/ s.until # <<>> /\ blocks' = Emit(test, no, last)
        /\ Continue(<<>>)
    BY DEF EndFor, AtFrame, OnlyBlocks, FunctionUnchanged
  <1>2. /\ Added(blocks) /\ Len(blocks) \in Nat /\ insert \in 1..Len(blocks)
    BY BeginSuiting
  <1>3. /\ condBB \in Nat /\ exitBB \in Nat /\ (s.until # <<>> => s.until[1] \in Expr)
        /\ s.expr \in Expr
    BY <1>1, LoopKnows
  <1>4. step \in Common /\ Br(condBB) \in Common /\ step \in InstructionSet
    BY <1>3, CommonInstructions DEF Common
  <1> HIDE DEF step
  <1>5. last \in Seq(Common)
    BY <1>4
  <1>6. n \in Nat /\ n >= 1 /\ no \in Nat /\ no \in 1..(Len(blocks) + n)
    BY <1>2 DEF Fresh
  <1> HIDE DEF s, condBB, exitBB, n, no, last
  <1>7. CASE s.until = <<>>
    <2>1. Added(mid) /\ Len(mid) = Len(blocks)
      BY <1>2, <1>4, AddedOne
    <2> HIDE DEF mid
    <2>2. Added(blocks')
      BY <1>1, <1>2, <1>3, <1>7, <2>1, AddedFallTo
    <2> QED BY <1>1, <2>2, NothingBelow, AddedSuits
  <1>8. CASE s.until # <<>>
    <2>1. Added(test) /\ Len(test) = Len(blocks) + n
      BY <1>3, <1>6, <1>8, AddedUntil
    <2> HIDE DEF test
    <2>2. no \in 1..Len(test)
      BY <1>6, <2>1
    <2>3. Added(blocks')
      BY <1>1, <1>5, <1>8, <2>1, <2>2, AddedCommon
    <2> QED BY <1>1, <2>3, NothingBelow, AddedSuits
  <1> QED BY <1>7, <1>8

(* The end of a DO, with UNTIL or without.                                 *)
LEMMA EndDoSuits ==
    ASSUME IInv, Suiting, EndDo PROVE Suiting'
  <1> DEFINE s == Top.s
             bodyBB == Top.to[1]
             one == 1
             two == 2
             yes == Fresh(2)
             bs == FallTo(blocks, insert, bodyBB)
  <1>1. /\ status = "generating" /\ work # <<>> /\ Top.k = "enddo" /\ funcs' = funcs
        /\ \/ s.until = <<>> /\ blocks' = Create(bs, one, curFunc)
           \/ /\ s.until # <<>>
              /\ blocks' = Emit(FallTo(Create(blocks, two, curFunc), insert, Fresh(1)),
                                Fresh(1), <<CondBr(s.until[1], yes, bodyBB)>>)
        /\ Continue(<<>>)
    BY DEF EndDo, AtFrame, OnlyBlocks, FunctionUnchanged
  <1>2. /\ Added(blocks) /\ Len(blocks) \in Nat /\ insert \in 1..Len(blocks)
        /\ curFunc \in Nat /\ curFunc \in 1..Len(funcs)
    BY BeginSuiting
  <1>3. bodyBB \in Nat /\ (s.until # <<>> => s.until[1] \in Expr)
    BY <1>1, LoopKnows
  <1>4. one \in Nat /\ two \in Nat /\ two >= 1 /\ yes \in Nat
    BY <1>2 DEF Fresh
  <1> HIDE DEF s, bodyBB, one, two, yes
  <1>5. CASE s.until = <<>>
    <2>1. Added(bs) /\ Len(bs) = Len(blocks)
      BY <1>2, <1>3, AddedFallTo
    <2> HIDE DEF bs
    <2>2. Added(blocks')
      BY <1>1, <1>2, <1>4, <1>5, <2>1, AddedCreate
    <2> QED BY <1>1, <2>2, NothingBelow, AddedSuits
  <1>6. CASE s.until # <<>>
    <2>1. Added(blocks')
      BY <1>1, <1>3, <1>4, <1>6, AddedUntil
    <2> QED BY <1>1, <2>1, NothingBelow, AddedSuits
  <1> QED BY <1>5, <1>6

(* The end of a REPEAT.                                                    *)
LEMMA EndRepeatSuits ==
    ASSUME IInv, Suiting, EndRepeat PROVE Suiting'
  <1> DEFINE e == Top.s.expr
             yes == Top.owed[1]
             no == Top.to[1]
  <1>1. /\ status = "generating" /\ work # <<>> /\ Top.k = "endrepeat" /\ funcs' = funcs
        /\ blocks' = Emit(blocks, insert, <<CondBr(e, yes, no)>>) /\ Continue(<<>>)
    BY DEF EndRepeat, AtFrame, OnlyBlocks, FunctionUnchanged
  <1>2. e \in Expr /\ yes \in Nat /\ no \in Nat
    BY <1>1, LoopKnows
  <1> HIDE DEF e, yes, no
  <1>3. Added(blocks')
    BY <1>1, <1>2, BeginSuiting, AddedCondBr
  <1> QED BY <1>1, <1>3, NothingBelow, AddedSuits

(* DO and REPEAT branch to their bodies.                                   *)
LEMMA GenListSuits ==
    ASSUME IInv, Suiting, GenDo \/ GenRepeat PROVE Suiting'
  <1> DEFINE s == Top.s
             us == GenAll(s.stmts)
  <1>1. /\ status = "generating" /\ work # <<>> /\ funcs' = funcs
        /\ s.kind \in {"Do", "Repeat"}
    BY DEF GenDo, GenRepeat, AtNode, OnlyBlocks, FunctionUnchanged
  <1>2. \E n \in {1, 2} : blocks' = Emit(Create(blocks, n, curFunc), insert, <<Br(Fresh(1))>>)
    BY DEF GenDo, GenRepeat
  <1>3. PICK n \in {1, 2} :
            blocks' = Emit(Create(blocks, n, curFunc), insert, <<Br(Fresh(1))>>)
    BY <1>2
  <1>4. \E g : Continue(us \o <<g>>) /\ g.k # "arm"
    <2>1. CASE GenDo
      <3> DEFINE g == Frame("enddo", s, <<Fresh(1)>>, <<>>)
      <3>1. Continue(us \o <<g>>) /\ g.k # "arm"
        BY <2>1 DEF GenDo, Frame
      <3> HIDE DEF us, g
      <3> QED BY <3>1
    <2>2. CASE GenRepeat
      <3> DEFINE g == Frame("endrepeat", s, <<Fresh(1)>>, <<Fresh(2)>>)
      <3>1. Continue(us \o <<g>>) /\ g.k # "arm"
        BY <2>2 DEF GenRepeat, Frame
      <3> HIDE DEF us, g
      <3> QED BY <3>1
    <2> QED BY <2>1, <2>2
  <1>5. PICK g : Continue(us \o <<g>>) /\ g.k # "arm"
    BY <1>4
  <1>6. GenNodes(us)
    <2>1. s.stmts \in Seq(Node)
      BY <1>1, Begin DEF WellFormedNode, Optional
    <2> QED BY <2>1, GenAllFrames
  <1> HIDE DEF us, s
  <1> DEFINE bs == Create(blocks, n, curFunc)
  <1>7. /\ Added(blocks) /\ Len(blocks) \in Nat /\ insert \in 1..Len(blocks)
        /\ curFunc \in Nat /\ curFunc \in 1..Len(funcs) /\ n \in Nat
    BY BeginSuiting
  <1>8. Added(bs) /\ Len(bs) = Len(blocks) + n
    BY <1>7, AddedCreate
  <1> HIDE DEF bs
  <1>9. insert \in 1..Len(bs) /\ Fresh(1) \in Nat
    BY <1>7, <1>8 DEF Fresh
  <1>10. Added(blocks')
    BY <1>3, <1>8, <1>9, AddedBr DEF bs
  <1> QED BY <1>1, <1>5, <1>6, <1>10, ListBelow, AddedSuits

(***************************************************************************)
(* The handlers of returns and labels.                                     *)
(***************************************************************************)
LEMMA ReturnKinds ==
    ASSUME NEW value
    PROVE  /\ RetVoid.op = "retvoid" /\ Ret(value).op = "ret"
  BY DEF RetVoid, Ret, Instruction

(* A RETURN fits the procedure around it.                                  *)
LEMMA GenReturnSuits ==
    ASSUME IInv, Suiting, NEW A, NEW V, Settled(A, V), blocks[insert].fn = curFunc, GenReturn
    PROVE  Suiting'
  <1> DEFINE s == Top.s
             value == s.value
             ret == IF value = <<>> THEN RetVoid ELSE Ret(value)
             bs == Emit(blocks, insert, <<ret>>)
  <1>1. /\ status = "generating" /\ work # <<>> /\ funcs' = funcs /\ Continue(<<>>)
        /\ Top.k = "gen" /\ s.kind = "Return"
        /\ blocks' = Create(bs, 1, curFunc)
    BY DEF GenReturn, AtNode, OnlyBlocks, FunctionUnchanged
  <1>2. value \in Optional(Expr)
    BY <1>1, Begin DEF WellFormedNode
  <1>3. ret \in InstructionSet
    BY <1>2, Returns
  <1>4. funcs[curFunc] = V[1].owner
    BY <1>1, TopSound DEF Settled
  <1>5. Admitted(s, V[1])
    <2>1. <<s, V[1]>> \in A.at
      BY <1>1, NodeOnTop
    <2> QED BY <2>1 DEF Settled, Reading
  <1>6. Suits(funcs[blocks[insert].fn], ret)
    <2> DEFINE o == V[1].owner
    <2>1. o # <<>> /\ o[1].ret = IF value = <<>> THEN "void" ELSE "value"
      BY <1>1, <1>5 DEF Admitted
    <2>2. funcs[blocks[insert].fn] = o
      BY <1>4
    <2> HIDE DEF o
    <2>3. CASE value = <<>>
      <3>1. ret = RetVoid
        BY <2>3
      <3>2. ret.op = "retvoid"
        BY <3>1, ReturnKinds
      <3> QED BY <2>1, <2>2, <2>3, <3>2 DEF Suits
    <2>4. CASE value # <<>>
      <3>1. ret = Ret(value)
        BY <2>4
      <3>2. ret.op = "ret"
        BY <3>1, ReturnKinds
      <3> QED BY <2>1, <2>2, <2>4, <3>2 DEF Suits
    <2> QED BY <2>3, <2>4
  <1> HIDE DEF ret
  <1>7. Added(bs) /\ Len(bs) = Len(blocks)
    BY <1>3, <1>6, BeginSuiting, AddedOne
  <1> HIDE DEF bs
  <1>8. Added(blocks')
    <2>1. 1 \in Nat
      OBVIOUS
    <2> QED BY <1>1, <1>7, <2>1, BeginSuiting, AddedCreate
  <1> QED BY <1>1, <1>8, NothingBelow, AddedSuits

(* The default return of a procedure fits it, too.                         *)
LEMMA EndProcSuits ==
    ASSUME IInv, Suiting, NEW A, NEW V, Settled(A, V), blocks[insert].fn = curFunc, EndProc
    PROVE  Suiting'
  <1> DEFINE s == Top.s
             ret == DefaultReturn(s)
  <1>1. /\ status = "generating" /\ work # <<>> /\ funcs' = funcs /\ Continue(<<>>)
        /\ Top.k = "endproc"
        /\ blocks' = IF Terminated(blocks, insert) THEN blocks
                     ELSE Emit(blocks, insert, <<ret>>)
    BY DEF EndProc, AtFrame
  <1>2. s.ret \in {"void", "value"}
    <2>1. FrameOK(Top, Len(blocks), Len(funcs)) /\ WellFormedNode(s, Node, Name, Expr)
      BY <1>1, Begin
    <2>2. s.kind = "Proc"
      BY <1>1, <2>1 DEF FrameOK, NodeOf
    <2> QED BY <2>1, <2>2 DEF WellFormedNode
  <1>3. ret \in InstructionSet
    <2> DEFINE nothing == <<>>
    <2>1. nothing \in Optional(Expr) /\ ret \in {RetVoid, Ret(nothing)}
      BY DEF Optional, DefaultReturn
    <2> HIDE DEF nothing, ret
    <2> QED BY <2>1, Returns
  <1>4. funcs[blocks[insert].fn] = <<s>>
    <2>1. Judged(A, Top, V[1]) /\ funcs[curFunc] = V[1].owner
      BY <1>1, TopSound DEF Settled
    <2> QED BY <1>1, <2>1 DEF Judged
  <1>5. Suits(funcs[blocks[insert].fn], ret)
    <2> DEFINE o == <<s>>
    <2>1. o # <<>> /\ o[1] = s
      OBVIOUS
    <2>2. (s.ret = "void" /\ ret.op = "retvoid") \/ (s.ret = "value" /\ ret.op = "ret")
      <3>1. RetVoid.op = "retvoid" /\ Ret(<<>>).op = "ret"
        BY DEF RetVoid, Ret, Instruction
      <3>2. "value" # "void"
        OBVIOUS
      <3> QED BY <1>2, <3>1, <3>2 DEF DefaultReturn
    <2> HIDE DEF o
    <2>3. Suits(o, ret)
      BY <2>1, <2>2 DEF Suits
    <2> QED BY <1>4, <2>3 DEF o
  <1> HIDE DEF ret
  <1>6. Added(blocks')
    <2>1. CASE Terminated(blocks, insert)
      BY <1>1, <2>1, BeginSuiting
    <2>2. CASE ~Terminated(blocks, insert)
      <3>1. blocks' = Emit(blocks, insert, <<ret>>)
        BY <1>1, <2>2
      <3> QED BY <1>3, <1>5, <3>1, BeginSuiting, AddedOne
    <2> QED BY <2>1, <2>2
  <1> QED BY <1>1, <1>6, NothingBelow, AddedSuits

(* GOTO branches to the block of its label.                                *)
LEMMA GenGotoSuits ==
    ASSUME IInv, Suiting, GenGoto PROVE Suiting'
  <1> DEFINE to == labels[Top.s.name]
             new == Fresh(1)
             one == 1
             two == 2
             before == Emit(blocks, insert, <<Br(to)>>)
             after == Create(blocks, two, curFunc)
  <1>1. /\ status = "generating" /\ work # <<>> /\ funcs' = funcs /\ Continue(<<>>)
        /\ Top.s.kind = "Goto"
        /\ \/ blocks' = Create(before, one, curFunc)
           \/ blocks' = Emit(after, insert, <<Br(new)>>)
    BY DEF GenGoto, AtNode, FunctionUnchanged
  <1>2. to \in Nat
    <2>1. Top.s.name \in Name /\ labels \in [Name -> Nat]
      BY <1>1, Begin DEF WellFormedNode, IInv, Typed, TypeOK
    <2> QED BY <2>1
  <1>3. /\ Added(blocks) /\ Len(blocks) \in Nat /\ insert \in 1..Len(blocks)
        /\ curFunc \in Nat /\ curFunc \in 1..Len(funcs)
    BY BeginSuiting
  <1>4. new \in Nat /\ one \in Nat /\ two \in Nat
    BY <1>3 DEF Fresh
  <1> HIDE DEF to, new, one, two
  <1>5. Added(before)
    BY <1>2, <1>3, AddedBr
  <1>6. Added(after) /\ Len(after) = Len(blocks) + two
    BY <1>3, <1>4, AddedCreate
  <1>7. insert \in 1..Len(after)
    BY <1>3, <1>4, <1>6
  <1> HIDE DEF before, after
  <1>8. Added(blocks')
    <2>1. CASE blocks' = Create(before, one, curFunc)
      BY <1>3, <1>4, <1>5, <2>1, AddedCreate
    <2>2. CASE blocks' = Emit(after, insert, <<Br(new)>>)
      BY <1>4, <1>6, <1>7, <2>2, AddedBr
    <2> QED BY <1>1, <2>1, <2>2
  <1> QED BY <1>1, <1>8, NothingBelow, AddedSuits

(* Control falls into a label.                                             *)
LEMMA GenLabelSuits ==
    ASSUME IInv, Suiting, GenLabel PROVE Suiting'
  <1> DEFINE to == labels[Top.s.name]
             new == Fresh(1)
             one == 1
             x == Gen(Top.s.stmts[1])
             after == Create(blocks, one, curFunc)
  <1>1. /\ status = "generating" /\ work # <<>> /\ funcs' = funcs /\ Continue(<<x>>)
        /\ Top.s.kind = "Label"
        /\ \/ blocks' = FallTo(blocks, insert, to)
           \/ blocks' = FallTo(after, insert, new)
    BY DEF GenLabel, AtNode, FunctionUnchanged
  <1>2. to \in Nat
    <2>1. Top.s.name \in Name /\ labels \in [Name -> Nat]
      BY <1>1, Begin DEF WellFormedNode, IInv, Typed, TypeOK
    <2> QED BY <2>1
  <1>3. /\ Added(blocks) /\ Len(blocks) \in Nat /\ insert \in 1..Len(blocks)
        /\ curFunc \in Nat /\ curFunc \in 1..Len(funcs)
    BY BeginSuiting
  <1>4. new \in Nat /\ one \in Nat
    BY <1>3 DEF Fresh
  <1>5. x.k # "arm"
    BY DEF Gen, Frame
  <1> HIDE DEF to, new, one, x
  <1>6. Added(after) /\ Len(after) = Len(blocks) + one
    BY <1>3, <1>4, AddedCreate
  <1>7. insert \in 1..Len(after)
    BY <1>3, <1>4, <1>6
  <1> HIDE DEF after
  <1>8. Added(blocks')
    BY <1>1, <1>2, <1>3, <1>4, <1>6, <1>7, AddedFallTo
  <1> QED BY <1>1, <1>5, <1>8, OneBelow, AddedSuits

(* A procedure begins with a block that is empty.                          *)
LEMMA GenProcSuits ==
    ASSUME IInv, Suiting, GenProc PROVE Suiting'
  <1> DEFINE s == Top.s
             fn == Len(funcs) + 1
             g == GenAll(s.decls) \o GenAll(s.stmts)
             f == Frame("endproc", s, <<curFunc>>, <<insert>>)
             one == 1
  <1>1. /\ status = "generating" /\ work # <<>> /\ s.kind = "Proc"
        /\ funcs' = Append(funcs, <<s>>) /\ blocks' = Create(blocks, one, fn)
        /\ Continue(g \o <<f>>)
    BY DEF GenProc, AtNode
  <1>2. /\ Added(blocks) /\ Len(blocks) \in Nat /\ Len(funcs) \in Nat
    BY BeginSuiting
  <1>3. fn \in Nat /\ one \in Nat
    BY <1>2
  <1>4. GenNodes(g)
    <2>1. s.decls \in Seq(Node) /\ s.stmts \in Seq(Node)
      BY <1>1, Begin DEF WellFormedNode
    <2> QED BY <2>1, GenAllFrames, GenNodesConcat
  <1>5. f.k # "arm"
    BY DEF Frame
  <1>6. /\ \A i \in 1..Len(funcs) : funcs'[i] = funcs[i] /\ i \in 1..Len(funcs')
        /\ fn \in 1..Len(funcs')
    <2>1. funcs \in Seq(Optional(Node)) /\ <<s>> \in Optional(Node)
      <3>1. s \in Node
        BY <1>1, Begin
      <3> QED BY <3>1 DEF Optional, IInv, Typed, TypeOK
    <2>2. Len(funcs') = Len(funcs) + 1 /\ \A i \in 1..Len(funcs) : funcs'[i] = funcs[i]
      BY <1>1, <2>1, AppendProperties
    <2> QED BY <1>2, <2>2
  <1> HIDE DEF fn, g, f, one, s
  <1>7. ArmsBelow(work') /\ Len(work') \in Nat
    BY <1>1, <1>4, <1>5, ListBelow
  <1>8. /\ Lengthened(blocks')
        /\ \A b \in 1..Len(blocks') : \/ b \in 1..Len(blocks) /\ blocks'[b] = blocks[b]
                                      \/ blocks'[b].fn = fn /\ DOMAIN blocks'[b].ins = {}
    <2>1. Lengthened(blocks)
      BY <1>2 DEF Added
    <2> DEFINE cs == Create(blocks, one, fn)
    <2>2. cs = Create(blocks, one, fn)
      OBVIOUS
    <2> HIDE DEF cs
    <2>3. /\ Lengthened(cs) /\ Len(cs) = Len(blocks) + one
          /\ \A b \in 1..Len(cs) : \/ b \in 1..Len(blocks) /\ cs[b] = blocks[b]
                                   \/ cs[b].fn = fn /\ DOMAIN cs[b].ins = {}
      BY <1>2, <1>3, <2>1, <2>2, LengthenedCreate
    <2> QED BY <1>1, <2>2, <2>3
  <1>9. BlocksSuit(funcs', blocks')
    <2> SUFFICES ASSUME NEW b \in 1..Len(blocks')
                 PROVE  /\ blocks'[b].fn \in 1..Len(funcs')
                        /\ SuitsAll(funcs'[blocks'[b].fn], blocks'[b].ins)
      BY DEF BlocksSuit
    <2>1. CASE b \in 1..Len(blocks) /\ blocks'[b] = blocks[b]
      <3>1. /\ blocks[b].fn \in 1..Len(funcs)
            /\ SuitsAll(funcs[blocks[b].fn], blocks[b].ins)
        BY <2>1 DEF Suiting, BlocksSuit
      <3> QED BY <1>6, <2>1, <3>1
    <2>2. CASE blocks'[b].fn = fn /\ DOMAIN blocks'[b].ins = {}
      BY <1>6, <2>2 DEF SuitsAll
    <2> QED BY <1>8, <2>1, <2>2
  <1>10. ArmsSuit(blocks', work')
    BY <1>1, <1>7, <1>8, ArmsKept DEF Suiting
  <1> QED BY <1>9, <1>10 DEF Suiting

(***************************************************************************)
(* The handlers of CASE.                                                   *)
(***************************************************************************)
(* Where an instruction that is emitted ends up.                           *)
AtTheEnd(bs, b, i, p, cs) == /\ p \in DOMAIN cs[b].ins /\ cs[b].ins[p] = i
                             /\ p \notin DOMAIN bs[b].ins

(* There it is.                                                            *)
LEMMA EmitLast ==
    ASSUME NEW bs \in Seq(BlockSet), NEW b \in 1..Len(bs), NEW i \in InstructionSet,
           NEW p, p = Len(bs[b].ins) + 1, NEW cs, cs = Emit(bs, b, <<i>>)
    PROVE  AtTheEnd(bs, b, i, p, cs)
  <1> DEFINE instrs == <<i>>
             old == bs[b].ins
             ins == old \o instrs
             new == [bs[b] EXCEPT !.ins = ins]
  <1>1. instrs \in Seq(InstructionSet) /\ DOMAIN instrs = {1} /\ instrs[1] = i
    OBVIOUS
  <1>2. bs[b] \in BlockSet
    OBVIOUS
  <1>3. old \in Seq(InstructionSet)
    BY <1>2 DEF BlockSet
  <1> HIDE DEF instrs
  <1>4. /\ ins \in Seq(InstructionSet) /\ Len(old) \in Nat /\ DOMAIN old = 1..Len(old)
        /\ \A k \in DOMAIN instrs : /\ Len(old) + k \in DOMAIN ins
                                    /\ ins[Len(old) + k] = instrs[k]
    BY <1>1, <1>3, ConcatElements
  <1>5. new \in BlockSet /\ new.ins = ins
    BY <1>2, <1>4 DEF BlockSet
  <1>6. cs = [bs EXCEPT ![b] = new]
    BY DEF Emit, instrs
  <1> HIDE DEF new, ins
  <1>7. cs[b] = new
    BY <1>5, <1>6, ExceptSeq
  <1> QED BY <1>1, <1>4, <1>5, <1>7 DEF AtTheEnd

(* addCase adds a value to one switch and changes nothing else.            *)
SameBlocks(bs, cs) ==
    /\ Len(cs) = Len(bs)
    /\ \A c \in 1..Len(bs) : cs[c].fn = bs[c].fn /\ DOMAIN cs[c].ins = DOMAIN bs[c].ins
SameBut(bs, b, p, cs) ==
    \A c \in 1..Len(bs) : \A i \in DOMAIN bs[c].ins :
        c # b \/ i # p => cs[c].ins[i] = bs[c].ins[i]
SwitchGrows(old, value, new) == /\ new.op = old.op /\ new.e = old.e
                                /\ old.arg \in Seq(Nat)
                                /\ new.arg = Append(old.arg, value)
CaseAdded(bs, b, p, value, cs) ==
    /\ cs \in Seq(BlockSet) /\ SameBlocks(bs, cs) /\ SameBut(bs, b, p, cs)
    /\ SwitchGrows(bs[b].ins[p], value, cs[b].ins[p])

(* What AddCase does, element by element.                                  *)
LEMMA AddCaseElements ==
    ASSUME NEW bs \in Seq(BlockSet), NEW b \in 1..Len(bs),
           NEW p \in DOMAIN bs[b].ins, NEW value \in Nat, NEW to \in Nat,
           NEW cs, cs = AddCase(bs, b, p, value, to)
    PROVE  CaseAdded(bs, b, p, value, cs)
  <1> DEFINE old == bs[b].ins
             sw == old[p]
             arg == Append(sw.arg, value)
             switch == [sw EXCEPT !.arg = arg, !.to = Append(sw.to, to)]
             ins == [old EXCEPT ![p] = switch]
             block == [bs[b] EXCEPT !.ins = ins]
  <1>1. bs[b] \in BlockSet
    OBVIOUS
  <1>2. old \in Seq(InstructionSet) /\ p \in 1..Len(old) /\ DOMAIN old = 1..Len(old)
    <2>1. old \in Seq(InstructionSet)
      BY <1>1 DEF BlockSet
    <2> QED BY <2>1, LenProperties
  <1>3. sw \in InstructionSet /\ sw.arg \in Seq(Nat)
    <2>1. sw \in InstructionSet
      BY <1>2
    <2> QED BY <2>1 DEF InstructionSet
  <1>4. /\ switch \in InstructionSet /\ switch.op = sw.op /\ switch.e = sw.e
        /\ switch.arg = arg
    <2>1. arg \in Seq(Nat) /\ Append(sw.to, to) \in Seq(Nat)
      BY <1>3, AppendProperties DEF InstructionSet
    <2> HIDE DEF arg
    <2> QED BY <1>3, <2>1 DEF InstructionSet
  <1> HIDE DEF switch
  <1>5. /\ ins \in Seq(InstructionSet) /\ Len(ins) = Len(old) /\ ins[p] = switch
        /\ \A i \in 1..Len(old) : i # p => ins[i] = old[i]
    BY <1>2, <1>4, ExceptSeq
  <1>6. DOMAIN ins = DOMAIN old
    BY <1>2, <1>5, LenProperties
  <1>7. cs = [bs EXCEPT ![b] = block]
    BY DEF AddCase, switch
  <1> HIDE DEF ins
  <1>8. block \in BlockSet /\ block.ins = ins /\ block.fn = bs[b].fn
    BY <1>1, <1>5 DEF BlockSet
  <1> HIDE DEF block
  <1>9. /\ cs \in Seq(BlockSet) /\ Len(cs) = Len(bs) /\ cs[b] = block
        /\ \A c \in 1..Len(bs) : c # b => cs[c] = bs[c]
    BY <1>7, <1>8, ExceptSeq
  <1>10. \A c \in 1..Len(bs) : cs[c].fn = bs[c].fn /\ DOMAIN cs[c].ins = DOMAIN bs[c].ins
    BY <1>6, <1>8, <1>9
  <1>11. \A c \in 1..Len(bs) : \A i \in DOMAIN bs[c].ins :
            c # b \/ i # p => cs[c].ins[i] = bs[c].ins[i]
    BY <1>2, <1>5, <1>8, <1>9
  <1>12. cs[b].ins[p].op = sw.op /\ cs[b].ins[p].e = sw.e /\ cs[b].ins[p].arg = arg
    BY <1>4, <1>5, <1>8, <1>9
  <1>13. SameBlocks(bs, cs) /\ SameBut(bs, b, p, cs)
    BY <1>9, <1>10, <1>11 DEF SameBlocks, SameBut
  <1>14. SwitchGrows(sw, value, cs[b].ins[p])
    BY <1>3, <1>12 DEF SwitchGrows
  <1> QED BY <1>9, <1>13, <1>14 DEF CaseAdded

(* The elements of a sequence with one more.                               *)
LEMMA AppendElements ==
    ASSUME NEW a \in Seq(Nat), NEW v \in Nat, NEW c, c = Append(a, v)
    PROVE  /\ DOMAIN a = 1..Len(a) /\ Len(a) \in Nat /\ DOMAIN c = 1..(Len(a) + 1)
           /\ \A i \in DOMAIN a : c[i] = a[i]
           /\ c[Len(a) + 1] = v
           /\ \A i \in DOMAIN c : i \in DOMAIN a \/ i = Len(a) + 1
  <1>1. /\ DOMAIN a = 1..Len(a) /\ Len(a) \in Nat /\ c \in Seq(Nat) /\ Len(c) = Len(a) + 1
        /\ \A i \in 1..Len(a) : c[i] = a[i]
        /\ c[Len(a) + 1] = v
    BY AppendProperties, LenProperties
  <1>2. DOMAIN c = 1..(Len(a) + 1)
    BY <1>1, LenProperties
  <1> QED BY <1>1, <1>2

(* Distinct values and a new one are distinct.                             *)
LEMMA DistinctAppend ==
    ASSUME NEW a \in Seq(Nat), NEW v \in Nat, Distinct(a), \A i \in DOMAIN a : a[i] # v,
           NEW c, c = Append(a, v)
    PROVE  Distinct(c)
  BY AppendElements DEF Distinct

(* What the frame of an arm holds.                                         *)
LEMMA ArmNumbers ==
    ASSUME NEW f \in FrameSet, f.k = "arm", NEW nb, NEW nf, FrameOK(f, nb, nf)
    PROVE  /\ f.to[1] \in Nat /\ f.to[2] \in Nat /\ f.to[3] \in Nat /\ f.to[4] \in Nat
           /\ f.s \in Node /\ f.s.kind = "Case" /\ CaseValues(f.s) \in Seq(Nat)
           /\ f.to[3] \in DOMAIN CaseValues(f.s)
           /\ DOMAIN CaseValues(f.s) = 1..Len(CaseValues(f.s))
           /\ f.s.stmts \in Seq(Node)
  <1>1. /\ f.to \in Seq(Nat) /\ Len(f.to) = 4 /\ f.to[3] \in DOMAIN f.s.stmts
        /\ f.s \in Node /\ f.s.kind = "Case"
    BY DEF FrameSet, FrameOK, NodeOf
  <1>2. /\ CaseValues(f.s) \in Seq(Nat) /\ f.s.stmts \in Seq(Node)
        /\ Len(CaseValues(f.s)) = Len(f.s.stmts)
        /\ DOMAIN CaseValues(f.s) = 1..Len(f.s.stmts)
    BY <1>1, CaseValuesProperties, NodeAssumption DEF WellFormed, WellFormedNode
  <1>3. /\ DOMAIN CaseValues(f.s) = 1..Len(CaseValues(f.s))
        /\ DOMAIN f.s.stmts = 1..Len(f.s.stmts)
    BY <1>2, LenProperties
  <1>4. f.to[1] \in Nat /\ f.to[2] \in Nat /\ f.to[3] \in Nat /\ f.to[4] \in Nat
    BY <1>1
  <1> QED BY <1>1, <1>2, <1>3, <1>4

(* The value of an arm is one of those before the next.                    *)
LEMMA EarlierAppend ==
    ASSUME NEW vals \in Seq(Nat), NEW k \in DOMAIN vals,
           DOMAIN vals = 1..Len(vals), k \in Nat, vals[k] \in Nat, Distinct(vals),
           NEW old, NEW new, SwitchGrows(old, vals[k], new), Earlier(old.arg, vals, k)
    PROVE  /\ \A m \in Nat : k < m => Earlier(new.arg, vals, m)
           /\ Distinct(old.arg) => Distinct(new.arg)
  <1> DEFINE a == old.arg
             c == new.arg
  <1>1. a \in Seq(Nat) /\ c = Append(a, vals[k]) /\ Earlier(a, vals, k)
    BY DEF SwitchGrows
  <1> SUFFICES /\ \A m \in Nat : k < m => Earlier(c, vals, m)
               /\ Distinct(a) => Distinct(c)
    OBVIOUS
  <1> HIDE DEF a, c
  <1>2. /\ \A i \in DOMAIN a : c[i] = a[i]
        /\ c[Len(a) + 1] = vals[k]
        /\ \A i \in DOMAIN c : i \in DOMAIN a \/ i = Len(a) + 1
    BY <1>1, AppendElements
  <1>3. \A v \in DOMAIN a : \E j \in DOMAIN vals : j < k /\ a[v] = vals[j]
    BY <1>1 DEF Earlier
  <1>4. ASSUME NEW m \in Nat, k < m, NEW v \in DOMAIN c
        PROVE  \E j \in DOMAIN vals : j < m /\ c[v] = vals[j]
    <2>1. CASE v \in DOMAIN a
      <3>1. PICK j \in DOMAIN vals : j < k /\ a[v] = vals[j]
        BY <1>3, <2>1
      <3>2. j < m
        BY <1>4, <3>1
      <3> QED BY <1>2, <2>1, <3>1, <3>2
    <2>2. CASE v = Len(a) + 1
      BY <1>2, <1>4, <2>2
    <2> QED BY <1>2, <2>1, <2>2
  <1>5. \A v \in DOMAIN a : a[v] # vals[k]
    <2> SUFFICES ASSUME NEW v \in DOMAIN a PROVE a[v] # vals[k]
      OBVIOUS
    <2>1. PICK j \in DOMAIN vals : j < k /\ a[v] = vals[j]
      BY <1>3
    <2>2. j # k
      BY <2>1
    <2> QED BY <2>1, <2>2 DEF Distinct
  <1>6. Distinct(a) => Distinct(c)
    BY <1>1, <1>5, DistinctAppend
  <1> QED BY <1>4, <1>6 DEF Earlier

(* Another switch stays as it is; this one has the value.                  *)
LEMMA SwitchAfter ==
    ASSUME NEW bs, NEW b, NEW p, NEW value, NEW cs, CaseAdded(bs, b, p, value, cs),
           NEW d, NEW q, NEW vals, NEW k, SwitchSuits(bs, d, q, vals, k),
           d = b /\ q = p => Earlier(cs[b].ins[p].arg, vals, k)
    PROVE  SwitchSuits(cs, d, q, vals, k)
  <1>1. /\ d \in 1..Len(bs) /\ q \in DOMAIN bs[d].ins /\ Distinct(vals)
        /\ Earlier(bs[d].ins[q].arg, vals, k)
    BY DEF SwitchSuits
  <1>2. d \in 1..Len(cs) /\ q \in DOMAIN cs[d].ins
    BY <1>1 DEF CaseAdded, SameBlocks
  <1>3. CASE d # b \/ q # p
    <2>1. cs[d].ins[q] = bs[d].ins[q]
      BY <1>1, <1>3 DEF CaseAdded, SameBut
    <2> QED BY <1>1, <1>2, <2>1 DEF SwitchSuits
  <1>4. CASE d = b /\ q = p
    BY <1>1, <1>2, <1>4 DEF SwitchSuits
  <1> QED BY <1>3, <1>4

(* A value that is not in the switch yet leaves the blocks suiting.        *)
LEMMA CaseSuits ==
    ASSUME NEW fns, NEW bs, BlocksSuit(fns, bs),
           NEW b, NEW p, NEW value, NEW cs, CaseAdded(bs, b, p, value, cs),
           Distinct(bs[b].ins[p].arg) => Distinct(cs[b].ins[p].arg)
    PROVE  BlocksSuit(fns, cs)
  <1> SUFFICES ASSUME NEW c \in 1..Len(bs)
               PROVE  /\ cs[c].fn \in 1..Len(fns)
                      /\ SuitsAll(fns[cs[c].fn], cs[c].ins)
    BY DEF BlocksSuit, CaseAdded, SameBlocks
  <1>1. /\ bs[c].fn \in 1..Len(fns)
        /\ \A i \in DOMAIN bs[c].ins : Suits(fns[bs[c].fn], bs[c].ins[i])
    BY DEF BlocksSuit, SuitsAll
  <1>2. cs[c].fn = bs[c].fn /\ DOMAIN cs[c].ins = DOMAIN bs[c].ins
    BY DEF CaseAdded, SameBlocks
  <1>3. ASSUME NEW i \in DOMAIN bs[c].ins PROVE Suits(fns[bs[c].fn], cs[c].ins[i])
    <2>1. CASE c # b \/ i # p
      <3>1. SameBut(bs, b, p, cs)
        BY DEF CaseAdded
      <3>2. cs[c].ins[i] = bs[c].ins[i]
        BY <2>1, <3>1 DEF SameBut
      <3> QED BY <1>1, <3>2
    <2>2. CASE c = b /\ i = p
      <3>1. Suits(fns[bs[c].fn], bs[b].ins[p])
        BY <1>1, <2>2
      <3>2. SwitchGrows(bs[b].ins[p], value, cs[b].ins[p])
        BY DEF CaseAdded
      <3>3. \A o, old, new : SwitchGrows(old, value, new) /\ Suits(o, old)
                                /\ (Distinct(old.arg) => Distinct(new.arg)) => Suits(o, new)
        BY DEF Suits, SwitchGrows
      <3>4. Suits(fns[bs[c].fn], cs[b].ins[p])
        BY <3>1, <3>2, <3>3
      <3> QED BY <2>2, <3>4
    <2> QED BY <2>1, <2>2
  <1> QED BY <1>1, <1>2, <1>3 DEF SuitsAll

(* The arm f adds its value, and the arms in gs come after it.             *)
ArmAdded(bs, f, to, cs) == cs = AddCase(bs, f.to[1], f.to[2], CaseValues(f.s)[f.to[3]], to)
ArmsLater(f, gs) ==
    /\ \A i \in 1..Len(gs) : gs[i].k = "arm" => gs[i].to[3] \in Nat
    /\ \A i \in 1..Len(gs) : SameSwitch(f, gs[i]) =>
          f.s = gs[i].s /\ f.to[3] < gs[i].to[3]

(* An arm adds a value that the switch does not have yet, and that is not  *)
(* the value of an arm to come.                                            *)
LEMMA ArmAdds ==
    ASSUME NEW bs \in Seq(BlockSet), BlocksSuit(funcs, bs),
           NEW f \in FrameSet, f.k = "arm", NEW nb, NEW nf, FrameOK(f, nb, nf),
           ArmSuits(bs, f), NEW to \in Nat, NEW cs, ArmAdded(bs, f, to, cs),
           NEW gs, ArmsSuit(bs, gs), ArmsLater(f, gs)
    PROVE  BlocksSuit(funcs, cs) /\ ArmsSuit(cs, gs)
  <1> DEFINE b == f.to[1]
             p == f.to[2]
             k == f.to[3]
             vals == CaseValues(f.s)
             value == vals[k]
  <1>1. /\ b \in Nat /\ p \in Nat /\ k \in Nat /\ vals \in Seq(Nat)
        /\ k \in DOMAIN vals /\ DOMAIN vals = 1..Len(vals)
    BY ArmNumbers
  <1>2. value \in Nat
    <2> HIDE DEF k, vals
    <2> QED BY <1>1, ElementOfSeq
  <1>3. SwitchSuits(bs, b, p, vals, k)
    BY DEF ArmSuits
  <1>4. cs = AddCase(bs, b, p, value, to)
    BY DEF ArmAdded
  <1> HIDE DEF b, p, k, vals
  <1>5. Distinct(vals) /\ Earlier(bs[b].ins[p].arg, vals, k)
    BY <1>3 DEF SwitchSuits
  <1>6. CaseAdded(bs, b, p, value, cs)
    <2>1. b \in 1..Len(bs) /\ p \in DOMAIN bs[b].ins
      BY <1>3 DEF SwitchSuits
    <2> HIDE DEF value
    <2> QED BY <1>2, <1>4, <2>1, AddCaseElements
  <1>7. /\ \A m \in Nat : k < m => Earlier(cs[b].ins[p].arg, vals, m)
        /\ Distinct(bs[b].ins[p].arg) => Distinct(cs[b].ins[p].arg)
    <2>1. SwitchGrows(bs[b].ins[p], vals[k], cs[b].ins[p])
      BY <1>6 DEF CaseAdded
    <2>2. vals[k] \in Nat
      BY <1>2
    <2>3. \A old, new : SwitchGrows(old, vals[k], new) /\ Earlier(old.arg, vals, k) =>
             /\ \A m \in Nat : k < m => Earlier(new.arg, vals, m)
             /\ Distinct(old.arg) => Distinct(new.arg)
      <3> HIDE DEF value
      <3> QED BY <1>1, <1>5, <2>2, EarlierAppend
    <2> HIDE DEF value
    <2> QED BY <1>5, <2>1, <2>3
  <1> HIDE DEF value
  <1>8. BlocksSuit(funcs, cs)
    BY <1>6, <1>7, CaseSuits
  <1>9. ASSUME NEW i \in 1..Len(gs) PROVE ArmSuits(cs, gs[i])
    <2> SUFFICES ASSUME gs[i].k = "arm"
                 PROVE  SwitchSuits(cs, gs[i].to[1], gs[i].to[2], CaseValues(gs[i].s),
                                     gs[i].to[3])
      BY DEF ArmSuits
    <2>1. SwitchSuits(bs, gs[i].to[1], gs[i].to[2], CaseValues(gs[i].s), gs[i].to[3])
      BY DEF ArmsSuit, ArmSuits
    <2>2. gs[i].to[3] \in Nat
      BY DEF ArmsLater
    <2>3. SameSwitch(f, gs[i]) => vals = CaseValues(gs[i].s) /\ k < gs[i].to[3]
      BY DEF ArmsLater, vals, k
    <2>4. gs[i].to[1] = b /\ gs[i].to[2] = p => SameSwitch(f, gs[i])
      BY DEF SameSwitch, b, p
    <2> QED BY <1>6, <1>7, <2>1, <2>2, <2>3, <2>4, SwitchAfter
  <1>10. ArmsSuit(cs, gs)
    BY <1>9 DEF ArmsSuit
  <1> QED BY <1>8, <1>10

(* The arm on top of the stack adds its value.                             *)
LEMMA GenArmSuits ==
    ASSUME IInv, Suiting, GenArm PROVE Suiting'
  <1> DEFINE f == Top
             s == f.s
             one == 1
             armBB == Fresh(one)
             bs == Create(blocks, one, curFunc)
             x == Gen(s.stmts[f.to[3]])
             y == Frame("endarm", s, <<f.to[4]>>, <<>>)
  <1>1. /\ status = "generating" /\ work # <<>> /\ funcs' = funcs /\ f.k = "arm"
        /\ blocks' = AddCase(bs, f.to[1], f.to[2], CaseValues(s)[f.to[3]], armBB)
        /\ Continue(<<x, y>>)
    BY DEF GenArm, AtFrame, OnlyBlocks, FunctionUnchanged
  <1>2. x.k # "arm" /\ y.k # "arm"
    BY DEF Gen, Frame
  <1> HIDE DEF x, y
  <1>3. ArmsBelow(work') /\ Len(work') \in Nat
    BY <1>1, <1>2, PairBelow
  <1>4. /\ Added(blocks) /\ Len(blocks) \in Nat
        /\ curFunc \in Nat /\ curFunc \in 1..Len(funcs)
    BY BeginSuiting
  <1>5. one \in Nat /\ armBB \in Nat
    BY <1>4 DEF Fresh
  <1>6. f \in FrameSet /\ FrameOK(f, Len(blocks), Len(funcs))
    BY <1>1, Begin
  <1> HIDE DEF one, armBB
  <1>7. Added(bs)
    BY <1>4, <1>5, AddedCreate
  <1> HIDE DEF bs
  <1>8. bs \in Seq(BlockSet) /\ Lengthened(bs) /\ BlocksSuit(funcs, bs)
    BY <1>7 DEF Added, Lengthened
  <1>9. f = work[1] /\ 1 \in 1..Len(work) /\ Len(work) \in Nat
    BY <1>1, TopIsFirst
  <1> HIDE DEF f
  <1>10. ArmsSuit(bs, work') /\ ArmSuits(bs, f)
    <2>1. ArmsSuit(blocks, work)
      BY DEF Suiting
    <2>2. ArmSuits(blocks, f)
      BY <1>9, <2>1 DEF ArmsSuit
    <2> QED BY <1>1, <1>3, <1>8, <2>1, <2>2, ArmsKept, ArmKept
  <1>11. ASSUME NEW i \in 1..Len(work'), work'[i].k = "arm"
         PROVE  /\ work'[i].to[3] \in Nat
                /\ SameSwitch(f, work'[i]) => f.s = work'[i].s /\ f.to[3] < work'[i].to[3]
    <2>1. PICK j \in 2..Len(work) : work'[i] = work[j]
      BY <1>3, <1>11 DEF ArmsBelow
    <2>2. j \in 1..Len(work) /\ 1 < j /\ j \in DOMAIN work
      <3>1. DOMAIN work = 1..Len(work)
        BY LenProperties DEF IInv, Typed, TypeOK
      <3> QED BY <1>9, <2>1, <3>1
    <2>3. work[j] \in FrameSet /\ FrameOK(work[j], Len(blocks), Len(funcs))
      BY <2>2 DEF IInv, Typed, TypeOK, FramesOK
    <2>4. work[j].to[3] \in Nat
      BY <1>11, <2>1, <2>3, ArmNumbers
    <2>5. SameSwitch(f, work[j]) => f.s = work[j].s /\ f.to[3] < work[j].to[3]
      BY <1>9, <2>2 DEF Suiting, ArmsSuit
    <2> QED BY <2>1, <2>4, <2>5
  <1>12. BlocksSuit(funcs, blocks') /\ ArmsSuit(blocks', work')
    <2>1. \A i \in 1..Len(work') : SameSwitch(f, work'[i]) =>
             f.s = work'[i].s /\ f.to[3] < work'[i].to[3]
      BY <1>11 DEF SameSwitch
    <2>2. \A i \in 1..Len(work') : work'[i].k = "arm" => work'[i].to[3] \in Nat
      BY <1>11
    <2>3. ArmsLater(f, work')
      BY <2>1, <2>2 DEF ArmsLater
    <2>4. f.k = "arm" /\ ArmAdded(bs, f, armBB, blocks')
      BY <1>1 DEF ArmAdded
    <2> QED BY <1>5, <1>6, <1>8, <1>10, <2>3, <2>4, ArmAdds
  <1> QED BY <1>1, <1>12 DEF Suiting

(* The arms that GenCase pushes, the end of the CASE behind them.          *)
LEMMA ArmsPushed ==
    ASSUME IInv, work # <<>>, NEW us \in Seq(FrameSet), NEW g \in FrameSet,
           Continue(us \o <<g>>)
    PROVE  /\ Len(us) \in Nat /\ Len(work) \in Nat \ {0}
           /\ Len(work') = Len(us) + Len(work)
           /\ \A i \in 1..Len(work') :
                 \/ i \in 1..Len(us) /\ work'[i] = us[i]
                 \/ i = Len(us) + 1 /\ work'[i] = g
                 \/ i - Len(us) \in 2..Len(work) /\ work'[i] = work[i - Len(us)]
  <1> DEFINE n == Len(us)
             last == <<g>>
             items == us \o last
             t == Tail(work)
  <1>1. /\ t \in Seq(FrameSet) /\ Len(work) \in Nat \ {0}
        /\ DOMAIN t = 1..(Len(work) - 1) /\ Len(t) \in Nat
        /\ \A i \in DOMAIN t : t[i] = work[i + 1]
    BY TailProperties, LenProperties DEF IInv, Typed, TypeOK
  <1>2. last \in Seq(FrameSet) /\ Len(last) = 1 /\ DOMAIN last = {1} /\ last[1] = g
    OBVIOUS
  <1>3. work' = items \o t
    BY DEF Continue
  <1>4. Len(t) = Len(work) - 1
    BY <1>1
  <1> HIDE DEF last, t
  <1>5. /\ items \in Seq(FrameSet) /\ Len(items) = n + Len(last) /\ n \in Nat
        /\ DOMAIN us = 1..n
        /\ DOMAIN items = 1..(n + Len(last))
        /\ \A i \in DOMAIN items : \/ i \in DOMAIN us /\ items[i] = us[i]
                                   \/ i - n \in DOMAIN last /\ items[i] = last[i - n]
    <2>1. us \in Seq(FrameSet) /\ last \in Seq(FrameSet)
      BY <1>2
    <2> QED BY <2>1, ConcatElements
  <1> HIDE DEF n, items
  <1>6. /\ Len(work') = Len(items) + Len(t)
        /\ DOMAIN work' = 1..(Len(items) + Len(t))
        /\ \A i \in DOMAIN work' :
              \/ i \in DOMAIN items /\ work'[i] = items[i]
              \/ i - Len(items) \in DOMAIN t /\ work'[i] = t[i - Len(items)]
    <2>1. items \in Seq(FrameSet) /\ t \in Seq(FrameSet)
      BY <1>1, <1>5
    <2> QED BY <1>3, <2>1, ConcatElements
  <1>7. Len(work') = n + Len(work) /\ Len(items) = n + 1
    BY <1>1, <1>2, <1>4, <1>5, <1>6
  <1>8. ASSUME NEW i \in 1..Len(work')
        PROVE  \/ i \in 1..n /\ work'[i] = us[i]
               \/ i = n + 1 /\ work'[i] = g
               \/ i - n \in 2..Len(work) /\ work'[i] = work[i - n]
    <2>1. i \in DOMAIN work'
      BY <1>6
    <2>2. CASE i \in DOMAIN items /\ work'[i] = items[i]
      <3>1. CASE i \in DOMAIN us /\ items[i] = us[i]
        BY <1>5, <2>2, <3>1
      <3>2. CASE i - n \in DOMAIN last /\ items[i] = last[i - n]
        <4>1. i - n = 1
          BY <1>2, <3>2
        <4>2. i = n + 1
          BY <1>5, <4>1
        <4> QED BY <1>2, <2>2, <3>2, <4>1, <4>2
      <3> QED BY <1>5, <2>2, <3>1, <3>2
    <2>3. CASE i - Len(items) \in DOMAIN t /\ work'[i] = t[i - Len(items)]
      <3>1. PICK m \in DOMAIN t : m = i - Len(items)
        BY <2>3
      <3>2. i - n = m + 1 /\ m + 1 \in 2..Len(work)
        BY <1>1, <1>5, <1>7, <3>1
      <3>3. work'[i] = work[m + 1]
        BY <1>1, <2>3, <3>1
      <3> QED BY <3>2, <3>3
    <2> QED BY <1>6, <2>1, <2>2, <2>3
  <1> QED BY <1>1, <1>5, <1>7, <1>8 DEF n

(* A CASE begins with a switch that has no value, and its arms come in     *)
(* order.                                                                  *)
LEMMA GenCaseSuits ==
    ASSUME IInv, Suiting, NEW A, NEW V, Settled(A, V), GenCase PROVE Suiting'
  <1> DEFINE s == Top.s
             at == Len(blocks[insert].ins) + 1
             n == Len(s.stmts)
             default == Fresh(1)
             merge == Fresh(2)
             us == [i \in 1..n |-> Frame("arm", s, <<insert, at, i, merge>>, <<>>)]
             g == Frame("endcase", s, <<>>, <<default, merge>>)
             two == 2
             bs == Create(blocks, two, curFunc)
             sw == Switch(s.expr, default)
  <1>1. /\ work # <<>> /\ Top.k = "gen" /\ s.kind = "Case" /\ status = "generating"
        /\ funcs' = funcs /\ Continue(us \o <<g>>)
        /\ blocks' = Emit(bs, insert, <<sw>>)
    BY DEF GenCase, AtNode, OnlyBlocks, FunctionUnchanged
  <1>2. /\ Added(blocks) /\ Len(blocks) \in Nat /\ insert \in 1..Len(blocks)
        /\ curFunc \in Nat /\ curFunc \in 1..Len(funcs) /\ insert \in Nat
        /\ blocks \in Seq(BlockSet)
    BY <1>1, Begin, BeginSuiting
  <1>3. /\ s \in Node /\ s.stmts \in Seq(Node) /\ s.expr \in Expr
        /\ n \in Nat /\ Distinct(CaseValues(s))
    <2>1. s \in Node /\ WellFormedNode(s, Node, Name, Expr)
      BY <1>1, Begin
    <2>2. s.stmts \in Seq(Node) /\ s.expr \in Expr
      BY <1>1, <2>1 DEF WellFormedNode
    <2>3. Admitted(s, V[1])
      <3>1. <<s, V[1]>> \in A.at
        BY <1>1, NodeOnTop
      <3> QED BY <3>1 DEF Settled, Reading
    <2>4. n \in Nat
      BY <2>2, LenProperties
    <2> QED BY <1>1, <2>1, <2>2, <2>3, <2>4 DEF Admitted
  <1>4. default \in Nat /\ merge \in Nat /\ two \in Nat /\ at \in Nat
    <2>1. blocks[insert] \in BlockSet
      BY <1>2
    <2>2. blocks[insert].ins \in Seq(InstructionSet)
      BY <2>1 DEF BlockSet
    <2> QED BY <1>2, <2>2 DEF Fresh
  <1>5. g \in FrameSet /\ g.k # "arm"
    <2>1. <<>> \in Seq(Nat) /\ <<default, merge>> \in Seq(Nat)
      BY <1>4
    <2> HIDE DEF s
    <2> QED BY <1>3, <2>1 DEF Frame, FrameSet, FrameKinds
  <1>6. us \in Seq(FrameSet) /\ Len(us) = n
        /\ \A i \in 1..n : /\ us[i].k = "arm" /\ us[i].s = s /\ us[i].to[1] = insert
                           /\ us[i].to[2] = at /\ us[i].to[3] = i
    <2> HIDE DEF s, at, n, merge
    <2>1. ASSUME NEW i \in 1..n
          PROVE  /\ us[i] \in FrameSet
                 /\ us[i].k = "arm" /\ us[i].s = s /\ us[i].to[1] = insert
                 /\ us[i].to[2] = at /\ us[i].to[3] = i
      <3> DEFINE to == <<insert, at, i, merge>>
                 none == <<>>
      <3>1. /\ to \in Seq(Nat) /\ none \in Seq(Nat) /\ to[1] = insert /\ to[2] = at
            /\ to[3] = i
        BY <1>2, <1>4
      <3>2. us[i] = Frame("arm", s, to, none)
        OBVIOUS
      <3> HIDE DEF us, to, none
      <3> QED BY <1>3, <3>1, <3>2 DEF Frame, FrameSet, FrameKinds
    <2>2. DOMAIN us = 1..n /\ \A i \in 1..n : us[i] \in FrameSet
      BY <2>1
    <2> HIDE DEF us
    <2>3. Len(us) = n
      <3>1. us \in [1..n -> FrameSet]
        BY <2>2 DEF us
      <3> QED BY <1>3, <3>1
    <2>4. us \in Seq(FrameSet)
      <3>1. us \in [1..n -> FrameSet]
        BY <2>2 DEF us
      <3> QED BY <1>3, <3>1
    <2> QED BY <2>1, <2>3, <2>4
  <1>7. /\ sw \in InstructionSet /\ Suits(funcs[blocks[insert].fn], sw) /\ DOMAIN sw.arg = {}
    <2> HIDE DEF default, s
    <2>1. sw \in InstructionSet /\ sw.op = "switch" /\ sw.arg = <<>>
      BY <1>3, <1>4 DEF Switch, Instruction, InstructionSet, Ops, Terminators, Optional
    <2>2. DOMAIN sw.arg = {}
      BY <2>1
    <2> HIDE DEF sw
    <2> QED BY <2>1, <2>2 DEF Suits, Distinct
  <1> HIDE DEF us, g, two, sw, default, merge
  <1>8. /\ Added(bs) /\ Len(bs) = Len(blocks) + two
        /\ bs \in Seq(BlockSet) /\ insert \in 1..Len(bs) /\ bs[insert] = blocks[insert]
    <2>1. Added(bs) /\ Len(bs) = Len(blocks) + two
      BY <1>2, <1>4, AddedCreate
    <2>2. bs \in Seq(BlockSet)
      BY <2>1 DEF Added, Lengthened
    <2>3. \A m, h \in Nat : \A b \in 1..Len(blocks) : Create(blocks, m, h)[b] = blocks[b]
      BY <1>2, CreateBelongs
    <2>4. bs[insert] = blocks[insert]
      BY <1>2, <1>4, <2>3
    <2>5. insert \in 1..Len(bs)
      BY <1>2, <1>4, <2>1
    <2> QED BY <2>1, <2>2, <2>4, <2>5
  <1> HIDE DEF bs
  <1>9. Added(blocks') /\ Len(blocks') = Len(bs)
    BY <1>1, <1>7, <1>8, AddedOne
  <1>10. /\ at \in DOMAIN blocks'[insert].ins /\ blocks'[insert].ins[at] = sw
         /\ at \notin DOMAIN blocks[insert].ins
    <2>1. at = Len(bs[insert].ins) + 1
      BY <1>8
    <2> HIDE DEF at
    <2>2. AtTheEnd(bs, insert, sw, at, blocks')
      BY <1>1, <1>7, <1>8, <2>1, EmitLast
    <2>3. /\ at \in DOMAIN blocks'[insert].ins /\ blocks'[insert].ins[at] = sw
          /\ at \notin DOMAIN bs[insert].ins
      BY <2>2 DEF AtTheEnd
    <2> QED BY <1>8, <2>3
  <1> HIDE DEF at, s, n
  <1>11. /\ Len(work) \in Nat \ {0} /\ Len(work') = n + Len(work)
         /\ \A i \in 1..Len(work') :
               \/ i \in 1..n /\ work'[i] = us[i]
               \/ i = n + 1 /\ work'[i] = g
               \/ i - n \in 2..Len(work) /\ work'[i] = work[i - n]
    BY <1>1, <1>5, <1>6, ArmsPushed
  <1>12. ASSUME NEW i \in 1..Len(work'), work'[i].k = "arm"
         PROVE  \/ i \in 1..n /\ work'[i] = us[i]
                \/ i - n \in 1..Len(work) /\ work'[i] = work[i - n]
    <2>1. ~(i = n + 1 /\ work'[i] = g)
      BY <1>5, <1>12
    <2>2. i - n \in 2..Len(work) => i - n \in 1..Len(work)
      BY <1>11
    <2> QED BY <1>11, <2>1, <2>2
  <1>13. Lengthened(blocks') /\ insert \in 1..Len(blocks')
    BY <1>8, <1>9 DEF Added
  <1>14. ASSUME NEW i \in 1..n PROVE ArmSuits(blocks', us[i])
    <2>1. us[i].to[1] = insert /\ us[i].to[2] = at
      BY <1>6
    <2>2. Distinct(CaseValues(us[i].s))
      BY <1>3, <1>6
    <2>3. Earlier(sw.arg, CaseValues(us[i].s), us[i].to[3])
      BY <1>7 DEF Earlier
    <2> QED BY <1>10, <1>13, <2>1, <2>2, <2>3 DEF ArmSuits, SwitchSuits
  <1>15. ASSUME NEW i \in 1..Len(work') PROVE ArmSuits(blocks', work'[i])
    <2>1. CASE work'[i].k # "arm"
      BY <2>1 DEF ArmSuits
    <2>2. CASE work'[i].k = "arm"
      <3>1. CASE i \in 1..n /\ work'[i] = us[i]
        BY <1>14, <3>1
      <3>2. CASE i - n \in 1..Len(work) /\ work'[i] = work[i - n]
        <4>1. ArmSuits(blocks, work'[i])
          BY <3>2 DEF Suiting, ArmsSuit
        <4> QED BY <1>13, <4>1, ArmKept
      <3> QED BY <1>12, <2>2, <3>1, <3>2
    <2> QED BY <2>1, <2>2
  <1>16. ASSUME NEW i \in 1..Len(work'), NEW j \in 1..Len(work'), i < j,
                SameSwitch(work'[i], work'[j])
         PROVE  work'[i].s = work'[j].s /\ work'[i].to[3] < work'[j].to[3]
    <2>1. /\ work'[i].k = "arm" /\ work'[j].k = "arm"
          /\ work'[i].to[1] = work'[j].to[1] /\ work'[i].to[2] = work'[j].to[2]
      BY <1>16 DEF SameSwitch
    <2>2. ASSUME NEW k \in 1..Len(work'), work'[k].k = "arm",
                 work'[k].to[1] = insert, work'[k].to[2] = at
          PROVE  k \in 1..n /\ work'[k] = us[k]
      <3>1. CASE k - n \in 1..Len(work) /\ work'[k] = work[k - n]
        <4>1. ArmSuits(blocks, work'[k])
          BY <3>1 DEF Suiting, ArmsSuit
        <4>2. at \in DOMAIN blocks[insert].ins
          BY <2>2, <4>1 DEF ArmSuits, SwitchSuits
        <4> QED BY <1>10, <4>2
      <3> QED BY <1>12, <2>2, <3>1
    <2>3. CASE (i \in 1..n /\ work'[i] = us[i]) \/ (j \in 1..n /\ work'[j] = us[j])
      <3>1. work'[i].to[1] = insert /\ work'[i].to[2] = at
        BY <1>6, <2>1, <2>3
      <3>2. i \in 1..n /\ work'[i] = us[i] /\ j \in 1..n /\ work'[j] = us[j]
        BY <2>1, <2>2, <3>1
      <3>3. us[i].s = us[j].s /\ us[i].to[3] = i /\ us[j].to[3] = j
        BY <1>6, <3>2
      <3> QED BY <1>16, <3>2, <3>3
    <2>4. CASE /\ i - n \in 1..Len(work) /\ work'[i] = work[i - n]
               /\ j - n \in 1..Len(work) /\ work'[j] = work[j - n]
      <3>1. i - n < j - n
        BY <1>3, <1>16
      <3> DEFINE p == i - n
                 q == j - n
      <3>2. p \in 1..Len(work) /\ q \in 1..Len(work) /\ p < q
        BY <2>4, <3>1
      <3>3. work'[i] = work[p] /\ work'[j] = work[q]
        BY <2>4
      <3> HIDE DEF p, q
      <3> QED BY <1>16, <3>2, <3>3 DEF Suiting, ArmsSuit
    <2> QED BY <1>12, <2>1, <2>3, <2>4
  <1>17. ArmsSuit(blocks', work')
    BY <1>15, <1>16 DEF ArmsSuit
  <1> QED BY <1>1, <1>9, <1>17 DEF Suiting, Added

(***************************************************************************)
(* Every step, and the end of the generation.                              *)
(***************************************************************************)
LEMMA StepSuits ==
    ASSUME IInv, Suiting, NEW A, NEW V, Settled(A, V), blocks[insert].fn = curFunc,
           [Next]_vars, status' = "generating"
    PROVE  Suiting'
  <1>1. CASE UNCHANGED vars
    <2>1. blocks' = blocks /\ funcs' = funcs /\ work' = work
      BY <1>1 DEF vars
    <2> QED BY <2>1 DEF Suiting
  <1>2. CASE GenForward \/ EndBlock \/ GenBlock
    BY <1>2, QuietSuits
  <1>3. CASE GenStraightLine \/ GenCall
    <2>1. status' # "error"
      OBVIOUS
    <2> QED BY <1>3, <2>1, StraightLineSuits, GenCallSuits
  <1>4. CASE GenIf \/ EndThen \/ EndElse \/ EndArm
    BY <1>4, GenIfSuits, EndThenSuits, FallingSuits
  <1>5. CASE GenWhile \/ EndWhile \/ GenFor \/ EndFor
    BY <1>5, GenWhileSuits, EndWhileSuits, GenForSuits, EndForSuits
  <1>6. CASE GenDo \/ EndDo \/ GenRepeat \/ EndRepeat
    BY <1>6, GenListSuits, EndDoSuits, EndRepeatSuits
  <1>7. CASE GenCase \/ GenArm \/ EndCase
    BY <1>7, GenCaseSuits, GenArmSuits, EndCaseSuits
  <1>8. CASE GenReturn \/ GenGoto \/ GenLabel
    BY <1>8, GenReturnSuits, GenGotoSuits, GenLabelSuits
  <1>9. CASE GenProc \/ EndProc
    BY <1>9, GenProcSuits, EndProcSuits
  <1>10. CASE Finish
    BY <1>10 DEF Finish
  <1> QED BY <1>1, <1>2, <1>3, <1>4, <1>5, <1>6, <1>7, <1>8, <1>9, <1>10 DEF Next

(* The one block of main is empty.                                         *)
LEMMA InitSuits == ASSUME Init PROVE Suiting
  <1> DEFINE block == [fn |-> 1, ins |-> <<>>]
             f == Gen(prog)
             main == <<>>
  <1>1. blocks = <<block>> /\ funcs = <<main>> /\ work = <<f>>
    BY DEF Init
  <1>2. block.fn = 1 /\ DOMAIN block.ins = {} /\ f.k = "gen"
    BY DEF Gen, Frame
  <1> HIDE DEF block, f, main
  <1>3. /\ Len(blocks) = 1 /\ blocks[1] = block /\ Len(funcs) = 1
        /\ Len(work) = 1 /\ work[1] = f /\ 1..1 = {1}
    BY <1>1
  <1>4. BlocksSuit(funcs, blocks)
    BY <1>2, <1>3 DEF BlocksSuit, SuitsAll
  <1>5. ArmsSuit(blocks, work)
    <2>1. ArmSuits(blocks, f) /\ \A i, j \in {1} : ~SameSwitch(work[i], work[j])
      BY <1>2, <1>3 DEF ArmSuits, SameSwitch
    <2> QED BY <1>3, <2>1 DEF ArmsSuit
  <1> QED BY <1>4, <1>5 DEF Suiting

(* When nothing is left to generate, no label is missing, and "return 0"   *)
(* goes to main.                                                           *)
LEMMA FinishSuits ==
    ASSUME IInv, Suiting, NEW A, NEW V, Settled(A, V), blocks[insert].fn = curFunc, Finish
    PROVE  /\ BlocksSuit(funcs, blocks') /\ funcs' = funcs
           /\ pending' = {} /\ relabelled' = {}
  <1> DEFINE nothing == <<>>
             ret == Ret(nothing)
  <1>1. /\ work = <<>> /\ funcs' = funcs /\ pending' = pending /\ relabelled' = relabelled
        /\ blocks' = IF Terminated(blocks, insert) THEN blocks
                     ELSE Emit(blocks, insert, <<ret>>)
    BY DEF Finish, FunctionUnchanged, LabelsUnchanged
  <1>2. Len(work) = 0 /\ Len(work) + 1 = 1 /\ 1..Len(work) = {}
    BY <1>1
  <1>3. funcs[blocks[insert].fn] = <<>>
    BY <1>2 DEF Settled, Sound, Nesting, Stacked
  <1>4. pending = {} /\ relabelled = {}
    BY <1>2 DEF Settled, Sound, LabelsFit, Waiting
  <1>5. ret \in InstructionSet /\ ret.op = "ret" /\ ret.e = <<>>
    <2>1. nothing \in Optional(Expr)
      BY DEF Optional
    <2>2. ret.e = <<>>
      BY DEF Ret, Instruction
    <2> HIDE DEF nothing
    <2> QED BY <2>1, <2>2, Returns, ReturnKinds
  <1> HIDE DEF ret
  <1>6. Suits(funcs[blocks[insert].fn], ret)
    BY <1>3, <1>5 DEF Suits
  <1>7. Added(blocks')
    <2>1. CASE Terminated(blocks, insert)
      BY <1>1, <2>1, BeginSuiting
    <2>2. CASE ~Terminated(blocks, insert)
      <3>1. blocks' = Emit(blocks, insert, <<ret>>)
        BY <1>1, <2>2
      <3> QED BY <1>5, <1>6, <3>1, BeginSuiting, AddedOne
    <2> QED BY <2>1, <2>2
  <1> QED BY <1>1, <1>4, <1>7 DEF Added

(* So verifyModule has nothing to complain about.                          *)
LEMMA FinishVerifies ==
    ASSUME IInv, Suiting, NEW A, NEW V, Settled(A, V), blocks[insert].fn = curFunc, Finish,
           IInv', BranchesStayInFunction'
    PROVE  status' = "verified"
  <1>1. /\ BlocksSuit(funcs, blocks') /\ funcs' = funcs
        /\ pending' = {} /\ relabelled' = {}
    BY FinishSuits
  <1>2. status' = IF VerifyModule(blocks') THEN "verified" ELSE "rejected"
    BY DEF Finish
  <1>3. blocks' \in Seq(BlockSet) /\ DOMAIN blocks' = 1..Len(blocks')
    BY LenProperties DEF IInv, Typed, TypeOK
  <1>4. \A b \in DOMAIN blocks' : \A i \in DOMAIN blocks'[b].ins :
            Suits(funcs[blocks'[b].fn], blocks'[b].ins[i])
    BY <1>1, <1>3 DEF BlocksSuit, SuitsAll
  <1>5. ~RepeatedCase'
    BY <1>4 DEF RepeatedCase, Suits
  <1>6. ~MisplacedReturn'
    <2> SUFFICES ASSUME NEW b \in DOMAIN blocks', blocks'[b].ins # <<>>
                 PROVE  ReturnFits(blocks[b].fn, blocks[b].ins)'
      BY DEF MisplacedReturn
    <2> DEFINE ins == blocks'[b].ins
    <2>1. ins \in Seq(InstructionSet) /\ ins # <<>>
      <3>1. blocks'[b] \in BlockSet
        BY <1>3
      <3> QED BY <3>1 DEF BlockSet
    <2>2. Len(ins) \in DOMAIN ins
      <3> HIDE DEF ins
      <3> QED BY <2>1
    <2>3. Suits(funcs[blocks'[b].fn], ins[Len(ins)])
      BY <1>4, <2>2
    <2> QED BY <1>1, <2>3 DEF Suits, ReturnFits
  <1>7. status' \in {"verified", "rejected"}
    BY <1>2
  <1>8. (IInv /\ status \in {"verified", "rejected"} /\ BranchesStayInFunction
           /\ pending = {} /\ relabelled = {} /\ ~MisplacedReturn /\ ~RepeatedCase)'
        => VerifyModule(blocks)'
    BY OnlyTheseComplaints, PTL
  <1>9. VerifyModule(blocks)' => VerifyModule(blocks')
    BY <1>1 DEF VerifyModule, ReturnFits
  <1> QED BY <1>1, <1>2, <1>5, <1>6, <1>7, <1>8, <1>9

(* What is neither the end nor a CALL goes on.                             *)
LEMMA OthersGoOn ==
    ASSUME Next, ~Finish, ~GenCall
    PROVE  status = "generating" /\ status' = "generating"
  <1>1. CASE GenBlock \/ EndBlock \/ GenStraightLine
    BY <1>1 DEF GenBlock, EndBlock, GenStraightLine, AtNode, AtFrame, OnlyBlocks
  <1>2. CASE GenIf \/ EndThen \/ EndElse
    BY <1>2 DEF GenIf, EndThen, EndElse, AtNode, AtFrame, OnlyBlocks
  <1>3. CASE GenWhile \/ EndWhile \/ GenFor \/ EndFor
    BY <1>3 DEF GenWhile, EndWhile, GenFor, EndFor, AtNode, AtFrame, OnlyBlocks
  <1>4. CASE GenDo \/ EndDo \/ GenRepeat \/ EndRepeat
    BY <1>4 DEF GenDo, EndDo, GenRepeat, EndRepeat, AtNode, AtFrame, OnlyBlocks
  <1>5. CASE GenCase \/ GenArm \/ EndArm \/ EndCase
    BY <1>5 DEF GenCase, GenArm, EndArm, EndCase, AtNode, AtFrame, OnlyBlocks
  <1>6. CASE GenReturn \/ GenGoto \/ GenLabel
    BY <1>6 DEF GenReturn, GenGoto, GenLabel, AtNode, AtFrame, OnlyBlocks
  <1>7. CASE GenProc \/ GenForward \/ EndProc
    BY <1>7 DEF GenProc, GenForward, EndProc, AtNode, AtFrame, OnlyBlocks
  <1> QED BY <1>1, <1>2, <1>3, <1>4, <1>5, <1>6, <1>7 DEF Next

-----------------------------------------------------------------------------
(***************************************************************************)
(* The theorem.                                                            *)
(***************************************************************************)
ProgramsAreLegal == \A p \in Programs : \E A : Legal(A, p)

(* The invariant.                                                          *)
LegalInv == /\ status \in {"generating", "verified"}
            /\ status = "generating" => Suiting /\ \E A : \E V : Settled(A, V)

(* The labels of a legal program are used at one depth each.               *)
LEMMA LegalAtOneDepth ==
    ASSUME ProgramsAreLegal PROVE LabelsAtOneDepth
  <1> SUFFICES ASSUME NEW p \in Programs
               PROVE  \E R \in SUBSET (Node \X Nat), depth \in [Name -> Nat] :
                          <<p, 0>> \in R /\ LabelsApart(R, depth)
    BY DEF LabelsAtOneDepth
  <1>1. PICK A : Legal(A, p)
    BY DEF ProgramsAreLegal
  <1> DEFINE R == {<<x[1], x[2].depth>> : x \in A.at}
             depth == A.depth
  <1>2. Reading(A) /\ <<p, Outermost>> \in A.at
    BY <1>1 DEF Legal
  <1>3. \A x \in A.at : x[1] \in Node /\ x[2] \in Context /\ x = <<x[1], x[2]>>
    BY <1>2 DEF Reading
  <1>4. R \in SUBSET (Node \X Nat) /\ depth \in [Name -> Nat]
    BY <1>2, <1>3 DEF Reading, Context
  <1>5. <<p, 0>> \in R
    <2>1. <<p, Outermost>>[1] = p /\ <<p, Outermost>>[2].depth = 0
      BY DEF Outermost
    <2> QED BY <1>2, <2>1
  <1>6. \A d, c : <<d, c>> \in A.at => <<d, c.depth>> \in R
    OBVIOUS
  <1> HIDE DEF R
  <1>7. ASSUME NEW x \in A.at
        PROVE  /\ \A d \in Children(x[1]) : <<d, Inside(x[1], x[2].depth)>> \in R
               /\ x[1].kind \in {"Goto", "Label"} => depth[x[1].name] = x[2].depth
    <2> DEFINE s == x[1]
               c == x[2]
    <2>1. ChildrenPlaced(A, s, c) /\ LabelsPlaced(A, s, c)
      BY <1>2 DEF Reading
    <2> HIDE DEF s, c
    <2>2. ASSUME NEW d \in Children(s) PROVE <<d, Inside(s, c.depth)>> \in R
      <3>1. CASE s.kind = "Block" \/ HasBody(s)
        <4>1. \A i : ContextIn(s, c, i).depth = Inside(s, c.depth)
          BY DEF ContextIn, Inside
        <4>2. \E i : <<d, ContextIn(s, c, i)>> \in A.at
          <5>1. /\ \A i \in DOMAIN s.decls : <<s.decls[i], ContextIn(s, c, i)>> \in A.at
                /\ \A i \in DOMAIN s.stmts :
                      <<s.stmts[i], ContextIn(s, c, Len(s.decls) + 1)>> \in A.at
            BY <2>1, <3>1 DEF ChildrenPlaced
          <5>2. (\E i \in DOMAIN s.stmts : d = s.stmts[i])
                \/ \E i \in DOMAIN s.decls : d = s.decls[i]
            BY <3>1 DEF Children, HasBody
          <5> QED BY <5>1, <5>2
        <4> QED BY <1>6, <4>1, <4>2
      <3>2. CASE ~(s.kind = "Block" \/ HasBody(s)) /\ s.kind = "Proc"
        <4>1. Children(s) = {}
          BY <2>1, <3>2 DEF ChildrenPlaced, HasBody
        <4> QED BY <4>1
      <3>3. CASE s.kind # "Block" /\ s.kind # "Proc"
        <4>1. <<d, c>> \in A.at
          BY <2>1, <3>3 DEF ChildrenPlaced, HasBody
        <4> QED BY <1>6, <3>3, <4>1 DEF Inside
      <3> QED BY <3>1, <3>2, <3>3
    <2>3. s.kind \in {"Goto", "Label"} => depth[s.name] = c.depth
      BY <2>1 DEF LabelsPlaced
    <2> QED BY <2>2, <2>3 DEF s, c
  <1>8. LabelsApart(R, depth)
    <2> SUFFICES ASSUME NEW y \in R
                 PROVE  /\ \A d \in Children(y[1]) : <<d, Inside(y[1], y[2])>> \in R
                        /\ y[1].kind \in {"Goto", "Label"} => depth[y[1].name] = y[2]
      BY DEF LabelsApart
    <2>1. PICK x \in A.at : y = <<x[1], x[2].depth>>
      BY DEF R
    <2>2. y[1] = x[1] /\ y[2] = x[2].depth
      BY <2>1
    <2> QED BY <1>7, <2>2
  <1> QED BY <1>4, <1>5, <1>8

(* The invariant holds of a legal program before its generation.           *)
LEMMA InitLegal == ASSUME ProgramsAreLegal, Init PROVE LegalInv
  <1>1. prog \in Programs /\ status = "generating"
    BY DEF Init
  <1>2. PICK A : Legal(A, prog)
    BY <1>1 DEF ProgramsAreLegal
  <1>3. \E V : Settled(A, V)
    BY <1>2, InitSettled DEF Resettled, Settled
  <1> QED BY <1>1, <1>3, InitSuits DEF LegalInv

(* Every step preserves it.                                                *)
LEMMA StepLegal ==
    ASSUME IInv, BranchInv, LegalInv, [Next]_vars, IInv', BranchesStayInFunction'
    PROVE  LegalInv'
  <1>1. CASE UNCHANGED vars /\ status # "generating"
    BY <1>1 DEF LegalInv, vars
  <1>2. CASE status = "generating"
    <2>1. PICK A : \E V : Settled(A, V)
      BY <1>2 DEF LegalInv
    <2>2. PICK V : Settled(A, V)
      BY <2>1
    <2>3. Suiting /\ blocks[insert].fn = curFunc
      BY <1>2 DEF LegalInv, BranchInv, BInv, Within, Ours
    <2>4. status' \in {"generating", "verified"}
      <3>1. CASE UNCHANGED vars
        BY <1>2, <3>1 DEF vars
      <3>2. CASE Finish
        BY <2>2, <2>3, <3>2, FinishVerifies
      <3>3. CASE GenCall
        <4>1. status' # "error"
          BY <2>2, <3>3, CallsAreKnown
        <4> QED BY <1>2, <3>3, <4>1 DEF GenCall
      <3>4. CASE Next /\ ~Finish /\ ~GenCall
        BY <3>4, OthersGoOn
      <3> QED BY <3>1, <3>2, <3>3, <3>4
    <2>5. CASE status' = "generating"
      <3>1. Suiting'
        BY <2>2, <2>3, <2>5, StepSuits
      <3>2. Resettled(A)'
        BY <2>2, <2>5, StepSettled
      <3>3. Reading(A)
        BY <2>2 DEF Settled
      <3>4. \E W : Settled(A, W)'
        BY <3>2, <3>3 DEF Resettled, Settled
      <3> QED BY <2>4, <3>1, <3>4 DEF LegalInv
    <2>6. CASE status' # "generating"
      BY <2>4, <2>6 DEF LegalInv
    <2> QED BY <2>5, <2>6
  <1>3. CASE Next /\ status # "generating"
    BY <1>3, OnlyFinishRejects DEF Finish
  <1> QED BY <1>1, <1>2, <1>3

(* generate accepts every legal program: no CodegenError                   *)
(* (pl11_codegen.cpp:483) and no "IR verification failed" (:130-131) for a *)
(* program whose labels are unique and defined in their own procedure,     *)
(* whose case values are distinct, whose RETURNs fit and whose CALLs name  *)
(* a procedure that was declared before.                                   *)
THEOREM BuilderLegalProgramsCompile ==
    ASSUME ProgramsAreLegal
    PROVE  Spec => []LegalProgramsCompile
  <1>1. LabelsAtOneDepth
    BY LegalAtOneDepth
  <1>2. Init => IInv /\ BranchInv /\ LegalInv
    BY <1>1, InitInvariant, InitBranches, InitLegal
  <1>3. IInv /\ BranchInv => BranchesStayInFunction
    BY WithinStays
  <1>4. IInv' /\ BranchInv' => BranchesStayInFunction'
    BY <1>3, PTL
  <1>5. (IInv /\ BranchInv /\ LegalInv) /\ [Next]_vars => (IInv /\ BranchInv /\ LegalInv)'
    BY <1>4, StepInvariant, StepBranches, StepLegal
  <1>6. LegalInv => LegalProgramsCompile
    BY DEF LegalInv, LegalProgramsCompile
  <1> QED BY <1>2, <1>5, <1>6, PTL DEF Spec
=============================================================================
