-------------------------- MODULE AutodetectProofs --------------------------
(***************************************************************************)
(* What detection returns, for an object with any features: the profiles  *)
(* of autodetect.go, the lists that profile.go derives from their names,  *)
(* and the chains of conditions that choose between them.                  *)
(*                                                                         *)
(* A chain of steps has the result of one of its steps, so that what holds *)
(* of every step holds of the chain.  A profile's name is written out as a *)
(* tuple of words, from which its lists are read off.                      *)
(***************************************************************************)
EXTENDS Autodetect, SequenceLemmas, WellFoundedInduction

-----------------------------------------------------------------------------
(* Chains of steps.                                                        *)

\* Places in a sequence have a first.
LEMMA HasFirst ==
    ASSUME NEW I \in SUBSET Nat, I # {}
    PROVE  Min(I) \in I
<1> DEFINE R == {ss \in Nat \X Nat : ss[1] < ss[2]}
<1>1. IsWellFoundedOn(R, Nat)
  BY NatLessThanWellFounded DEF OpToRel
<1>2. PICK x \in I : \A y \in I : <<y, x>> \notin R
  <2> HIDE DEF R
  <2> QED BY <1>1, WFMin
<1>3. ASSUME NEW y \in I PROVE x <= y
  <2>1. x \in Nat /\ y \in Nat /\ <<y, x>> \notin R
    BY <1>2
  <2>2. ~(y < x)
    BY <2>1
  <2> QED BY <2>1, <2>2
<1> QED BY <1>3 DEF Min

\* A chain has the result of one of its steps, or of none when none has any.
LEMMA Chain ==
    ASSUME NEW S, NEW steps \in Seq(S)
    PROVE  \/ FirstOf(steps) = {} /\ \A k \in 1 .. Len(steps) : steps[k] = {}
           \/ \E k \in 1 .. Len(steps) : FirstOf(steps) = steps[k] /\ steps[k] # {}
<1> DEFINE I == {i \in 1 .. Len(steps) : steps[i] # {}}
           hit == IF I # {} THEN Min(I) ELSE 0
<1>1. FirstOf(steps) = IF hit = 0 THEN {} ELSE steps[hit]
  BY DEF FirstOf, SelectInSeq
<1>2. I # {} => Min(I) \in I /\ Min(I) # 0
  <2>1. I \in SUBSET Nat /\ 0 \notin I
    BY LenProperties
  <2> HIDE DEF I
  <2> QED BY <2>1, HasFirst
<1> QED BY <1>1, <1>2

\* What a step may give: nothing, or one of X.
Results(X) == {{}} \cup {{x} : x \in X}

\* What every step is among, the chain is among; it has a result when a step has.
LEMMA ChainAmong ==
    ASSUME NEW X, NEW steps \in Seq(Results(X))
    PROVE  /\ FirstOf(steps) \in Results(X)
           /\ \A k \in 1 .. Len(steps) : steps[k] # {} => FirstOf(steps) # {}
<1>1. \A k \in 1 .. Len(steps) : steps[k] \in Results(X)
  BY ElementOfSeq
<1>2. {} \in Results(X)
  BY DEF Results
<1> QED BY <1>1, <1>2, Chain

\* What is among some is among more.
LEMMA AmongMore ==
    ASSUME NEW X, NEW Y, X \subseteq Y
    PROVE  Results(X) \subseteq Results(Y)
BY DEF Results

-----------------------------------------------------------------------------
(* Names written out.                                                      *)

\* A tuple with one more word at its end.
LEMMA AppendIs ==
    ASSUME NEW S, NEW s \in Seq(S), NEW x \in S, NEW t \in Seq(S),
           Len(t) = Len(s) + 1, \A k \in 1 .. Len(s) : t[k] = s[k], t[Len(s) + 1] = x
    PROVE  Append(s, x) = t
<1>1. Append(s, x) \in Seq(S) /\ Len(Append(s, x)) = Len(s) + 1 /\ Len(s) \in Nat
  BY SequenceFacts
<1>2. \A k \in 1 .. Len(s) + 1 : Append(s, x)[k] = t[k]
  BY SequenceFacts
<1> QED BY <1>1, <1>2, SeqEqual

\* A tuple that continues with another one.
LEMMA ConcatIs ==
    ASSUME NEW S, NEW s \in Seq(S), NEW r \in Seq(S), NEW t \in Seq(S),
           Len(t) = Len(s) + Len(r), \A k \in 1 .. Len(s) : t[k] = s[k],
           \A k \in 1 .. Len(r) : t[Len(s) + k] = r[k]
    PROVE  s \o r = t
<1>1. s \o r \in Seq(S) /\ Len(s \o r) = Len(s) + Len(r) /\ Len(s) \in Nat /\ Len(r) \in Nat
  BY ConcatProperties, LenProperties
<1>2. ASSUME NEW k \in 1 .. Len(s) + Len(r) PROVE (s \o r)[k] = t[k]
  <2>1. CASE k <= Len(s)
    BY <1>1, <2>1, ConcatProperties
  <2>2. CASE k > Len(s)
    <3>1. k - Len(s) \in 1 .. Len(r) /\ Len(s) + (k - Len(s)) = k
      BY <1>1, <2>2
    <3>2. t[Len(s) + (k - Len(s))] = r[k - Len(s)]
      BY <3>1
    <3> QED BY <1>1, <2>2, <3>1, <3>2, ConcatProperties
  <2> QED BY <1>1, <2>1, <2>2
<1> QED BY <1>1, <1>2, SeqEqual

\* A tuple with one more word.
LEMMA AppendTuples ==
    /\ \A a, x : Append(<<a>>, x) = <<a, x>>
    /\ \A a, b, x : Append(<<a, b>>, x) = <<a, b, x>>
    /\ \A a, b, c, x : Append(<<a, b, c>>, x) = <<a, b, c, x>>
    /\ \A a, b, c, d, x : Append(<<a, b, c, d>>, x) = <<a, b, c, d, x>>
    /\ \A a, b, c, d, e, x : Append(<<a, b, c, d, e>>, x) = <<a, b, c, d, e, x>>
    /\ \A a, b, c, d, e, f, x : Append(<<a, b, c, d, e, f>>, x) = <<a, b, c, d, e, f, x>>
    /\ \A a, b, c, d, e, f, g, x : Append(<<a, b, c, d, e, f, g>>, x) = <<a, b, c, d, e, f, g, x>>
<1>1. ASSUME NEW a, NEW x
      PROVE  Append(<<a>>, x) = <<a, x>>
  <2> DEFINE S == {a, x}
             s == <<a>>
             t == <<a, x>>
  <2>1. /\ s \in Seq(S) /\ t \in Seq(S) /\ x \in S /\ Len(t) = Len(s) + 1
        /\ \A k \in 1 .. Len(s) : t[k] = s[k]
        /\ t[Len(s) + 1] = x
    OBVIOUS
  <2>2. Append(s, x) = t
    <3> HIDE DEF S, s, t
    <3> QED BY <2>1, AppendIs
  <2> QED BY <2>2
<1>2. ASSUME NEW a, NEW b, NEW x
      PROVE  Append(<<a, b>>, x) = <<a, b, x>>
  <2> DEFINE S == {a, b, x}
             s == <<a, b>>
             t == <<a, b, x>>
  <2>1. /\ s \in Seq(S) /\ t \in Seq(S) /\ x \in S /\ Len(t) = Len(s) + 1
        /\ \A k \in 1 .. Len(s) : t[k] = s[k]
        /\ t[Len(s) + 1] = x
    OBVIOUS
  <2>2. Append(s, x) = t
    <3> HIDE DEF S, s, t
    <3> QED BY <2>1, AppendIs
  <2> QED BY <2>2
<1>3. ASSUME NEW a, NEW b, NEW c, NEW x
      PROVE  Append(<<a, b, c>>, x) = <<a, b, c, x>>
  <2> DEFINE S == {a, b, c, x}
             s == <<a, b, c>>
             t == <<a, b, c, x>>
  <2>1. /\ s \in Seq(S) /\ t \in Seq(S) /\ x \in S /\ Len(t) = Len(s) + 1
        /\ \A k \in 1 .. Len(s) : t[k] = s[k]
        /\ t[Len(s) + 1] = x
    OBVIOUS
  <2>2. Append(s, x) = t
    <3> HIDE DEF S, s, t
    <3> QED BY <2>1, AppendIs
  <2> QED BY <2>2
<1>4. ASSUME NEW a, NEW b, NEW c, NEW d, NEW x
      PROVE  Append(<<a, b, c, d>>, x) = <<a, b, c, d, x>>
  <2> DEFINE S == {a, b, c, d, x}
             s == <<a, b, c, d>>
             t == <<a, b, c, d, x>>
  <2>1. /\ s \in Seq(S) /\ t \in Seq(S) /\ x \in S /\ Len(t) = Len(s) + 1
        /\ \A k \in 1 .. Len(s) : t[k] = s[k]
        /\ t[Len(s) + 1] = x
    OBVIOUS
  <2>2. Append(s, x) = t
    <3> HIDE DEF S, s, t
    <3> QED BY <2>1, AppendIs
  <2> QED BY <2>2
<1>5. ASSUME NEW a, NEW b, NEW c, NEW d, NEW e, NEW x
      PROVE  Append(<<a, b, c, d, e>>, x) = <<a, b, c, d, e, x>>
  <2> DEFINE S == {a, b, c, d, e, x}
             s == <<a, b, c, d, e>>
             t == <<a, b, c, d, e, x>>
  <2>1. /\ s \in Seq(S) /\ t \in Seq(S) /\ x \in S /\ Len(t) = Len(s) + 1
        /\ \A k \in 1 .. Len(s) : t[k] = s[k]
        /\ t[Len(s) + 1] = x
    OBVIOUS
  <2>2. Append(s, x) = t
    <3> HIDE DEF S, s, t
    <3> QED BY <2>1, AppendIs
  <2> QED BY <2>2
<1>6. ASSUME NEW a, NEW b, NEW c, NEW d, NEW e, NEW f, NEW x
      PROVE  Append(<<a, b, c, d, e, f>>, x) = <<a, b, c, d, e, f, x>>
  <2> DEFINE S == {a, b, c, d, e, f, x}
             s == <<a, b, c, d, e, f>>
             t == <<a, b, c, d, e, f, x>>
  <2>1. /\ s \in Seq(S) /\ t \in Seq(S) /\ x \in S /\ Len(t) = Len(s) + 1
        /\ \A k \in 1 .. Len(s) : t[k] = s[k]
        /\ t[Len(s) + 1] = x
    OBVIOUS
  <2>2. Append(s, x) = t
    <3> HIDE DEF S, s, t
    <3> QED BY <2>1, AppendIs
  <2> QED BY <2>2
<1>7. ASSUME NEW a, NEW b, NEW c, NEW d, NEW e, NEW f, NEW g, NEW x
      PROVE  Append(<<a, b, c, d, e, f, g>>, x) = <<a, b, c, d, e, f, g, x>>
  <2> DEFINE S == {a, b, c, d, e, f, g, x}
             s == <<a, b, c, d, e, f, g>>
             t == <<a, b, c, d, e, f, g, x>>
  <2>1. /\ s \in Seq(S) /\ t \in Seq(S) /\ x \in S /\ Len(t) = Len(s) + 1
        /\ \A k \in 1 .. Len(s) : t[k] = s[k]
        /\ t[Len(s) + 1] = x
    OBVIOUS
  <2>2. Append(s, x) = t
    <3> HIDE DEF S, s, t
    <3> QED BY <2>1, AppendIs
  <2> QED BY <2>2
<1> QED BY <1>1, <1>2, <1>3, <1>4, <1>5, <1>6, <1>7

\* The website profiles of ETSI in full.
LEMMA EtsiWebNames ==
    /\ EtsiWeb(<<>>) = <<"etsi", "leaf", "tlsserver">>
    /\ \A a : EtsiWeb(<<a>>) = <<"etsi", "leaf", "tlsserver", a>>
    /\ \A a, b : EtsiWeb(<<a, b>>) = <<"etsi", "leaf", "tlsserver", a, b>>
    /\ \A a, b, c : EtsiWeb(<<a, b, c>>) = <<"etsi", "leaf", "tlsserver", a, b, c>>
    /\ \A a, b, c, d : EtsiWeb(<<a, b, c, d>>) = <<"etsi", "leaf", "tlsserver", a, b, c, d>>
    /\ \A a, b, c, d, e : EtsiWeb(<<a, b, c, d, e>>) = <<"etsi", "leaf", "tlsserver", a, b, c, d, e>>
<1>1. EtsiWeb(<<>>) = <<"etsi", "leaf", "tlsserver">>
  <2> DEFINE S == {"etsi", "leaf", "tlsserver"}
             s == <<"etsi", "leaf", "tlsserver">>
             r == <<>>
             t == <<"etsi", "leaf", "tlsserver">>
  <2>1. /\ s \in Seq(S) /\ r \in Seq(S) /\ t \in Seq(S)
        /\ Len(t) = Len(s) + Len(r)
        /\ \A k \in 1 .. Len(s) : t[k] = s[k]
        /\ \A k \in 1 .. Len(r) : t[Len(s) + k] = r[k]
    OBVIOUS
  <2>2. s \o r = t
    <3> HIDE DEF S, s, r, t
    <3> QED BY <2>1, ConcatIs
  <2> QED BY <2>2 DEF EtsiWeb
<1>2. ASSUME NEW a
      PROVE  EtsiWeb(<<a>>) = <<"etsi", "leaf", "tlsserver", a>>
  <2> DEFINE S == {"etsi", "leaf", "tlsserver", a}
             s == <<"etsi", "leaf", "tlsserver">>
             r == <<a>>
             t == <<"etsi", "leaf", "tlsserver", a>>
  <2>1. /\ s \in Seq(S) /\ r \in Seq(S) /\ t \in Seq(S)
        /\ Len(t) = Len(s) + Len(r)
        /\ \A k \in 1 .. Len(s) : t[k] = s[k]
        /\ \A k \in 1 .. Len(r) : t[Len(s) + k] = r[k]
    OBVIOUS
  <2>2. s \o r = t
    <3> HIDE DEF S, s, r, t
    <3> QED BY <2>1, ConcatIs
  <2> QED BY <2>2 DEF EtsiWeb
<1>3. ASSUME NEW a, NEW b
      PROVE  EtsiWeb(<<a, b>>) = <<"etsi", "leaf", "tlsserver", a, b>>
  <2> DEFINE S == {"etsi", "leaf", "tlsserver", a, b}
             s == <<"etsi", "leaf", "tlsserver">>
             r == <<a, b>>
             t == <<"etsi", "leaf", "tlsserver", a, b>>
  <2>1. /\ s \in Seq(S) /\ r \in Seq(S) /\ t \in Seq(S)
        /\ Len(t) = Len(s) + Len(r)
        /\ \A k \in 1 .. Len(s) : t[k] = s[k]
        /\ \A k \in 1 .. Len(r) : t[Len(s) + k] = r[k]
    OBVIOUS
  <2>2. s \o r = t
    <3> HIDE DEF S, s, r, t
    <3> QED BY <2>1, ConcatIs
  <2> QED BY <2>2 DEF EtsiWeb
<1>4. ASSUME NEW a, NEW b, NEW c
      PROVE  EtsiWeb(<<a, b, c>>) = <<"etsi", "leaf", "tlsserver", a, b, c>>
  <2> DEFINE S == {"etsi", "leaf", "tlsserver", a, b, c}
             s == <<"etsi", "leaf", "tlsserver">>
             r == <<a, b, c>>
             t == <<"etsi", "leaf", "tlsserver", a, b, c>>
  <2>1. /\ s \in Seq(S) /\ r \in Seq(S) /\ t \in Seq(S)
        /\ Len(t) = Len(s) + Len(r)
        /\ \A k \in 1 .. Len(s) : t[k] = s[k]
        /\ \A k \in 1 .. Len(r) : t[Len(s) + k] = r[k]
    OBVIOUS
  <2>2. s \o r = t
    <3> HIDE DEF S, s, r, t
    <3> QED BY <2>1, ConcatIs
  <2> QED BY <2>2 DEF EtsiWeb
<1>5. ASSUME NEW a, NEW b, NEW c, NEW d
      PROVE  EtsiWeb(<<a, b, c, d>>) = <<"etsi", "leaf", "tlsserver", a, b, c, d>>
  <2> DEFINE S == {"etsi", "leaf", "tlsserver", a, b, c, d}
             s == <<"etsi", "leaf", "tlsserver">>
             r == <<a, b, c, d>>
             t == <<"etsi", "leaf", "tlsserver", a, b, c, d>>
  <2>1. /\ s \in Seq(S) /\ r \in Seq(S) /\ t \in Seq(S)
        /\ Len(t) = Len(s) + Len(r)
        /\ \A k \in 1 .. Len(s) : t[k] = s[k]
        /\ \A k \in 1 .. Len(r) : t[Len(s) + k] = r[k]
    OBVIOUS
  <2>2. s \o r = t
    <3> HIDE DEF S, s, r, t
    <3> QED BY <2>1, ConcatIs
  <2> QED BY <2>2 DEF EtsiWeb
<1>6. ASSUME NEW a, NEW b, NEW c, NEW d, NEW e
      PROVE  EtsiWeb(<<a, b, c, d, e>>) = <<"etsi", "leaf", "tlsserver", a, b, c, d, e>>
  <2> DEFINE S == {"etsi", "leaf", "tlsserver", a, b, c, d, e}
             s == <<"etsi", "leaf", "tlsserver">>
             r == <<a, b, c, d, e>>
             t == <<"etsi", "leaf", "tlsserver", a, b, c, d, e>>
  <2>1. /\ s \in Seq(S) /\ r \in Seq(S) /\ t \in Seq(S)
        /\ Len(t) = Len(s) + Len(r)
        /\ \A k \in 1 .. Len(s) : t[k] = s[k]
        /\ \A k \in 1 .. Len(r) : t[Len(s) + k] = r[k]
    OBVIOUS
  <2>2. s \o r = t
    <3> HIDE DEF S, s, r, t
    <3> QED BY <2>1, ConcatIs
  <2> QED BY <2>2 DEF EtsiWeb
<1> QED BY <1>1, <1>2, <1>3, <1>4, <1>5, <1>6

\* The other names that the modules put together.
LEMMA OtherNames ==
    /\ \A a : <<"tbr", "cross", a>> \o <<>> = <<"tbr", "cross", a>>
    /\ \A a, b : <<"tbr", "cross", a>> \o <<b>> = <<"tbr", "cross", a, b>>
    /\ \A a, b, c : <<"sbr", "leaf">> \o <<a, b, c>> = <<"sbr", "leaf", a, b, c>>
    /\ \A a : <<"csbr", "leaf", "codesigning">> \o <<a>> = <<"csbr", "leaf", "codesigning", a>>
<1>1. ASSUME NEW a
      PROVE  <<"tbr", "cross", a>> \o <<>> = <<"tbr", "cross", a>>
  <2> DEFINE S == {"tbr", "cross", a}
             s == <<"tbr", "cross", a>>
             r == <<>>
             t == <<"tbr", "cross", a>>
  <2>1. /\ s \in Seq(S) /\ r \in Seq(S) /\ t \in Seq(S)
        /\ Len(t) = Len(s) + Len(r)
        /\ \A k \in 1 .. Len(s) : t[k] = s[k]
        /\ \A k \in 1 .. Len(r) : t[Len(s) + k] = r[k]
    OBVIOUS
  <2>2. s \o r = t
    <3> HIDE DEF S, s, r, t
    <3> QED BY <2>1, ConcatIs
  <2> QED BY <2>2
<1>2. ASSUME NEW a, NEW b
      PROVE  <<"tbr", "cross", a>> \o <<b>> = <<"tbr", "cross", a, b>>
  <2> DEFINE S == {"tbr", "cross", a, b}
             s == <<"tbr", "cross", a>>
             r == <<b>>
             t == <<"tbr", "cross", a, b>>
  <2>1. /\ s \in Seq(S) /\ r \in Seq(S) /\ t \in Seq(S)
        /\ Len(t) = Len(s) + Len(r)
        /\ \A k \in 1 .. Len(s) : t[k] = s[k]
        /\ \A k \in 1 .. Len(r) : t[Len(s) + k] = r[k]
    OBVIOUS
  <2>2. s \o r = t
    <3> HIDE DEF S, s, r, t
    <3> QED BY <2>1, ConcatIs
  <2> QED BY <2>2
<1>3. ASSUME NEW a, NEW b, NEW c
      PROVE  <<"sbr", "leaf">> \o <<a, b, c>> = <<"sbr", "leaf", a, b, c>>
  <2> DEFINE S == {"sbr", "leaf", a, b, c}
             s == <<"sbr", "leaf">>
             r == <<a, b, c>>
             t == <<"sbr", "leaf", a, b, c>>
  <2>1. /\ s \in Seq(S) /\ r \in Seq(S) /\ t \in Seq(S)
        /\ Len(t) = Len(s) + Len(r)
        /\ \A k \in 1 .. Len(s) : t[k] = s[k]
        /\ \A k \in 1 .. Len(r) : t[Len(s) + k] = r[k]
    OBVIOUS
  <2>2. s \o r = t
    <3> HIDE DEF S, s, r, t
    <3> QED BY <2>1, ConcatIs
  <2> QED BY <2>2
<1>4. ASSUME NEW a
      PROVE  <<"csbr", "leaf", "codesigning">> \o <<a>> = <<"csbr", "leaf", "codesigning", a>>
  <2> DEFINE S == {"csbr", "leaf", "codesigning", a}
             s == <<"csbr", "leaf", "codesigning">>
             r == <<a>>
             t == <<"csbr", "leaf", "codesigning", a>>
  <2>1. /\ s \in Seq(S) /\ r \in Seq(S) /\ t \in Seq(S)
        /\ Len(t) = Len(s) + Len(r)
        /\ \A k \in 1 .. Len(s) : t[k] = s[k]
        /\ \A k \in 1 .. Len(r) : t[Len(s) + k] = r[k]
    OBVIOUS
  <2>2. s \o r = t
    <3> HIDE DEF S, s, r, t
    <3> QED BY <2>1, ConcatIs
  <2> QED BY <2>2
<1> QED BY <1>1, <1>2, <1>3, <1>4

-----------------------------------------------------------------------------
(* The families of profiles with their names in full.                      *)

Laws   == {"eidas", "noneidas"}
People == {"naturalperson", "legalperson"}

EtsiSiteNames ==
    {<<"etsi", "leaf", "tlsserver", v>> : v \in {"dvcp", "ivcp", "ovcp", "evcp"}}
    \cup {<<"etsi", "leaf", "tlsserver", "qevcpw", law>> : law \in Laws}
    \cup {<<"etsi", "leaf", "tlsserver", "qncpw", v, law>> : v \in {"iv", "ov"}, law \in Laws}
    \cup {<<"etsi", "leaf", "tlsserver", "qevcpw", "psd2", "eidas">>,
          <<"etsi", "leaf", "tlsserver", "qevcpw", "psd2", "eidas", "nonbrowser">>}

EtsiSitePrecertNames ==
    {<<"etsi", "leaf", "tlsserver", v, "precertificate">> : v \in {"dvcp", "ivcp", "ovcp", "evcp"}}
    \cup {<<"etsi", "leaf", "tlsserver", "qevcpw", law, "precertificate">> : law \in Laws}
    \cup {<<"etsi", "leaf", "tlsserver", "qncpw", v, law, "precertificate">> :
            v \in {"iv", "ov"}, law \in Laws}
    \cup {<<"etsi", "leaf", "tlsserver", "qevcpw", "psd2", "eidas", "precertificate">>,
          <<"etsi", "leaf", "tlsserver", "qevcpw", "psd2", "eidas", "nonbrowser", "precertificate">>}

EtsiPersonNames ==
    {<<"etsi", "leaf", "tlsserver", "ncpw", who>> : who \in People}
    \cup {<<"etsi", "leaf", "tlsserver", "qncpw", "gen", who, law>> : who \in People, law \in Laws}

EtsiPersonPrecertNames ==
    {<<"etsi", "leaf", "tlsserver", "ncpw", who, "precertificate">> : who \in People}
    \cup {<<"etsi", "leaf", "tlsserver", "qncpw", "gen", who, law, "precertificate">> :
            who \in People, law \in Laws}

EtsiNcpNames == {<<"etsi", "leaf", "ncp", who>> : who \in People}

TlsLeafNames ==
    {<<"tbr", "leaf", "tlsserver", v>> : v \in {"dv", "ov", "iv"}}
    \cup {<<"tevg", "leaf", "tlsserver", "ev">>}

TlsLeafPrecertNames ==
    {<<"tbr", "leaf", "tlsserver", v, "precertificate">> : v \in {"dv", "ov", "iv"}}
    \cup {<<"tevg", "leaf", "tlsserver", "ev", "precertificate">>}

MarkNames == {<<"bimigroup", "leaf", mark>> : mark \in {"commonmark", "verifiedmark"}}

MarkPrecertNames ==
    {<<"bimigroup", "leaf", mark, "precertificate">> : mark \in {"commonmark", "verifiedmark"}}

PlainNames   == EtsiSiteNames \cup EtsiPersonNames \cup TlsLeafNames \cup MarkNames
PrecertNames == EtsiSitePrecertNames \cup EtsiPersonPrecertNames \cup TlsLeafPrecertNames
                    \cup MarkPrecertNames

\* What Precertificate makes of a name.
LEMMA PrecertificateOf ==
    /\ \A a, b, c : Precertificate(<<a, b, c>>) = <<a, b, c, "precertificate">>
    /\ \A a, b, c, d : Precertificate(<<a, b, c, d>>) = <<a, b, c, d, "precertificate">>
    /\ \A a, b, c, d, e : Precertificate(<<a, b, c, d, e>>) = <<a, b, c, d, e, "precertificate">>
    /\ \A a, b, c, d, e, f : Precertificate(<<a, b, c, d, e, f>>) = <<a, b, c, d, e, f, "precertificate">>
    /\ \A a, b, c, d, e, f, g : Precertificate(<<a, b, c, d, e, f, g>>) = <<a, b, c, d, e, f, g, "precertificate">>
<1>1. ASSUME NEW a, NEW b, NEW c
      PROVE  Precertificate(<<a, b, c>>) = <<a, b, c, "precertificate">>
  BY AppendTuples DEF Precertificate
<1>2. ASSUME NEW a, NEW b, NEW c, NEW d
      PROVE  Precertificate(<<a, b, c, d>>) = <<a, b, c, d, "precertificate">>
  BY AppendTuples DEF Precertificate
<1>3. ASSUME NEW a, NEW b, NEW c, NEW d, NEW e
      PROVE  Precertificate(<<a, b, c, d, e>>) = <<a, b, c, d, e, "precertificate">>
  BY AppendTuples DEF Precertificate
<1>4. ASSUME NEW a, NEW b, NEW c, NEW d, NEW e, NEW f
      PROVE  Precertificate(<<a, b, c, d, e, f>>) = <<a, b, c, d, e, f, "precertificate">>
  BY AppendTuples DEF Precertificate
<1>5. ASSUME NEW a, NEW b, NEW c, NEW d, NEW e, NEW f, NEW g
      PROVE  Precertificate(<<a, b, c, d, e, f, g>>) = <<a, b, c, d, e, f, g, "precertificate">>
  BY AppendTuples DEF Precertificate
<1> QED BY <1>1, <1>2, <1>3, <1>4, <1>5

\* The profiles for precertificates are those of the plain names.
LEMMA PrecertNamesInFull ==
    /\ {Precertificate(p) : p \in EtsiSiteNames} = EtsiSitePrecertNames
    /\ {Precertificate(p) : p \in EtsiPersonNames} = EtsiPersonPrecertNames
    /\ {Precertificate(p) : p \in TlsLeafNames} = TlsLeafPrecertNames
    /\ {Precertificate(p) : p \in MarkNames} = MarkPrecertNames
<1>1. {Precertificate(p) : p \in MarkNames} = MarkPrecertNames
  <2>1. \A p \in MarkNames : Precertificate(p) \in MarkPrecertNames
    BY PrecertificateOf DEF MarkNames, MarkPrecertNames
  <2>2. \A q \in MarkPrecertNames : \E p \in MarkNames : q = Precertificate(p)
    BY PrecertificateOf DEF MarkNames, MarkPrecertNames
  <2> QED BY <2>1, <2>2
<1>2. {Precertificate(p) : p \in TlsLeafNames} = TlsLeafPrecertNames
  <2>1. \A p \in TlsLeafNames : Precertificate(p) \in TlsLeafPrecertNames
    BY PrecertificateOf DEF TlsLeafNames, TlsLeafPrecertNames
  <2>2. \A q \in TlsLeafPrecertNames : \E p \in TlsLeafNames : q = Precertificate(p)
    BY PrecertificateOf DEF TlsLeafNames, TlsLeafPrecertNames
  <2> QED BY <2>1, <2>2
<1>3. {Precertificate(p) : p \in EtsiPersonNames} = EtsiPersonPrecertNames
  <2>1. \A p \in EtsiPersonNames : Precertificate(p) \in EtsiPersonPrecertNames
    BY PrecertificateOf DEF EtsiPersonNames, EtsiPersonPrecertNames
  <2> DEFINE made == {Precertificate(p) : p \in EtsiPersonNames}
  <2>2. EtsiPersonPrecertNames \subseteq made
    <3>1. ASSUME NEW who \in People
          PROVE  <<"etsi", "leaf", "tlsserver", "ncpw", who, "precertificate">> \in made
      <4>1. <<"etsi", "leaf", "tlsserver", "ncpw", who>> \in EtsiPersonNames /\ Precertificate(<<"etsi", "leaf", "tlsserver", "ncpw", who>>) = <<"etsi", "leaf", "tlsserver", "ncpw", who, "precertificate">>
        BY PrecertificateOf DEF EtsiPersonNames
      <4> QED BY <4>1, Zenon
    <3>2. ASSUME NEW who \in People, NEW law \in Laws
          PROVE  <<"etsi", "leaf", "tlsserver", "qncpw", "gen", who, law, "precertificate">> \in made
      <4>1. <<"etsi", "leaf", "tlsserver", "qncpw", "gen", who, law>> \in EtsiPersonNames /\ Precertificate(<<"etsi", "leaf", "tlsserver", "qncpw", "gen", who, law>>) = <<"etsi", "leaf", "tlsserver", "qncpw", "gen", who, law, "precertificate">>
        BY PrecertificateOf DEF EtsiPersonNames
      <4> QED BY <4>1, Zenon
    <3> HIDE DEF made
    <3> QED BY <3>1, <3>2 DEF EtsiPersonPrecertNames
  <2> QED BY <2>1, <2>2
<1>4. {Precertificate(p) : p \in EtsiSiteNames} = EtsiSitePrecertNames
  <2>1. \A p \in EtsiSiteNames : Precertificate(p) \in EtsiSitePrecertNames
    BY PrecertificateOf DEF EtsiSiteNames, EtsiSitePrecertNames
  <2> DEFINE made == {Precertificate(p) : p \in EtsiSiteNames}
  <2>2. EtsiSitePrecertNames \subseteq made
    <3>1. ASSUME NEW v \in {"dvcp", "ivcp", "ovcp", "evcp"}
          PROVE  <<"etsi", "leaf", "tlsserver", v, "precertificate">> \in made
      <4>1. <<"etsi", "leaf", "tlsserver", v>> \in EtsiSiteNames /\ Precertificate(<<"etsi", "leaf", "tlsserver", v>>) = <<"etsi", "leaf", "tlsserver", v, "precertificate">>
        BY PrecertificateOf DEF EtsiSiteNames
      <4> QED BY <4>1, Zenon
    <3>2. ASSUME NEW law \in Laws
          PROVE  <<"etsi", "leaf", "tlsserver", "qevcpw", law, "precertificate">> \in made
      <4>1. <<"etsi", "leaf", "tlsserver", "qevcpw", law>> \in EtsiSiteNames /\ Precertificate(<<"etsi", "leaf", "tlsserver", "qevcpw", law>>) = <<"etsi", "leaf", "tlsserver", "qevcpw", law, "precertificate">>
        BY PrecertificateOf DEF EtsiSiteNames
      <4> QED BY <4>1, Zenon
    <3>3. ASSUME NEW v \in {"iv", "ov"}, NEW law \in Laws
          PROVE  <<"etsi", "leaf", "tlsserver", "qncpw", v, law, "precertificate">> \in made
      <4>1. <<"etsi", "leaf", "tlsserver", "qncpw", v, law>> \in EtsiSiteNames /\ Precertificate(<<"etsi", "leaf", "tlsserver", "qncpw", v, law>>) = <<"etsi", "leaf", "tlsserver", "qncpw", v, law, "precertificate">>
        BY PrecertificateOf DEF EtsiSiteNames
      <4> QED BY <4>1, Zenon
    <3>4. <<"etsi", "leaf", "tlsserver", "qevcpw", "psd2", "eidas", "precertificate">> \in made
      <4>1. <<"etsi", "leaf", "tlsserver", "qevcpw", "psd2", "eidas">> \in EtsiSiteNames /\ Precertificate(<<"etsi", "leaf", "tlsserver", "qevcpw", "psd2", "eidas">>) = <<"etsi", "leaf", "tlsserver", "qevcpw", "psd2", "eidas", "precertificate">>
        BY PrecertificateOf DEF EtsiSiteNames
      <4> QED BY <4>1, Zenon
    <3>5. <<"etsi", "leaf", "tlsserver", "qevcpw", "psd2", "eidas", "nonbrowser", "precertificate">> \in made
      <4>1. <<"etsi", "leaf", "tlsserver", "qevcpw", "psd2", "eidas", "nonbrowser">> \in EtsiSiteNames /\ Precertificate(<<"etsi", "leaf", "tlsserver", "qevcpw", "psd2", "eidas", "nonbrowser">>) = <<"etsi", "leaf", "tlsserver", "qevcpw", "psd2", "eidas", "nonbrowser", "precertificate">>
        BY PrecertificateOf DEF EtsiSiteNames
      <4> QED BY <4>1, Zenon
    <3> HIDE DEF made
    <3> QED BY <3>1, <3>2, <3>3, <3>4, <3>5 DEF EtsiSitePrecertNames
  <2> QED BY <2>1, <2>2
<1> QED BY <1>1, <1>2, <1>3, <1>4

\* The profiles of ETSI in full.
LEMMA EtsiNamesInFull ==
    EtsiProfiles = EtsiSiteNames \cup EtsiSitePrecertNames \cup EtsiPersonNames
                       \cup EtsiPersonPrecertNames \cup EtsiNcpNames
<1> DEFINE Qualified == {<<"qevcpw">>, <<"qncpw", "iv">>, <<"qncpw", "ov">>,
                         <<"qncpw", "gen", "naturalperson">>, <<"qncpw", "gen", "legalperson">>}
           Others == {<<"ncpw", "naturalperson">>, <<"ncpw", "legalperson">>,
                      <<"dvcp">>, <<"ivcp">>, <<"ovcp">>, <<"evcp">>,
                      <<"qevcpw", "psd2", "eidas">>, <<"qevcpw", "psd2", "eidas", "nonbrowser">>}
           plain == {EtsiWeb(words) : words \in Others}
           legal == {EtsiWeb(Append(words, law)) : words \in Qualified, law \in Laws}
           made == plain \cup legal
           names == EtsiSiteNames \cup EtsiPersonNames
<1>1. names \subseteq made
  <2>11. ASSUME NEW w \in Qualified, NEW l \in Laws PROVE EtsiWeb(Append(w, l)) \in legal
    <3> HIDE DEF Qualified
    <3> QED OBVIOUS
  <2>1. <<"etsi", "leaf", "tlsserver", "dvcp">> \in plain
    <3>1. <<"dvcp">> \in Others /\ EtsiWeb(<<"dvcp">>) = <<"etsi", "leaf", "tlsserver", "dvcp">>
      BY EtsiWebNames DEF People
    <3> HIDE DEF Others, Qualified
    <3> QED BY <3>1, Zenon
  <2>2. <<"etsi", "leaf", "tlsserver", "ivcp">> \in plain
    <3>1. <<"ivcp">> \in Others /\ EtsiWeb(<<"ivcp">>) = <<"etsi", "leaf", "tlsserver", "ivcp">>
      BY EtsiWebNames DEF People
    <3> HIDE DEF Others, Qualified
    <3> QED BY <3>1, Zenon
  <2>3. <<"etsi", "leaf", "tlsserver", "ovcp">> \in plain
    <3>1. <<"ovcp">> \in Others /\ EtsiWeb(<<"ovcp">>) = <<"etsi", "leaf", "tlsserver", "ovcp">>
      BY EtsiWebNames DEF People
    <3> HIDE DEF Others, Qualified
    <3> QED BY <3>1, Zenon
  <2>4. <<"etsi", "leaf", "tlsserver", "evcp">> \in plain
    <3>1. <<"evcp">> \in Others /\ EtsiWeb(<<"evcp">>) = <<"etsi", "leaf", "tlsserver", "evcp">>
      BY EtsiWebNames DEF People
    <3> HIDE DEF Others, Qualified
    <3> QED BY <3>1, Zenon
  <2>5. ASSUME NEW who \in People
        PROVE  <<"etsi", "leaf", "tlsserver", "ncpw", who>> \in plain
    <3>1. <<"ncpw", who>> \in Others /\ EtsiWeb(<<"ncpw", who>>) = <<"etsi", "leaf", "tlsserver", "ncpw", who>>
      BY EtsiWebNames DEF People
    <3> HIDE DEF Others, Qualified
    <3> QED BY <3>1, Zenon
  <2>6. <<"etsi", "leaf", "tlsserver", "qevcpw", "psd2", "eidas">> \in plain
    <3>1. <<"qevcpw", "psd2", "eidas">> \in Others /\ EtsiWeb(<<"qevcpw", "psd2", "eidas">>) = <<"etsi", "leaf", "tlsserver", "qevcpw", "psd2", "eidas">>
      BY EtsiWebNames DEF People
    <3> HIDE DEF Others, Qualified
    <3> QED BY <3>1, Zenon
  <2>7. <<"etsi", "leaf", "tlsserver", "qevcpw", "psd2", "eidas", "nonbrowser">> \in plain
    <3>1. <<"qevcpw", "psd2", "eidas", "nonbrowser">> \in Others /\ EtsiWeb(<<"qevcpw", "psd2", "eidas", "nonbrowser">>) = <<"etsi", "leaf", "tlsserver", "qevcpw", "psd2", "eidas", "nonbrowser">>
      BY EtsiWebNames DEF People
    <3> HIDE DEF Others, Qualified
    <3> QED BY <3>1, Zenon
  <2>8. ASSUME NEW law \in Laws
        PROVE  <<"etsi", "leaf", "tlsserver", "qevcpw", law>> \in legal
    <3>1. <<"qevcpw">> \in Qualified /\ Append(<<"qevcpw">>, law) = <<"qevcpw", law>>
      BY AppendTuples DEF People
    <3>2. EtsiWeb(<<"qevcpw", law>>) = <<"etsi", "leaf", "tlsserver", "qevcpw", law>>
      BY EtsiWebNames
    <3> HIDE DEF Qualified, legal
    <3> QED BY <3>1, <3>2, <2>11
  <2>9. ASSUME NEW v \in {"iv", "ov"}, NEW law \in Laws
        PROVE  <<"etsi", "leaf", "tlsserver", "qncpw", v, law>> \in legal
    <3>1. <<"qncpw", v>> \in Qualified /\ Append(<<"qncpw", v>>, law) = <<"qncpw", v, law>>
      BY AppendTuples DEF People
    <3>2. EtsiWeb(<<"qncpw", v, law>>) = <<"etsi", "leaf", "tlsserver", "qncpw", v, law>>
      BY EtsiWebNames
    <3> HIDE DEF Qualified, legal
    <3> QED BY <3>1, <3>2, <2>11
  <2>10. ASSUME NEW who \in People, NEW law \in Laws
        PROVE  <<"etsi", "leaf", "tlsserver", "qncpw", "gen", who, law>> \in legal
    <3>1. <<"qncpw", "gen", who>> \in Qualified /\ Append(<<"qncpw", "gen", who>>, law) = <<"qncpw", "gen", who, law>>
      BY AppendTuples DEF People
    <3>2. EtsiWeb(<<"qncpw", "gen", who, law>>) = <<"etsi", "leaf", "tlsserver", "qncpw", "gen", who, law>>
      BY EtsiWebNames
    <3> HIDE DEF Qualified, legal
    <3> QED BY <3>1, <3>2, <2>11
  <2> HIDE DEF plain, legal
  <2> QED BY <2>1, <2>2, <2>3, <2>4, <2>5, <2>6, <2>7, <2>8, <2>9, <2>10 DEF EtsiSiteNames, EtsiPersonNames
<1>2. ASSUME NEW words \in Others PROVE EtsiWeb(words) \in names
  BY EtsiWebNames DEF EtsiSiteNames, EtsiPersonNames, People
<1>3. ASSUME NEW words \in Qualified, NEW law \in Laws
      PROVE  EtsiWeb(Append(words, law)) \in names
  <2>1. /\ Append(<<"qevcpw">>, law) = <<"qevcpw", law>>
        /\ \A v : Append(<<"qncpw", v>>, law) = <<"qncpw", v, law>>
        /\ \A v : Append(<<"qncpw", "gen", v>>, law) = <<"qncpw", "gen", v, law>>
    BY AppendTuples
  <2>2. /\ EtsiWeb(<<"qevcpw", law>>) \in names
        /\ \A v \in {"iv", "ov"} : EtsiWeb(<<"qncpw", v, law>>) \in names
        /\ \A who \in People : EtsiWeb(<<"qncpw", "gen", who, law>>) \in names
    BY EtsiWebNames DEF EtsiSiteNames, EtsiPersonNames
  <2> HIDE DEF names
  <2> QED BY <2>1, <2>2 DEF People
<1>4. made = names
  <2> HIDE DEF Qualified, Others, names
  <2> QED BY <1>1, <1>2, <1>3
<1>5. EtsiProfiles = WithPrecertificates(made) \cup EtsiNcpNames
  <2>1. EtsiNcpNames = {<<"etsi", "leaf", "ncp", "naturalperson">>, <<"etsi", "leaf", "ncp", "legalperson">>}
    BY DEF EtsiNcpNames, People
  <2> QED BY <2>1 DEF EtsiProfiles, Laws
<1>6. WithPrecertificates(names) = names \cup EtsiSitePrecertNames \cup EtsiPersonPrecertNames
  <2>1. WithPrecertificates(names) = names \cup {Precertificate(p) : p \in EtsiSiteNames}
                                         \cup {Precertificate(p) : p \in EtsiPersonNames}
    BY Zenon DEF WithPrecertificates
  <2> QED BY <2>1, PrecertNamesInFull
<1> HIDE DEF made
<1> QED BY <1>4, <1>5, <1>6

CrlNames == {<<family, list>> : family \in {"rfc5280", "tbr"}, list \in {"crl", "arl"}}

OtherRootNames ==
    {<<"rfc5280", "root">>, <<"sbr", "root", "smime">>, <<"csbr", "root", "codesigning">>,
     <<"csbr", "root", "timestamping">>, <<"bimigroup", "root", "bimi">>}

OtherSubordinateNames ==
    {<<"rfc5280", "subordinate">>, <<"sbr", "subordinate", "smime">>,
     <<"csbr", "subordinate", "codesigning">>, <<"csbr", "subordinate", "timestamping">>,
     <<"bimigroup", "subordinate", "bimi">>}

TlsRootNames == {<<"tbr", "root", "tlsserver">>, <<"tevg", "root", "tlsserver">>}

TlsSubordinateNames ==
    {<<"tbr", "subordinate", "tlsserver">>, <<"tbr", "subordinate", "precertsigning">>,
     <<"tevg", "subordinate", "tlsserver">>}

\* These a client may name, and detection does not choose.
TlsSideNames ==
    {<<"tbr", "cross", side>> : side \in {"internal", "external"}}
    \cup {<<"tbr", "cross", side, "subscriberissuing">> : side \in {"internal", "external"}}
    \cup {<<"tbr", "subordinate", "tlsserver", side, names>> :
            side \in {"internal", "external"}, names \in {"unconstrained", "constrained"}}
    \cup {<<"tevg", "subordinate", "tlsserver", "external", names>> :
            names \in {"unconstrained", "constrained"}}

SmimeLeafNames ==
    {<<"sbr", "leaf", "smime", v, generation>> :
        v \in {"mv", "ov", "sv", "iv"}, generation \in {"legacy", "multipurpose", "strict"}}

OtherLeafNames ==
    {<<"rfc5280", "leaf">>, <<"csbr", "leaf", "timestamping">>}
    \cup {<<"csbr", "leaf", "codesigning", v>> : v \in {"ov", "ev"}}
    \cup {<<"rfc5280", "leaf", use>> : use \in
            {"tlsclient", "tlsserver", "smime", "codesigning", "timestamping",
             "documentsigning", "ocspsigning"}}

OCSPRESPONSE == <<"rfc6960", "ocspresponse">>
OCSPSIGNING  == <<"tbr", "leaf", "ocspsigning">>

\* The TLS profiles in full.
LEMMA TlsNamesInFull ==
    TbrProfiles \cup TevgProfiles =
        {<<"tbr", "crl">>, <<"tbr", "arl">>, OCSPSIGNING} \cup TlsRootNames \cup TlsSubordinateNames
            \cup TlsSideNames \cup TlsLeafNames \cup TlsLeafPrecertNames
<1>0. {<<"tbr", "cross", side>> \o rest :
          side \in {"internal", "external"}, rest \in {<<>>, <<"subscriberissuing">>}} =
      {<<"tbr", "cross", side>> : side \in {"internal", "external"}}
          \cup {<<"tbr", "cross", side, "subscriberissuing">> : side \in {"internal", "external"}}
  BY OtherNames
<1> DEFINE tbr == {<<"tbr", "leaf", "tlsserver", v>> : v \in {"dv", "ov", "iv"}}
           tevg == {<<"tevg", "leaf", "tlsserver", "ev">>}
<1>1. TlsLeafNames = tbr \cup tevg
  BY DEF TlsLeafNames
<1>2. WithPrecertificates(tbr) \cup WithPrecertificates(tevg) = TlsLeafNames \cup TlsLeafPrecertNames
  <2>1. WithPrecertificates(tbr) \cup WithPrecertificates(tevg) =
            TlsLeafNames \cup {Precertificate(p) : p \in TlsLeafNames}
    <3> HIDE DEF tbr, tevg
    <3> QED BY <1>1, Zenon DEF WithPrecertificates
  <2> QED BY <2>1, PrecertNamesInFull
<1> DEFINE cross == {<<"tbr", "cross", side>> \o rest :
                        side \in {"internal", "external"}, rest \in {<<>>, <<"subscriberissuing">>}}
           sides == {<<"tbr", "subordinate", "tlsserver", side, names>> :
                        side \in {"internal", "external"}, names \in {"unconstrained", "constrained"}}
           external == {<<"tevg", "subordinate", "tlsserver", "external", names>> :
                           names \in {"unconstrained", "constrained"}}
<1>3. TbrProfiles = {<<"tbr", "crl">>, <<"tbr", "arl">>, <<"tbr", "root", "tlsserver">>,
                     <<"tbr", "subordinate", "tlsserver">>, <<"tbr", "subordinate", "precertsigning">>,
                     OCSPSIGNING} \cup cross \cup sides \cup WithPrecertificates(tbr)
  BY DEF TbrProfiles, OCSPSIGNING
<1>4. TevgProfiles = {<<"tevg", "root", "tlsserver">>, <<"tevg", "subordinate", "tlsserver">>}
                         \cup external \cup WithPrecertificates(tevg)
  BY DEF TevgProfiles
<1>5. TlsSideNames = cross \cup sides \cup external
  <2>1. cross = {<<"tbr", "cross", side>> : side \in {"internal", "external"}}
                    \cup {<<"tbr", "cross", side, "subscriberissuing">> :
                             side \in {"internal", "external"}}
    BY <1>0
  <2> HIDE DEF cross
  <2> QED BY <2>1 DEF TlsSideNames
<1> HIDE DEF tbr, tevg, cross, sides, external
<1> QED BY <1>2, <1>3, <1>4, <1>5 DEF TlsRootNames, TlsSubordinateNames

\* Every profile is in one of the families, and all of them are profiles.
LEMMA NamesInFull ==
    AllProfiles =
        {AUTODETECT, OCSPRESPONSE, OCSPSIGNING} \cup CrlNames
        \cup OtherRootNames \cup OtherSubordinateNames \cup OtherLeafNames
        \cup TlsRootNames \cup TlsSubordinateNames \cup TlsSideNames
        \cup SmimeLeafNames \cup EtsiNcpNames \cup PlainNames \cup PrecertNames
<1>1. BimiProfiles = {<<"bimigroup", "root", "bimi">>, <<"bimigroup", "subordinate", "bimi">>}
                         \cup MarkNames \cup MarkPrecertNames
  BY PrecertNamesInFull, Zenon DEF BimiProfiles, WithPrecertificates, MarkNames
<1>2. Rfc5280Profiles \cup SbrProfiles \cup CsbrProfiles
          \cup {<<"tbr", "crl">>, <<"tbr", "arl">>}
          \cup {<<"bimigroup", "root", "bimi">>, <<"bimigroup", "subordinate", "bimi">>} =
      CrlNames \cup OtherRootNames \cup OtherSubordinateNames \cup OtherLeafNames \cup SmimeLeafNames
  BY DEF Rfc5280Profiles, SbrProfiles, CsbrProfiles, CrlNames, OtherRootNames,
         OtherSubordinateNames, OtherLeafNames, SmimeLeafNames
<1> QED
  BY <1>1, <1>2, TlsNamesInFull, EtsiNamesInFull
  DEF AllProfiles, OCSPRESPONSE, PlainNames, PrecertNames

-----------------------------------------------------------------------------
(* The lists that a profile is in.                                         *)

\* The lists of profile.go that p is in are those named.
OnlyIn(p, lists) ==
    /\ p \in CrlProfileIDs <=> "crl" \in lists
    /\ p \in OcspProfileIDs <=> "ocsp" \in lists
    /\ p \in RootProfileIDs <=> "root" \in lists
    /\ p \in SubordinateProfileIDs <=> "subordinate" \in lists
    /\ p \in SbrLeafProfileIDs <=> "smime" \in lists
    /\ p \in TbrTevgLeafProfileIDs <=> "site" \in lists
    /\ EtsiWebForSite(p) <=> ("site" \in lists /\ "etsi" \in lists)
    /\ p \in TbrTevgCertificateProfileIDs <=> "tls" \in lists
    /\ p \in EtsiCertificateProfileIDs <=> "etsi" \in lists
    /\ p \in PrecertificateProfileIDs <=> "precertificate" \in lists

\* How the lists that a name is in are read off its words.
Spelt(p, lists) ==
    LET first == p[1]  second == p[2]
    IN  /\ Len(p) >= 2
        /\ Last(p) \in {"crl", "arl"} <=> "crl" \in lists
        /\ Last(p) = "ocspresponse" <=> "ocsp" \in lists
        /\ Contains(p, "root") <=> "root" \in lists
        /\ (Contains(p, "subordinate") \/ Contains(p, "cross")) <=> "subordinate" \in lists
        /\ (first = "sbr" /\ second = "leaf") <=> "smime" \in lists
        /\ (\/ first \in {"tbr", "tevg"} /\ second = "leaf"
            \/ /\ first = "etsi" /\ second = "leaf" /\ Len(p) >= 3 /\ p[3] = "tlsserver"
               /\ ~ForPerson(p)) <=> "site" \in lists
        /\ (first \in {"tbr", "tevg"} /\ Last(p) \notin {"crl", "arl", "ocspresponse"})
               <=> "tls" \in lists
        /\ first = "etsi" <=> "etsi" \in lists
        /\ Last(p) = "precertificate" <=> "precertificate" \in lists

\* The prefixes that the code looks for.
LEMMA WordPrefixes ==
    ASSUME NEW S, NEW p \in Seq(S), Len(p) >= 2
    PROVE  /\ \A a : StartsWith(p, <<a>>) <=> p[1] = a
           /\ \A a, b : StartsWith(p, <<a, b>>) <=> (p[1] = a /\ p[2] = b)
           /\ \A a, b, c : StartsWith(p, <<a, b, c>>) <=>
                              (p[1] = a /\ p[2] = b /\ Len(p) >= 3 /\ p[3] = c)
<1>1. ASSUME NEW a PROVE StartsWith(p, <<a>>) <=> p[1] = a
  BY DEF StartsWith, IsPrefix
<1>2. ASSUME NEW a, NEW b PROVE StartsWith(p, <<a, b>>) <=> (p[1] = a /\ p[2] = b)
  BY DEF StartsWith, IsPrefix
<1>3. ASSUME NEW a, NEW b, NEW c
      PROVE  StartsWith(p, <<a, b, c>>) <=>
                 (p[1] = a /\ p[2] = b /\ Len(p) >= 3 /\ p[3] = c)
  <2>1. ASSUME Len(p) >= 3
        PROVE  SubSeq(p, 1, 3) = <<p[1], p[2], p[3]>>
    <3> DEFINE s == SubSeq(p, 1, 3)
               t == <<p[1], p[2], p[3]>>
    <3>1. Len(p) \in Nat /\ p[1] \in S /\ p[2] \in S /\ p[3] \in S
      BY <2>1, SequenceFacts
    <3>2. /\ s \in Seq(S) /\ Len(s) = 3
          /\ s[1] = p[1] /\ s[2] = p[2] /\ s[3] = p[3]
      BY <2>1, <3>1, SubSeqProperties
    <3>3. /\ t \in Seq(S) /\ Len(t) = 3
          /\ t[1] = p[1] /\ t[2] = p[2] /\ t[3] = p[3]
      BY <3>1
    <3>4. \A k \in 1 .. 3 : s[k] = t[k]
      <4> HIDE DEF s, t
      <4> QED BY <3>2, <3>3
    <3> HIDE DEF s, t
    <3>5. s = t
      BY <3>2, <3>3, <3>4, SeqEqual
    <3> QED BY <3>5 DEF s, t
  <2>2. SubSeq(<<a, b, c>>, 1, 3) = <<a, b, c>> /\ Len(<<a, b, c>>) = 3
    <3> DEFINE T == {a, b, c}
               t == <<a, b, c>>
               s == SubSeq(t, 1, 3)
    <3>1. t \in Seq(T) /\ Len(t) = 3
      OBVIOUS
    <3> HIDE DEF t, T
    <3>2. s = [k \in 1 .. 3 |-> t[k]]
      BY <3>1
    <3>3. t = [k \in 1 .. 3 |-> t[k]]
      BY <3>1
    <3>4. SubSeq(t, 1, 3) = t
      BY <3>2, <3>3
    <3> QED BY <3>1, <3>4, Zenon DEF t
  <2>3. StartsWith(p, <<a, b, c>>) <=> (3 <= Len(p) /\ <<a, b, c>> = SubSeq(p, 1, 3))
    BY <2>2 DEF StartsWith, IsPrefix
  <2>4. Len(p) \in Nat
    BY LenProperties
  <2> QED BY <2>1, <2>3, <2>4
<1> QED BY <1>1, <1>2, <1>3

\* The lists of a profile are those that its name spells.
LEMMA ListsAsSpelt ==
    ASSUME NEW S, NEW p \in Seq(S), p \in AllProfiles, NEW lists, Spelt(p, lists)
    PROVE  OnlyIn(p, lists)
<1> USE DEF Spelt
<1>1. /\ p \in CrlProfileIDs <=> Last(p) \in {"crl", "arl"}
      /\ p \in OcspProfileIDs <=> Last(p) = "ocspresponse"
      /\ p \in PrecertificateProfileIDs <=> Last(p) = "precertificate"
  BY DEF CrlProfileIDs, OcspProfileIDs, PrecertificateProfileIDs, EndsWith
<1>2. /\ p \in RootProfileIDs <=> "root" \in lists
      /\ p \in SubordinateProfileIDs <=> "subordinate" \in lists
  BY DEF RootProfileIDs, SubordinateProfileIDs
<1>3. Len(p) >= 2
  OBVIOUS
<1>4. /\ \A a : StartsWith(p, <<a>>) <=> p[1] = a
      /\ \A a, b : StartsWith(p, <<a, b>>) <=> (p[1] = a /\ p[2] = b)
      /\ \A a, b, c : StartsWith(p, <<a, b, c>>) <=>
                         (p[1] = a /\ p[2] = b /\ Len(p) >= 3 /\ p[3] = c)
  BY <1>3, WordPrefixes
<1>5. EtsiWebForSite(p) <=>
          (/\ p[1] = "etsi" /\ p[2] = "leaf" /\ Len(p) >= 3 /\ p[3] = "tlsserver"
           /\ ~ForPerson(p))
  BY <1>4, EtsiWebNames DEF EtsiWebForSite
<1>6. /\ p \in SbrLeafProfileIDs <=> "smime" \in lists
      /\ p \in TbrTevgLeafProfileIDs <=> "site" \in lists
      /\ p \in EtsiCertificateProfileIDs <=> "etsi" \in lists
  BY <1>4, <1>5 DEF SbrLeafProfileIDs, TbrTevgLeafProfileIDs, EtsiCertificateProfileIDs
<1>7. p \in NonCabforumProfileIDs <=> p[1] \notin {"tbr", "tevg", "sbr", "csbr"}
  BY <1>4 DEF NonCabforumProfileIDs
<1>8. p \in TbrTevgCertificateProfileIDs <=> "tls" \in lists
  BY <1>1, <1>4, <1>5, <1>7 DEF TbrTevgCertificateProfileIDs, TbrOrTevg
<1>9. EtsiWebForSite(p) <=> ("site" \in lists /\ "etsi" \in lists)
  BY <1>5
<1> QED BY <1>1, <1>2, <1>6, <1>8, <1>9 DEF OnlyIn

\* The lists of every profile but autodetect, read off its name.
LEMMA ListsOfNames ==
    /\ OnlyIn(OCSPRESPONSE, {"ocsp"}) /\ OnlyIn(OCSPSIGNING, {"site", "tls"})
    /\ \A p \in CrlNames : OnlyIn(p, {"crl"})
    /\ \A p \in OtherRootNames : OnlyIn(p, {"root"})
    /\ \A p \in OtherSubordinateNames : OnlyIn(p, {"subordinate"})
    /\ \A p \in OtherLeafNames : OnlyIn(p, {})
    /\ \A p \in TlsRootNames : OnlyIn(p, {"root", "tls"})
    /\ \A p \in TlsSubordinateNames : OnlyIn(p, {"subordinate", "tls"})
    /\ \A p \in TlsSideNames : OnlyIn(p, {"subordinate", "tls"})
    /\ \A p \in SmimeLeafNames : OnlyIn(p, {"smime"})
    /\ \A p \in TlsLeafNames : OnlyIn(p, {"site", "tls"})
    /\ \A p \in TlsLeafPrecertNames : OnlyIn(p, {"site", "tls", "precertificate"})
    /\ \A p \in EtsiNcpNames : OnlyIn(p, {"etsi"})
    /\ \A p \in EtsiSiteNames : OnlyIn(p, {"site", "etsi"})
    /\ \A p \in EtsiSitePrecertNames : OnlyIn(p, {"site", "etsi", "precertificate"})
    /\ \A p \in EtsiPersonNames : OnlyIn(p, {"etsi"})
    /\ \A p \in EtsiPersonPrecertNames : OnlyIn(p, {"etsi", "precertificate"})
    /\ \A p \in MarkNames : OnlyIn(p, {})
    /\ \A p \in MarkPrecertNames : OnlyIn(p, {"precertificate"})
<1>1. OnlyIn(OCSPRESPONSE, {"ocsp"})
  <2> DEFINE words == {"rfc6960", "ocspresponse"}
  <2>1. OCSPRESPONSE \in AllProfiles /\ OCSPRESPONSE \in Seq(words)
    BY NamesInFull DEF OCSPRESPONSE
  <2>2. Spelt(OCSPRESPONSE, {"ocsp"})
    BY DEF OCSPRESPONSE, Spelt, Last, Contains, ForPerson
  <2> HIDE DEF words
  <2> QED BY <2>1, <2>2, ListsAsSpelt
<1>2. OnlyIn(OCSPSIGNING, {"site", "tls"})
  <2> DEFINE words == {"tbr", "leaf", "ocspsigning"}
  <2>1. OCSPSIGNING \in AllProfiles /\ OCSPSIGNING \in Seq(words)
    BY NamesInFull DEF OCSPSIGNING
  <2>2. Spelt(OCSPSIGNING, {"site", "tls"})
    BY DEF OCSPSIGNING, Spelt, Last, Contains, ForPerson
  <2> HIDE DEF words
  <2> QED BY <2>1, <2>2, ListsAsSpelt
<1>3. \A p \in CrlNames : OnlyIn(p, {"crl"})
  <2> DEFINE lists == {"crl"}
  <2>1. CrlNames \subseteq AllProfiles
    BY NamesInFull DEF PlainNames, PrecertNames
  <2>2. ASSUME NEW family \in {"rfc5280", "tbr"}, NEW list \in {"crl", "arl"}
        PROVE  OnlyIn(<<family, list>>, lists)
    <3> DEFINE p == <<family, list>>
               words == {family, list}
    <3>1. p \in CrlNames /\ p \in Seq(words)
      BY DEF CrlNames
    <3>2. Spelt(p, lists)
      BY DEF Spelt, Last, Contains, ForPerson, People, Laws
    <3> HIDE DEF p, words, lists
    <3>3. OnlyIn(p, lists)
      BY <2>1, <3>1, <3>2, ListsAsSpelt
    <3> QED BY <3>3 DEF p
  <2> HIDE DEF lists
  <2>3. \A p \in CrlNames : OnlyIn(p, lists)
    BY <2>2 DEF CrlNames
  <2> QED BY <2>3 DEF lists
<1>4. \A p \in OtherRootNames : OnlyIn(p, {"root"})
  <2> DEFINE lists == {"root"}
  <2>1. OtherRootNames \subseteq AllProfiles
    BY NamesInFull DEF PlainNames, PrecertNames
  <2>2. OnlyIn(<<"rfc5280", "root">>, lists)
    <3> DEFINE p == <<"rfc5280", "root">>
               words == {"rfc5280", "root"}
    <3>1. p \in OtherRootNames /\ p \in Seq(words)
      BY DEF OtherRootNames
    <3>2. Spelt(p, lists)
      BY DEF Spelt, Last, Contains, ForPerson, People, Laws
    <3> HIDE DEF p, words, lists
    <3>3. OnlyIn(p, lists)
      BY <2>1, <3>1, <3>2, ListsAsSpelt
    <3> QED BY <3>3 DEF p
  <2>3. OnlyIn(<<"sbr", "root", "smime">>, lists)
    <3> DEFINE p == <<"sbr", "root", "smime">>
               words == {"sbr", "root", "smime"}
    <3>1. p \in OtherRootNames /\ p \in Seq(words)
      BY DEF OtherRootNames
    <3>2. Spelt(p, lists)
      BY DEF Spelt, Last, Contains, ForPerson, People, Laws
    <3> HIDE DEF p, words, lists
    <3>3. OnlyIn(p, lists)
      BY <2>1, <3>1, <3>2, ListsAsSpelt
    <3> QED BY <3>3 DEF p
  <2>4. OnlyIn(<<"csbr", "root", "codesigning">>, lists)
    <3> DEFINE p == <<"csbr", "root", "codesigning">>
               words == {"csbr", "root", "codesigning"}
    <3>1. p \in OtherRootNames /\ p \in Seq(words)
      BY DEF OtherRootNames
    <3>2. Spelt(p, lists)
      BY DEF Spelt, Last, Contains, ForPerson, People, Laws
    <3> HIDE DEF p, words, lists
    <3>3. OnlyIn(p, lists)
      BY <2>1, <3>1, <3>2, ListsAsSpelt
    <3> QED BY <3>3 DEF p
  <2>5. OnlyIn(<<"csbr", "root", "timestamping">>, lists)
    <3> DEFINE p == <<"csbr", "root", "timestamping">>
               words == {"csbr", "root", "timestamping"}
    <3>1. p \in OtherRootNames /\ p \in Seq(words)
      BY DEF OtherRootNames
    <3>2. Spelt(p, lists)
      BY DEF Spelt, Last, Contains, ForPerson, People, Laws
    <3> HIDE DEF p, words, lists
    <3>3. OnlyIn(p, lists)
      BY <2>1, <3>1, <3>2, ListsAsSpelt
    <3> QED BY <3>3 DEF p
  <2>6. OnlyIn(<<"bimigroup", "root", "bimi">>, lists)
    <3> DEFINE p == <<"bimigroup", "root", "bimi">>
               words == {"bimigroup", "root", "bimi"}
    <3>1. p \in OtherRootNames /\ p \in Seq(words)
      BY DEF OtherRootNames
    <3>2. Spelt(p, lists)
      BY DEF Spelt, Last, Contains, ForPerson, People, Laws
    <3> HIDE DEF p, words, lists
    <3>3. OnlyIn(p, lists)
      BY <2>1, <3>1, <3>2, ListsAsSpelt
    <3> QED BY <3>3 DEF p
  <2> HIDE DEF lists
  <2>7. \A p \in OtherRootNames : OnlyIn(p, lists)
    BY <2>2, <2>3, <2>4, <2>5, <2>6 DEF OtherRootNames
  <2> QED BY <2>7 DEF lists
<1>5. \A p \in OtherSubordinateNames : OnlyIn(p, {"subordinate"})
  <2> DEFINE lists == {"subordinate"}
  <2>1. OtherSubordinateNames \subseteq AllProfiles
    BY NamesInFull DEF PlainNames, PrecertNames
  <2>2. OnlyIn(<<"rfc5280", "subordinate">>, lists)
    <3> DEFINE p == <<"rfc5280", "subordinate">>
               words == {"rfc5280", "subordinate"}
    <3>1. p \in OtherSubordinateNames /\ p \in Seq(words)
      BY DEF OtherSubordinateNames
    <3>2. Spelt(p, lists)
      BY DEF Spelt, Last, Contains, ForPerson, People, Laws
    <3> HIDE DEF p, words, lists
    <3>3. OnlyIn(p, lists)
      BY <2>1, <3>1, <3>2, ListsAsSpelt
    <3> QED BY <3>3 DEF p
  <2>3. OnlyIn(<<"sbr", "subordinate", "smime">>, lists)
    <3> DEFINE p == <<"sbr", "subordinate", "smime">>
               words == {"sbr", "subordinate", "smime"}
    <3>1. p \in OtherSubordinateNames /\ p \in Seq(words)
      BY DEF OtherSubordinateNames
    <3>2. Spelt(p, lists)
      BY DEF Spelt, Last, Contains, ForPerson, People, Laws
    <3> HIDE DEF p, words, lists
    <3>3. OnlyIn(p, lists)
      BY <2>1, <3>1, <3>2, ListsAsSpelt
    <3> QED BY <3>3 DEF p
  <2>4. OnlyIn(<<"csbr", "subordinate", "codesigning">>, lists)
    <3> DEFINE p == <<"csbr", "subordinate", "codesigning">>
               words == {"csbr", "subordinate", "codesigning"}
    <3>1. p \in OtherSubordinateNames /\ p \in Seq(words)
      BY DEF OtherSubordinateNames
    <3>2. Spelt(p, lists)
      BY DEF Spelt, Last, Contains, ForPerson, People, Laws
    <3> HIDE DEF p, words, lists
    <3>3. OnlyIn(p, lists)
      BY <2>1, <3>1, <3>2, ListsAsSpelt
    <3> QED BY <3>3 DEF p
  <2>5. OnlyIn(<<"csbr", "subordinate", "timestamping">>, lists)
    <3> DEFINE p == <<"csbr", "subordinate", "timestamping">>
               words == {"csbr", "subordinate", "timestamping"}
    <3>1. p \in OtherSubordinateNames /\ p \in Seq(words)
      BY DEF OtherSubordinateNames
    <3>2. Spelt(p, lists)
      BY DEF Spelt, Last, Contains, ForPerson, People, Laws
    <3> HIDE DEF p, words, lists
    <3>3. OnlyIn(p, lists)
      BY <2>1, <3>1, <3>2, ListsAsSpelt
    <3> QED BY <3>3 DEF p
  <2>6. OnlyIn(<<"bimigroup", "subordinate", "bimi">>, lists)
    <3> DEFINE p == <<"bimigroup", "subordinate", "bimi">>
               words == {"bimigroup", "subordinate", "bimi"}
    <3>1. p \in OtherSubordinateNames /\ p \in Seq(words)
      BY DEF OtherSubordinateNames
    <3>2. Spelt(p, lists)
      BY DEF Spelt, Last, Contains, ForPerson, People, Laws
    <3> HIDE DEF p, words, lists
    <3>3. OnlyIn(p, lists)
      BY <2>1, <3>1, <3>2, ListsAsSpelt
    <3> QED BY <3>3 DEF p
  <2> HIDE DEF lists
  <2>7. \A p \in OtherSubordinateNames : OnlyIn(p, lists)
    BY <2>2, <2>3, <2>4, <2>5, <2>6 DEF OtherSubordinateNames
  <2> QED BY <2>7 DEF lists
<1>6. \A p \in OtherLeafNames : OnlyIn(p, {})
  <2> DEFINE lists == {}
  <2>1. OtherLeafNames \subseteq AllProfiles
    BY NamesInFull DEF PlainNames, PrecertNames
  <2>2. OnlyIn(<<"rfc5280", "leaf">>, lists)
    <3> DEFINE p == <<"rfc5280", "leaf">>
               words == {"rfc5280", "leaf"}
    <3>1. p \in OtherLeafNames /\ p \in Seq(words)
      BY DEF OtherLeafNames
    <3>2. Spelt(p, lists)
      BY DEF Spelt, Last, Contains, ForPerson, People, Laws
    <3> HIDE DEF p, words, lists
    <3>3. OnlyIn(p, lists)
      BY <2>1, <3>1, <3>2, ListsAsSpelt
    <3> QED BY <3>3 DEF p
  <2>3. OnlyIn(<<"csbr", "leaf", "timestamping">>, lists)
    <3> DEFINE p == <<"csbr", "leaf", "timestamping">>
               words == {"csbr", "leaf", "timestamping"}
    <3>1. p \in OtherLeafNames /\ p \in Seq(words)
      BY DEF OtherLeafNames
    <3>2. Spelt(p, lists)
      BY DEF Spelt, Last, Contains, ForPerson, People, Laws
    <3> HIDE DEF p, words, lists
    <3>3. OnlyIn(p, lists)
      BY <2>1, <3>1, <3>2, ListsAsSpelt
    <3> QED BY <3>3 DEF p
  <2>4. ASSUME NEW v \in {"ov", "ev"}
        PROVE  OnlyIn(<<"csbr", "leaf", "codesigning", v>>, lists)
    <3> DEFINE p == <<"csbr", "leaf", "codesigning", v>>
               words == {"csbr", "leaf", "codesigning", v}
    <3>1. p \in OtherLeafNames /\ p \in Seq(words)
      BY DEF OtherLeafNames
    <3>2. Spelt(p, lists)
      BY DEF Spelt, Last, Contains, ForPerson, People, Laws
    <3> HIDE DEF p, words, lists
    <3>3. OnlyIn(p, lists)
      BY <2>1, <3>1, <3>2, ListsAsSpelt
    <3> QED BY <3>3 DEF p
  <2>5. ASSUME NEW use \in {"tlsclient", "tlsserver", "smime", "codesigning", "timestamping",
                   "documentsigning", "ocspsigning"}
        PROVE  OnlyIn(<<"rfc5280", "leaf", use>>, lists)
    <3> DEFINE p == <<"rfc5280", "leaf", use>>
               words == {"rfc5280", "leaf", use}
    <3>1. p \in OtherLeafNames /\ p \in Seq(words)
      BY DEF OtherLeafNames
    <3>2. Spelt(p, lists)
      BY DEF Spelt, Last, Contains, ForPerson, People, Laws
    <3> HIDE DEF p, words, lists
    <3>3. OnlyIn(p, lists)
      BY <2>1, <3>1, <3>2, ListsAsSpelt
    <3> QED BY <3>3 DEF p
  <2> HIDE DEF lists
  <2>6. \A p \in OtherLeafNames : OnlyIn(p, lists)
    BY <2>2, <2>3, <2>4, <2>5 DEF OtherLeafNames
  <2> QED BY <2>6 DEF lists
<1>7. \A p \in TlsRootNames : OnlyIn(p, {"root", "tls"})
  <2> DEFINE lists == {"root", "tls"}
  <2>1. TlsRootNames \subseteq AllProfiles
    BY NamesInFull DEF PlainNames, PrecertNames
  <2>2. OnlyIn(<<"tbr", "root", "tlsserver">>, lists)
    <3> DEFINE p == <<"tbr", "root", "tlsserver">>
               words == {"tbr", "root", "tlsserver"}
    <3>1. p \in TlsRootNames /\ p \in Seq(words)
      BY DEF TlsRootNames
    <3>2. Spelt(p, lists)
      BY DEF Spelt, Last, Contains, ForPerson, People, Laws
    <3> HIDE DEF p, words, lists
    <3>3. OnlyIn(p, lists)
      BY <2>1, <3>1, <3>2, ListsAsSpelt
    <3> QED BY <3>3 DEF p
  <2>3. OnlyIn(<<"tevg", "root", "tlsserver">>, lists)
    <3> DEFINE p == <<"tevg", "root", "tlsserver">>
               words == {"tevg", "root", "tlsserver"}
    <3>1. p \in TlsRootNames /\ p \in Seq(words)
      BY DEF TlsRootNames
    <3>2. Spelt(p, lists)
      BY DEF Spelt, Last, Contains, ForPerson, People, Laws
    <3> HIDE DEF p, words, lists
    <3>3. OnlyIn(p, lists)
      BY <2>1, <3>1, <3>2, ListsAsSpelt
    <3> QED BY <3>3 DEF p
  <2> HIDE DEF lists
  <2>4. \A p \in TlsRootNames : OnlyIn(p, lists)
    BY <2>2, <2>3 DEF TlsRootNames
  <2> QED BY <2>4 DEF lists
<1>8. \A p \in TlsSubordinateNames : OnlyIn(p, {"subordinate", "tls"})
  <2> DEFINE lists == {"subordinate", "tls"}
  <2>1. TlsSubordinateNames \subseteq AllProfiles
    BY NamesInFull DEF PlainNames, PrecertNames
  <2>2. OnlyIn(<<"tbr", "subordinate", "tlsserver">>, lists)
    <3> DEFINE p == <<"tbr", "subordinate", "tlsserver">>
               words == {"tbr", "subordinate", "tlsserver"}
    <3>1. p \in TlsSubordinateNames /\ p \in Seq(words)
      BY DEF TlsSubordinateNames
    <3>2. Spelt(p, lists)
      BY DEF Spelt, Last, Contains, ForPerson, People, Laws
    <3> HIDE DEF p, words, lists
    <3>3. OnlyIn(p, lists)
      BY <2>1, <3>1, <3>2, ListsAsSpelt
    <3> QED BY <3>3 DEF p
  <2>3. OnlyIn(<<"tbr", "subordinate", "precertsigning">>, lists)
    <3> DEFINE p == <<"tbr", "subordinate", "precertsigning">>
               words == {"tbr", "subordinate", "precertsigning"}
    <3>1. p \in TlsSubordinateNames /\ p \in Seq(words)
      BY DEF TlsSubordinateNames
    <3>2. Spelt(p, lists)
      BY DEF Spelt, Last, Contains, ForPerson, People, Laws
    <3> HIDE DEF p, words, lists
    <3>3. OnlyIn(p, lists)
      BY <2>1, <3>1, <3>2, ListsAsSpelt
    <3> QED BY <3>3 DEF p
  <2>4. OnlyIn(<<"tevg", "subordinate", "tlsserver">>, lists)
    <3> DEFINE p == <<"tevg", "subordinate", "tlsserver">>
               words == {"tevg", "subordinate", "tlsserver"}
    <3>1. p \in TlsSubordinateNames /\ p \in Seq(words)
      BY DEF TlsSubordinateNames
    <3>2. Spelt(p, lists)
      BY DEF Spelt, Last, Contains, ForPerson, People, Laws
    <3> HIDE DEF p, words, lists
    <3>3. OnlyIn(p, lists)
      BY <2>1, <3>1, <3>2, ListsAsSpelt
    <3> QED BY <3>3 DEF p
  <2> HIDE DEF lists
  <2>5. \A p \in TlsSubordinateNames : OnlyIn(p, lists)
    BY <2>2, <2>3, <2>4 DEF TlsSubordinateNames
  <2> QED BY <2>5 DEF lists
<1>9. \A p \in TlsSideNames : OnlyIn(p, {"subordinate", "tls"})
  <2> DEFINE lists == {"subordinate", "tls"}
  <2>1. TlsSideNames \subseteq AllProfiles
    BY NamesInFull DEF PlainNames, PrecertNames
  <2>2. ASSUME NEW side \in {"internal", "external"}
        PROVE  OnlyIn(<<"tbr", "cross", side>>, lists)
    <3> DEFINE p == <<"tbr", "cross", side>>
               words == {"tbr", "cross", side}
    <3>1. p \in TlsSideNames /\ p \in Seq(words)
      BY DEF TlsSideNames
    <3>2. Spelt(p, lists)
      BY DEF Spelt, Last, Contains, ForPerson, People, Laws
    <3> HIDE DEF p, words, lists
    <3>3. OnlyIn(p, lists)
      BY <2>1, <3>1, <3>2, ListsAsSpelt
    <3> QED BY <3>3 DEF p
  <2>3. ASSUME NEW side \in {"internal", "external"}
        PROVE  OnlyIn(<<"tbr", "cross", side, "subscriberissuing">>, lists)
    <3> DEFINE p == <<"tbr", "cross", side, "subscriberissuing">>
               words == {"tbr", "cross", side, "subscriberissuing"}
    <3>1. p \in TlsSideNames /\ p \in Seq(words)
      BY DEF TlsSideNames
    <3>2. Spelt(p, lists)
      BY DEF Spelt, Last, Contains, ForPerson, People, Laws
    <3> HIDE DEF p, words, lists
    <3>3. OnlyIn(p, lists)
      BY <2>1, <3>1, <3>2, ListsAsSpelt
    <3> QED BY <3>3 DEF p
  <2>4. ASSUME NEW side \in {"internal", "external"}, NEW names \in {"unconstrained", "constrained"}
        PROVE  OnlyIn(<<"tbr", "subordinate", "tlsserver", side, names>>, lists)
    <3> DEFINE p == <<"tbr", "subordinate", "tlsserver", side, names>>
               words == {"tbr", "subordinate", "tlsserver", side, names}
    <3>1. p \in TlsSideNames /\ p \in Seq(words)
      BY DEF TlsSideNames
    <3>2. Spelt(p, lists)
      BY DEF Spelt, Last, Contains, ForPerson, People, Laws
    <3> HIDE DEF p, words, lists
    <3>3. OnlyIn(p, lists)
      BY <2>1, <3>1, <3>2, ListsAsSpelt
    <3> QED BY <3>3 DEF p
  <2>5. ASSUME NEW names \in {"unconstrained", "constrained"}
        PROVE  OnlyIn(<<"tevg", "subordinate", "tlsserver", "external", names>>, lists)
    <3> DEFINE p == <<"tevg", "subordinate", "tlsserver", "external", names>>
               words == {"tevg", "subordinate", "tlsserver", "external", names}
    <3>1. p \in TlsSideNames /\ p \in Seq(words)
      BY DEF TlsSideNames
    <3>2. Spelt(p, lists)
      BY DEF Spelt, Last, Contains, ForPerson, People, Laws
    <3> HIDE DEF p, words, lists
    <3>3. OnlyIn(p, lists)
      BY <2>1, <3>1, <3>2, ListsAsSpelt
    <3> QED BY <3>3 DEF p
  <2> HIDE DEF lists
  <2>6. \A p \in TlsSideNames : OnlyIn(p, lists)
    BY <2>2, <2>3, <2>4, <2>5 DEF TlsSideNames
  <2> QED BY <2>6 DEF lists
<1>10. \A p \in SmimeLeafNames : OnlyIn(p, {"smime"})
  <2> DEFINE lists == {"smime"}
  <2>1. SmimeLeafNames \subseteq AllProfiles
    BY NamesInFull DEF PlainNames, PrecertNames
  <2>2. ASSUME NEW v \in {"mv", "ov", "sv", "iv"}, NEW generation \in {"legacy", "multipurpose", "strict"}
        PROVE  OnlyIn(<<"sbr", "leaf", "smime", v, generation>>, lists)
    <3> DEFINE p == <<"sbr", "leaf", "smime", v, generation>>
               words == {"sbr", "leaf", "smime", v, generation}
    <3>1. p \in SmimeLeafNames /\ p \in Seq(words)
      BY DEF SmimeLeafNames
    <3>2. Spelt(p, lists)
      BY DEF Spelt, Last, Contains, ForPerson, People, Laws
    <3> HIDE DEF p, words, lists
    <3>3. OnlyIn(p, lists)
      BY <2>1, <3>1, <3>2, ListsAsSpelt
    <3> QED BY <3>3 DEF p
  <2> HIDE DEF lists
  <2>3. \A p \in SmimeLeafNames : OnlyIn(p, lists)
    BY <2>2 DEF SmimeLeafNames
  <2> QED BY <2>3 DEF lists
<1>11. \A p \in TlsLeafNames : OnlyIn(p, {"site", "tls"})
  <2> DEFINE lists == {"site", "tls"}
  <2>1. TlsLeafNames \subseteq AllProfiles
    BY NamesInFull DEF PlainNames, PrecertNames
  <2>2. ASSUME NEW v \in {"dv", "ov", "iv"}
        PROVE  OnlyIn(<<"tbr", "leaf", "tlsserver", v>>, lists)
    <3> DEFINE p == <<"tbr", "leaf", "tlsserver", v>>
               words == {"tbr", "leaf", "tlsserver", v}
    <3>1. p \in TlsLeafNames /\ p \in Seq(words)
      BY DEF TlsLeafNames
    <3>2. Spelt(p, lists)
      BY DEF Spelt, Last, Contains, ForPerson, People, Laws
    <3> HIDE DEF p, words, lists
    <3>3. OnlyIn(p, lists)
      BY <2>1, <3>1, <3>2, ListsAsSpelt
    <3> QED BY <3>3 DEF p
  <2>3. OnlyIn(<<"tevg", "leaf", "tlsserver", "ev">>, lists)
    <3> DEFINE p == <<"tevg", "leaf", "tlsserver", "ev">>
               words == {"tevg", "leaf", "tlsserver", "ev"}
    <3>1. p \in TlsLeafNames /\ p \in Seq(words)
      BY DEF TlsLeafNames
    <3>2. Spelt(p, lists)
      BY DEF Spelt, Last, Contains, ForPerson, People, Laws
    <3> HIDE DEF p, words, lists
    <3>3. OnlyIn(p, lists)
      BY <2>1, <3>1, <3>2, ListsAsSpelt
    <3> QED BY <3>3 DEF p
  <2> HIDE DEF lists
  <2>4. \A p \in TlsLeafNames : OnlyIn(p, lists)
    BY <2>2, <2>3 DEF TlsLeafNames
  <2> QED BY <2>4 DEF lists
<1>12. \A p \in TlsLeafPrecertNames : OnlyIn(p, {"site", "tls", "precertificate"})
  <2> DEFINE lists == {"site", "tls", "precertificate"}
  <2>1. TlsLeafPrecertNames \subseteq AllProfiles
    BY NamesInFull DEF PlainNames, PrecertNames
  <2>2. ASSUME NEW v \in {"dv", "ov", "iv"}
        PROVE  OnlyIn(<<"tbr", "leaf", "tlsserver", v, "precertificate">>, lists)
    <3> DEFINE p == <<"tbr", "leaf", "tlsserver", v, "precertificate">>
               words == {"tbr", "leaf", "tlsserver", v, "precertificate"}
    <3>1. p \in TlsLeafPrecertNames /\ p \in Seq(words)
      BY DEF TlsLeafPrecertNames
    <3>2. Spelt(p, lists)
      BY DEF Spelt, Last, Contains, ForPerson, People, Laws
    <3> HIDE DEF p, words, lists
    <3>3. OnlyIn(p, lists)
      BY <2>1, <3>1, <3>2, ListsAsSpelt
    <3> QED BY <3>3 DEF p
  <2>3. OnlyIn(<<"tevg", "leaf", "tlsserver", "ev", "precertificate">>, lists)
    <3> DEFINE p == <<"tevg", "leaf", "tlsserver", "ev", "precertificate">>
               words == {"tevg", "leaf", "tlsserver", "ev", "precertificate"}
    <3>1. p \in TlsLeafPrecertNames /\ p \in Seq(words)
      BY DEF TlsLeafPrecertNames
    <3>2. Spelt(p, lists)
      BY DEF Spelt, Last, Contains, ForPerson, People, Laws
    <3> HIDE DEF p, words, lists
    <3>3. OnlyIn(p, lists)
      BY <2>1, <3>1, <3>2, ListsAsSpelt
    <3> QED BY <3>3 DEF p
  <2> HIDE DEF lists
  <2>4. \A p \in TlsLeafPrecertNames : OnlyIn(p, lists)
    BY <2>2, <2>3 DEF TlsLeafPrecertNames
  <2> QED BY <2>4 DEF lists
<1>13. \A p \in EtsiNcpNames : OnlyIn(p, {"etsi"})
  <2> DEFINE lists == {"etsi"}
  <2>1. EtsiNcpNames \subseteq AllProfiles
    BY NamesInFull DEF PlainNames, PrecertNames
  <2>2. ASSUME NEW who \in People
        PROVE  OnlyIn(<<"etsi", "leaf", "ncp", who>>, lists)
    <3> DEFINE p == <<"etsi", "leaf", "ncp", who>>
               words == {"etsi", "leaf", "ncp", who}
    <3>1. p \in EtsiNcpNames /\ p \in Seq(words)
      BY DEF EtsiNcpNames
    <3>2. Spelt(p, lists)
      BY DEF Spelt, Last, Contains, ForPerson, People, Laws
    <3> HIDE DEF p, words, lists
    <3>3. OnlyIn(p, lists)
      BY <2>1, <3>1, <3>2, ListsAsSpelt
    <3> QED BY <3>3 DEF p
  <2> HIDE DEF lists
  <2>3. \A p \in EtsiNcpNames : OnlyIn(p, lists)
    BY <2>2 DEF EtsiNcpNames
  <2> QED BY <2>3 DEF lists
<1>14. \A p \in EtsiSiteNames : OnlyIn(p, {"site", "etsi"})
  <2> DEFINE lists == {"site", "etsi"}
  <2>1. EtsiSiteNames \subseteq AllProfiles
    BY NamesInFull DEF PlainNames, PrecertNames
  <2>2. ASSUME NEW v \in {"dvcp", "ivcp", "ovcp", "evcp"}
        PROVE  OnlyIn(<<"etsi", "leaf", "tlsserver", v>>, lists)
    <3> DEFINE p == <<"etsi", "leaf", "tlsserver", v>>
               words == {"etsi", "leaf", "tlsserver", v}
    <3>1. p \in EtsiSiteNames /\ p \in Seq(words)
      BY DEF EtsiSiteNames
    <3>2. Spelt(p, lists)
      BY DEF Spelt, Last, Contains, ForPerson, People, Laws
    <3> HIDE DEF p, words, lists
    <3>3. OnlyIn(p, lists)
      BY <2>1, <3>1, <3>2, ListsAsSpelt
    <3> QED BY <3>3 DEF p
  <2>3. ASSUME NEW law \in Laws
        PROVE  OnlyIn(<<"etsi", "leaf", "tlsserver", "qevcpw", law>>, lists)
    <3> DEFINE p == <<"etsi", "leaf", "tlsserver", "qevcpw", law>>
               words == {"etsi", "leaf", "tlsserver", "qevcpw", law}
    <3>1. p \in EtsiSiteNames /\ p \in Seq(words)
      BY DEF EtsiSiteNames
    <3>2. Spelt(p, lists)
      BY DEF Spelt, Last, Contains, ForPerson, People, Laws
    <3> HIDE DEF p, words, lists
    <3>3. OnlyIn(p, lists)
      BY <2>1, <3>1, <3>2, ListsAsSpelt
    <3> QED BY <3>3 DEF p
  <2>4. ASSUME NEW v \in {"iv", "ov"}, NEW law \in Laws
        PROVE  OnlyIn(<<"etsi", "leaf", "tlsserver", "qncpw", v, law>>, lists)
    <3> DEFINE p == <<"etsi", "leaf", "tlsserver", "qncpw", v, law>>
               words == {"etsi", "leaf", "tlsserver", "qncpw", v, law}
    <3>1. p \in EtsiSiteNames /\ p \in Seq(words)
      BY DEF EtsiSiteNames
    <3>2. Spelt(p, lists)
      BY DEF Spelt, Last, Contains, ForPerson, People, Laws
    <3> HIDE DEF p, words, lists
    <3>3. OnlyIn(p, lists)
      BY <2>1, <3>1, <3>2, ListsAsSpelt
    <3> QED BY <3>3 DEF p
  <2>5. OnlyIn(<<"etsi", "leaf", "tlsserver", "qevcpw", "psd2", "eidas">>, lists)
    <3> DEFINE p == <<"etsi", "leaf", "tlsserver", "qevcpw", "psd2", "eidas">>
               words == {"etsi", "leaf", "tlsserver", "qevcpw", "psd2", "eidas"}
    <3>1. p \in EtsiSiteNames /\ p \in Seq(words)
      BY DEF EtsiSiteNames
    <3>2. Spelt(p, lists)
      BY DEF Spelt, Last, Contains, ForPerson, People, Laws
    <3> HIDE DEF p, words, lists
    <3>3. OnlyIn(p, lists)
      BY <2>1, <3>1, <3>2, ListsAsSpelt
    <3> QED BY <3>3 DEF p
  <2>6. OnlyIn(<<"etsi", "leaf", "tlsserver", "qevcpw", "psd2", "eidas", "nonbrowser">>, lists)
    <3> DEFINE p == <<"etsi", "leaf", "tlsserver", "qevcpw", "psd2", "eidas", "nonbrowser">>
               words == {"etsi", "leaf", "tlsserver", "qevcpw", "psd2", "eidas", "nonbrowser"}
    <3>1. p \in EtsiSiteNames /\ p \in Seq(words)
      BY DEF EtsiSiteNames
    <3>2. Spelt(p, lists)
      BY DEF Spelt, Last, Contains, ForPerson, People, Laws
    <3> HIDE DEF p, words, lists
    <3>3. OnlyIn(p, lists)
      BY <2>1, <3>1, <3>2, ListsAsSpelt
    <3> QED BY <3>3 DEF p
  <2> HIDE DEF lists
  <2>7. \A p \in EtsiSiteNames : OnlyIn(p, lists)
    BY <2>2, <2>3, <2>4, <2>5, <2>6 DEF EtsiSiteNames
  <2> QED BY <2>7 DEF lists
<1>15. \A p \in EtsiSitePrecertNames : OnlyIn(p, {"site", "etsi", "precertificate"})
  <2> DEFINE lists == {"site", "etsi", "precertificate"}
  <2>1. EtsiSitePrecertNames \subseteq AllProfiles
    BY NamesInFull DEF PlainNames, PrecertNames
  <2>2. ASSUME NEW v \in {"dvcp", "ivcp", "ovcp", "evcp"}
        PROVE  OnlyIn(<<"etsi", "leaf", "tlsserver", v, "precertificate">>, lists)
    <3> DEFINE p == <<"etsi", "leaf", "tlsserver", v, "precertificate">>
               words == {"etsi", "leaf", "tlsserver", v, "precertificate"}
    <3>1. p \in EtsiSitePrecertNames /\ p \in Seq(words)
      BY DEF EtsiSitePrecertNames
    <3>2. Spelt(p, lists)
      BY DEF Spelt, Last, Contains, ForPerson, People, Laws
    <3> HIDE DEF p, words, lists
    <3>3. OnlyIn(p, lists)
      BY <2>1, <3>1, <3>2, ListsAsSpelt
    <3> QED BY <3>3 DEF p
  <2>3. ASSUME NEW law \in Laws
        PROVE  OnlyIn(<<"etsi", "leaf", "tlsserver", "qevcpw", law, "precertificate">>, lists)
    <3> DEFINE p == <<"etsi", "leaf", "tlsserver", "qevcpw", law, "precertificate">>
               words == {"etsi", "leaf", "tlsserver", "qevcpw", law, "precertificate"}
    <3>1. p \in EtsiSitePrecertNames /\ p \in Seq(words)
      BY DEF EtsiSitePrecertNames
    <3>2. Spelt(p, lists)
      BY DEF Spelt, Last, Contains, ForPerson, People, Laws
    <3> HIDE DEF p, words, lists
    <3>3. OnlyIn(p, lists)
      BY <2>1, <3>1, <3>2, ListsAsSpelt
    <3> QED BY <3>3 DEF p
  <2>4. ASSUME NEW v \in {"iv", "ov"}, NEW law \in Laws
        PROVE  OnlyIn(<<"etsi", "leaf", "tlsserver", "qncpw", v, law, "precertificate">>, lists)
    <3> DEFINE p == <<"etsi", "leaf", "tlsserver", "qncpw", v, law, "precertificate">>
               words == {"etsi", "leaf", "tlsserver", "qncpw", v, law, "precertificate"}
    <3>1. p \in EtsiSitePrecertNames /\ p \in Seq(words)
      BY DEF EtsiSitePrecertNames
    <3>2. Spelt(p, lists)
      BY DEF Spelt, Last, Contains, ForPerson, People, Laws
    <3> HIDE DEF p, words, lists
    <3>3. OnlyIn(p, lists)
      BY <2>1, <3>1, <3>2, ListsAsSpelt
    <3> QED BY <3>3 DEF p
  <2>5. OnlyIn(<<"etsi", "leaf", "tlsserver", "qevcpw", "psd2", "eidas", "precertificate">>, lists)
    <3> DEFINE p == <<"etsi", "leaf", "tlsserver", "qevcpw", "psd2", "eidas", "precertificate">>
               words == {"etsi", "leaf", "tlsserver", "qevcpw", "psd2", "eidas", "precertificate"}
    <3>1. p \in EtsiSitePrecertNames /\ p \in Seq(words)
      BY DEF EtsiSitePrecertNames
    <3>2. Spelt(p, lists)
      BY DEF Spelt, Last, Contains, ForPerson, People, Laws
    <3> HIDE DEF p, words, lists
    <3>3. OnlyIn(p, lists)
      BY <2>1, <3>1, <3>2, ListsAsSpelt
    <3> QED BY <3>3 DEF p
  <2>6. OnlyIn(<<"etsi", "leaf", "tlsserver", "qevcpw", "psd2", "eidas", "nonbrowser", "precertificate">>, lists)
    <3> DEFINE p == <<"etsi", "leaf", "tlsserver", "qevcpw", "psd2", "eidas", "nonbrowser", "precertificate">>
               words == {"etsi", "leaf", "tlsserver", "qevcpw", "psd2", "eidas", "nonbrowser", "precertificate"}
    <3>1. p \in EtsiSitePrecertNames /\ p \in Seq(words)
      BY DEF EtsiSitePrecertNames
    <3>2. Spelt(p, lists)
      BY DEF Spelt, Last, Contains, ForPerson, People, Laws
    <3> HIDE DEF p, words, lists
    <3>3. OnlyIn(p, lists)
      BY <2>1, <3>1, <3>2, ListsAsSpelt
    <3> QED BY <3>3 DEF p
  <2> HIDE DEF lists
  <2>7. \A p \in EtsiSitePrecertNames : OnlyIn(p, lists)
    BY <2>2, <2>3, <2>4, <2>5, <2>6 DEF EtsiSitePrecertNames
  <2> QED BY <2>7 DEF lists
<1>16. \A p \in EtsiPersonNames : OnlyIn(p, {"etsi"})
  <2> DEFINE lists == {"etsi"}
  <2>1. EtsiPersonNames \subseteq AllProfiles
    BY NamesInFull DEF PlainNames, PrecertNames
  <2>2. ASSUME NEW who \in People
        PROVE  OnlyIn(<<"etsi", "leaf", "tlsserver", "ncpw", who>>, lists)
    <3> DEFINE p == <<"etsi", "leaf", "tlsserver", "ncpw", who>>
               words == {"etsi", "leaf", "tlsserver", "ncpw", who}
    <3>1. p \in EtsiPersonNames /\ p \in Seq(words)
      BY DEF EtsiPersonNames
    <3>2. Spelt(p, lists)
      BY DEF Spelt, Last, Contains, ForPerson, People, Laws
    <3> HIDE DEF p, words, lists
    <3>3. OnlyIn(p, lists)
      BY <2>1, <3>1, <3>2, ListsAsSpelt
    <3> QED BY <3>3 DEF p
  <2>3. ASSUME NEW who \in People, NEW law \in Laws
        PROVE  OnlyIn(<<"etsi", "leaf", "tlsserver", "qncpw", "gen", who, law>>, lists)
    <3> DEFINE p == <<"etsi", "leaf", "tlsserver", "qncpw", "gen", who, law>>
               words == {"etsi", "leaf", "tlsserver", "qncpw", "gen", who, law}
    <3>1. p \in EtsiPersonNames /\ p \in Seq(words)
      BY DEF EtsiPersonNames
    <3>2. Spelt(p, lists)
      BY DEF Spelt, Last, Contains, ForPerson, People, Laws
    <3> HIDE DEF p, words, lists
    <3>3. OnlyIn(p, lists)
      BY <2>1, <3>1, <3>2, ListsAsSpelt
    <3> QED BY <3>3 DEF p
  <2> HIDE DEF lists
  <2>4. \A p \in EtsiPersonNames : OnlyIn(p, lists)
    BY <2>2, <2>3 DEF EtsiPersonNames
  <2> QED BY <2>4 DEF lists
<1>17. \A p \in EtsiPersonPrecertNames : OnlyIn(p, {"etsi", "precertificate"})
  <2> DEFINE lists == {"etsi", "precertificate"}
  <2>1. EtsiPersonPrecertNames \subseteq AllProfiles
    BY NamesInFull DEF PlainNames, PrecertNames
  <2>2. ASSUME NEW who \in People
        PROVE  OnlyIn(<<"etsi", "leaf", "tlsserver", "ncpw", who, "precertificate">>, lists)
    <3> DEFINE p == <<"etsi", "leaf", "tlsserver", "ncpw", who, "precertificate">>
               words == {"etsi", "leaf", "tlsserver", "ncpw", who, "precertificate"}
    <3>1. p \in EtsiPersonPrecertNames /\ p \in Seq(words)
      BY DEF EtsiPersonPrecertNames
    <3>2. Spelt(p, lists)
      BY DEF Spelt, Last, Contains, ForPerson, People, Laws
    <3> HIDE DEF p, words, lists
    <3>3. OnlyIn(p, lists)
      BY <2>1, <3>1, <3>2, ListsAsSpelt
    <3> QED BY <3>3 DEF p
  <2>3. ASSUME NEW who \in People, NEW law \in Laws
        PROVE  OnlyIn(<<"etsi", "leaf", "tlsserver", "qncpw", "gen", who, law, "precertificate">>, lists)
    <3> DEFINE p == <<"etsi", "leaf", "tlsserver", "qncpw", "gen", who, law, "precertificate">>
               words == {"etsi", "leaf", "tlsserver", "qncpw", "gen", who, law, "precertificate"}
    <3>1. p \in EtsiPersonPrecertNames /\ p \in Seq(words)
      BY DEF EtsiPersonPrecertNames
    <3>2. Spelt(p, lists)
      BY DEF Spelt, Last, Contains, ForPerson, People, Laws
    <3> HIDE DEF p, words, lists
    <3>3. OnlyIn(p, lists)
      BY <2>1, <3>1, <3>2, ListsAsSpelt
    <3> QED BY <3>3 DEF p
  <2> HIDE DEF lists
  <2>4. \A p \in EtsiPersonPrecertNames : OnlyIn(p, lists)
    BY <2>2, <2>3 DEF EtsiPersonPrecertNames
  <2> QED BY <2>4 DEF lists
<1>18. \A p \in MarkNames : OnlyIn(p, {})
  <2> DEFINE lists == {}
  <2>1. MarkNames \subseteq AllProfiles
    BY NamesInFull DEF PlainNames, PrecertNames
  <2>2. ASSUME NEW mark \in {"commonmark", "verifiedmark"}
        PROVE  OnlyIn(<<"bimigroup", "leaf", mark>>, lists)
    <3> DEFINE p == <<"bimigroup", "leaf", mark>>
               words == {"bimigroup", "leaf", mark}
    <3>1. p \in MarkNames /\ p \in Seq(words)
      BY DEF MarkNames
    <3>2. Spelt(p, lists)
      BY DEF Spelt, Last, Contains, ForPerson, People, Laws
    <3> HIDE DEF p, words, lists
    <3>3. OnlyIn(p, lists)
      BY <2>1, <3>1, <3>2, ListsAsSpelt
    <3> QED BY <3>3 DEF p
  <2> HIDE DEF lists
  <2>3. \A p \in MarkNames : OnlyIn(p, lists)
    BY <2>2 DEF MarkNames
  <2> QED BY <2>3 DEF lists
<1>19. \A p \in MarkPrecertNames : OnlyIn(p, {"precertificate"})
  <2> DEFINE lists == {"precertificate"}
  <2>1. MarkPrecertNames \subseteq AllProfiles
    BY NamesInFull DEF PlainNames, PrecertNames
  <2>2. ASSUME NEW mark \in {"commonmark", "verifiedmark"}
        PROVE  OnlyIn(<<"bimigroup", "leaf", mark, "precertificate">>, lists)
    <3> DEFINE p == <<"bimigroup", "leaf", mark, "precertificate">>
               words == {"bimigroup", "leaf", mark, "precertificate"}
    <3>1. p \in MarkPrecertNames /\ p \in Seq(words)
      BY DEF MarkPrecertNames
    <3>2. Spelt(p, lists)
      BY DEF Spelt, Last, Contains, ForPerson, People, Laws
    <3> HIDE DEF p, words, lists
    <3>3. OnlyIn(p, lists)
      BY <2>1, <3>1, <3>2, ListsAsSpelt
    <3> QED BY <3>3 DEF p
  <2> HIDE DEF lists
  <2>3. \A p \in MarkPrecertNames : OnlyIn(p, lists)
    BY <2>2 DEF MarkPrecertNames
  <2> QED BY <2>3 DEF lists
<1> QED BY <1>1, <1>2, <1>3, <1>4, <1>5, <1>6, <1>7, <1>8, <1>9, <1>10, <1>11, <1>12, <1>13, <1>14, <1>15, <1>16, <1>17, <1>18, <1>19

-----------------------------------------------------------------------------
(* What detection chooses.                                                 *)

\* A chain with a step that has a result chooses one of what its steps are among.
LEMMA TheFirst ==
    ASSUME NEW X, NEW steps \in Seq(Results(X)), NEW k \in 1 .. Len(steps), steps[k] # {}
    PROVE  The(FirstOf(steps)) \in X
<1>1. FirstOf(steps) \in Results(X) /\ FirstOf(steps) # {}
  BY ChainAmong
<1> QED BY <1>1 DEF The, Results

\* A loop over the policies is among what each of them gives.
LEMMA PoliciesAmong ==
    ASSUME NEW X, NEW policies, policies \in Seq(Policies), NEW f,
           f = [i \in DOMAIN policies |-> f[i]],
           \A i \in 1 .. Len(policies) : f[i] \in Results(X)
    PROVE  FirstOf(f) \in Results(X)
<1>1. Len(policies) \in Nat /\ DOMAIN policies = 1 .. Len(policies)
  BY LenProperties
<1>2. f \in Seq(Results(X))
  BY <1>1
<1> QED BY <1>2, ChainAmong

\* A step that gives one of X is a result among X.
LEMMA OneAmong ==
    ASSUME NEW X, NEW p \in X
    PROVE  {p} \in Results(X) /\ {p} # {}
BY DEF Results

\* So is a step that gives nothing.
LEMMA NoneAmong ==
    ASSUME NEW X
    PROVE  {} \in Results(X)
BY DEF Results

\* So is a conditional step whose condition puts its profile in X.
LEMMA WhenAmong ==
    ASSUME NEW X, NEW p, NEW condition, condition => p \in X
    PROVE  When(condition, p) \in Results(X)
BY DEF When, Results

\* For a CRL detection chooses a CRL profile.
LEMMA CrlDetected ==
    ASSUME NEW c
    PROVE  CRLProfile(c) \in CrlNames
BY DEF CRLProfile, CrlNames

\* For a root it chooses a root profile.
LEMMA RootDetected ==
    ASSUME NEW c
    PROVE  RootCertificateProfile(c) \in OtherRootNames \cup TlsRootNames
<1> DEFINE names == OtherRootNames \cup TlsRootNames
           steps == <<When("ev"    \in c.self, <<"tevg", "root", "tlsserver">>),
                      When("tls"   \in c.self, <<"tbr", "root", "tlsserver">>),
                      When("smime" \in c.self, <<"sbr", "root", "smime">>),
                      When("cs"    \in c.self, <<"csbr", "root", "codesigning">>),
                      When("vmc"   \in c.self, <<"bimigroup", "root", "bimi">>),
                      {<<"rfc5280", "root">>}>>
<1>1. steps \in Seq(Results(names)) /\ Len(steps) = 6 /\ steps[6] # {}
  <2>1. /\ <<"tevg", "root", "tlsserver">> \in names /\ <<"tbr", "root", "tlsserver">> \in names
        /\ <<"sbr", "root", "smime">> \in names /\ <<"csbr", "root", "codesigning">> \in names
        /\ <<"bimigroup", "root", "bimi">> \in names /\ <<"rfc5280", "root">> \in names
    BY DEF OtherRootNames, TlsRootNames
  <2> HIDE DEF names
  <2> QED BY <2>1, WhenAmong, OneAmong
<1>2. The(FirstOf(steps)) \in names
  <2> HIDE DEF steps, names
  <2> QED BY <1>1, TheFirst
<1> QED BY <1>2 DEF RootCertificateProfile

\* For a subordinate it chooses a subordinate profile, whatever its policies are.
LEMMA SubordinateDetected ==
    ASSUME NEW c, c.policies \in Seq(Policies)
    PROVE  SubordinateCertificateProfile(c) \in OtherSubordinateNames \cup TlsSubordinateNames
<1> DEFINE names == OtherSubordinateNames \cup TlsSubordinateNames
           byPolicy == FirstPolicy(c.policies, SubordinatePolicyProfile)
           steps == <<When("precertSigning" \in c.ekus, <<"tbr", "subordinate", "precertsigning">>),
                      byPolicy,
                      SubordinateIssuerProfile(c),
                      {<<"rfc5280", "subordinate">>}>>
<1>1. /\ <<"tbr", "subordinate", "precertsigning">> \in names
      /\ <<"tbr", "subordinate", "tlsserver">> \in names /\ <<"tevg", "subordinate", "tlsserver">> \in names
      /\ <<"sbr", "subordinate", "smime">> \in names /\ <<"csbr", "subordinate", "codesigning">> \in names
      /\ <<"csbr", "subordinate", "timestamping">> \in names
      /\ <<"bimigroup", "subordinate", "bimi">> \in names /\ <<"rfc5280", "subordinate">> \in names
  BY DEF OtherSubordinateNames, TlsSubordinateNames
<1>2. byPolicy \in Results(names)
  <2> DEFINE f == [i \in DOMAIN c.policies |-> SubordinatePolicyProfile(c.policies[i])]
  <2>1. ASSUME NEW policy
        PROVE  SubordinatePolicyProfile(policy) \in Results(names)
    <3> HIDE DEF names
    <3> QED BY <1>1, OneAmong, NoneAmong DEF SubordinatePolicyProfile
  <2>2. \A i \in 1 .. Len(c.policies) : f[i] \in Results(names)
    BY <2>1, LenProperties
  <2>3. byPolicy = FirstOf(f)
    BY DEF FirstPolicy
  <2> HIDE DEF byPolicy, names
  <2>4. f = [i \in DOMAIN c.policies |-> f[i]]
    OBVIOUS
  <2> HIDE DEF f
  <2> QED BY <2>2, <2>3, <2>4, PoliciesAmong
<1>3. SubordinateIssuerProfile(c) \in Results(names)
  <2> DEFINE Eku(e) == e \in c.ekus \/ HasAnyOrNoEKU(c)
             issuers ==
        <<When(Eku("serverAuth") /\ "ev" \in c.issuer,         <<"tevg", "subordinate", "tlsserver">>),
          When(Eku("serverAuth") /\ "tls" \in c.issuer,        <<"tbr", "subordinate", "tlsserver">>),
          When(Eku("emailProtection") /\ "smime" \in c.issuer, <<"sbr", "subordinate", "smime">>),
          When(Eku("codeSigning") /\ "cs" \in c.issuer,        <<"csbr", "subordinate", "codesigning">>),
          When("timeStamping" \in c.ekus /\ c.issuer # {},     <<"csbr", "subordinate", "timestamping">>),
          When("bimi" \in c.ekus /\ c.issuer # {},             <<"bimigroup", "subordinate", "bimi">>)>>
  <2>1. issuers \in Seq(Results(names))
    <3> HIDE DEF names, Eku
    <3> QED BY <1>1, WhenAmong
  <2>2. FirstOf(issuers) \in Results(names)
    <3> HIDE DEF issuers, names
    <3> QED BY <2>1, ChainAmong
  <2> QED BY <2>2 DEF SubordinateIssuerProfile
<1>4. steps \in Seq(Results(names)) /\ Len(steps) = 4 /\ steps[4] # {}
  <2> DEFINE first == When("precertSigning" \in c.ekus, <<"tbr", "subordinate", "precertsigning">>)
             last == {<<"rfc5280", "subordinate">>}
  <2>1. first \in Results(names) /\ last \in Results(names) /\ last # {}
    <3> HIDE DEF names
    <3> QED BY <1>1, WhenAmong, OneAmong
  <2> HIDE DEF byPolicy, names, first, last
  <2>2. /\ <<first, byPolicy, SubordinateIssuerProfile(c), last>> \in Seq(Results(names))
        /\ <<first, byPolicy, SubordinateIssuerProfile(c), last>>[4] # {}
    BY <1>2, <1>3, <2>1
  <2> QED BY <2>2 DEF first, last
<1>5. The(FirstOf(steps)) \in names
  <2> HIDE DEF steps, names
  <2> QED BY <1>4, TheFirst
<1> QED BY <1>5 DEF SubordinateCertificateProfile

\* A leaf gets a profile for precertificates when it has the poison, and only then one of
\* those that there are two of; the others are for both.
BothLeafNames == OtherLeafNames \cup SmimeLeafNames \cup {OCSPSIGNING}
LeafNames(c)  == BothLeafNames \cup IF c.poison THEN PrecertNames ELSE PlainNames

\* What the tables for certificates and for precertificates hold.
LEMMA TlsPolicyAmong ==
    ASSUME NEW policy, NEW c
    PROVE  /\ TlsPolicyProfile(policy, c) \in Results(PlainNames)
           /\ TlsPolicyPrecertProfile(policy, c) \in Results(PrecertNames)
<1>1. /\ <<"tbr", "leaf", "tlsserver", "dv">> \in PlainNames
      /\ <<"tbr", "leaf", "tlsserver", "ov">> \in PlainNames
      /\ <<"tbr", "leaf", "tlsserver", "iv">> \in PlainNames
      /\ <<"tevg", "leaf", "tlsserver", "ev">> \in PlainNames
      /\ <<"tbr", "leaf", "tlsserver", "dv", "precertificate">> \in PrecertNames
      /\ <<"tbr", "leaf", "tlsserver", "ov", "precertificate">> \in PrecertNames
      /\ <<"tbr", "leaf", "tlsserver", "iv", "precertificate">> \in PrecertNames
      /\ <<"tevg", "leaf", "tlsserver", "ev", "precertificate">> \in PrecertNames
  BY DEF PlainNames, TlsLeafNames, PrecertNames, TlsLeafPrecertNames
<1>2. /\ EtsiWeb(<<"qncpw", "ov", "eidas">>) \in PlainNames
      /\ EtsiWeb(<<"qncpw", "ov", "noneidas">>) \in PlainNames
      /\ EtsiWeb(<<"qncpw", "iv", "eidas">>) \in PlainNames
      /\ EtsiWeb(<<"qncpw", "iv", "noneidas">>) \in PlainNames
      /\ EtsiWeb(<<"qevcpw", "psd2", "eidas">>) \in PlainNames
      /\ EtsiWeb(<<"qevcpw", "eidas">>) \in PlainNames
      /\ EtsiWeb(<<"qevcpw", "noneidas">>) \in PlainNames
  BY EtsiWebNames DEF PlainNames, EtsiSiteNames, Laws
<1>3. /\ EtsiWeb(<<"qncpw", "ov", "eidas", "precertificate">>) \in PrecertNames
      /\ EtsiWeb(<<"qncpw", "ov", "noneidas", "precertificate">>) \in PrecertNames
      /\ EtsiWeb(<<"qncpw", "iv", "eidas", "precertificate">>) \in PrecertNames
      /\ EtsiWeb(<<"qncpw", "iv", "noneidas", "precertificate">>) \in PrecertNames
      /\ EtsiWeb(<<"qevcpw", "psd2", "eidas", "precertificate">>) \in PrecertNames
      /\ EtsiWeb(<<"qevcpw", "eidas", "precertificate">>) \in PrecertNames
      /\ EtsiWeb(<<"qevcpw", "noneidas", "precertificate">>) \in PrecertNames
  BY EtsiWebNames DEF PrecertNames, EtsiSitePrecertNames, Laws
<1>4. TlsPolicyProfile(policy, c) \in Results(PlainNames)
  BY <1>1, <1>2, OneAmong, NoneAmong DEF TlsPolicyProfile, ByQualification
<1>5. TlsPolicyPrecertProfile(policy, c) \in Results(PrecertNames)
  BY <1>1, <1>3, OneAmong, NoneAmong DEF TlsPolicyPrecertProfile, ByQualification
<1> QED BY <1>4, <1>5

\* A policy leads to a leaf profile, or to none, with the suffix that the certificate calls for.
LEMMA LeafPolicyAmong ==
    ASSUME NEW c, NEW policy \in Policies
    PROVE  LeafPolicyProfile(policy, c) \in Results(LeafNames(c))
<1> DEFINE tls == IF c.poison THEN TlsPolicyPrecertProfile(policy, c) ELSE TlsPolicyProfile(policy, c)
           smime == When(Head(policy) = "smime" /\ Len(policy) = 3, <<"sbr", "leaf">> \o policy)
           signs == When(Head(policy) = "cs", <<"csbr", "leaf", "codesigning">> \o Tail(policy))
           stamps == When(Head(policy) = "ts", <<"csbr", "leaf", "timestamping">>)
           steps == <<tls, smime, signs, stamps>>
           names == LeafNames(c)
<1>1. tls \in Results(names)
  <2>1. tls \in IF c.poison THEN Results(PrecertNames) ELSE Results(PlainNames)
    BY TlsPolicyAmong
  <2> HIDE DEF tls
  <2>2. (IF c.poison THEN PrecertNames ELSE PlainNames) \subseteq names
    BY DEF LeafNames
  <2> HIDE DEF names
  <2> QED BY <2>1, <2>2, AmongMore
<1>2. smime \in Results(names)
  <2>1. ASSUME Head(policy) = "smime", Len(policy) = 3
        PROVE  <<"sbr", "leaf">> \o policy \in SmimeLeafNames
    <3>1. PICK v \in {"mv", "ov", "sv", "iv"}, g \in {"legacy", "multipurpose", "strict"} :
             policy = <<"smime", v, g>>
      BY <2>1 DEF Policies
    <3> QED BY <3>1, OtherNames DEF SmimeLeafNames
  <2> QED BY <2>1, WhenAmong DEF LeafNames, BothLeafNames
<1>3. signs \in Results(names)
  <2>1. ASSUME Head(policy) = "cs"
        PROVE  <<"csbr", "leaf", "codesigning">> \o Tail(policy) \in OtherLeafNames
    <3>1. PICK v \in {"ov", "ev"} : policy = <<"cs", v>>
      BY <2>1 DEF Policies
    <3>2. Tail(policy) = <<v>>
      BY <3>1
    <3> QED BY <3>2, OtherNames DEF OtherLeafNames
  <2> DEFINE p == <<"csbr", "leaf", "codesigning">> \o Tail(policy)
             condition == Head(policy) = "cs"
  <2>2. condition => p \in names
    BY <2>1 DEF LeafNames, BothLeafNames
  <2> HIDE DEF p, condition, names
  <2>3. When(condition, p) \in Results(names)
    BY <2>2, WhenAmong
  <2> QED BY <2>3 DEF p, condition
<1>4. stamps \in Results(names)
  <2>1. <<"csbr", "leaf", "timestamping">> \in OtherLeafNames
    BY DEF OtherLeafNames
  <2> QED BY <2>1, WhenAmong DEF LeafNames, BothLeafNames
<1>5. FirstOf(steps) \in Results(names)
  <2> HIDE DEF tls, smime, signs, stamps, names
  <2>1. steps \in Seq(Results(names))
    BY <1>1, <1>2, <1>3, <1>4
  <2> HIDE DEF steps
  <2> QED BY <2>1, ChainAmong
<1> QED BY <1>5 DEF LeafPolicyProfile

\* The subject attributes of a natural person choose from the two tables alike.
LEMMA PersonAmong ==
    ASSUME NEW c
    PROVE  /\ PersonProfile(c) \in Results(PlainNames)
           /\ PersonPrecertProfile(c) \in Results(PrecertNames)
<1> DEFINE who == IF c.person THEN "naturalperson" ELSE "legalperson"
           eidas == EtsiWeb(<<"qncpw", "gen", who, "eidas">>)
           nonEidas == EtsiWeb(<<"qncpw", "gen", who, "noneidas">>)
           steps == <<When(IsEidasQualified(c), eidas), When(IsQualified(c), nonEidas)>>
           eidasPre == EtsiWeb(<<"qncpw", "gen", who, "eidas", "precertificate">>)
           nonEidasPre == EtsiWeb(<<"qncpw", "gen", who, "noneidas", "precertificate">>)
           preSteps == <<When(IsEidasQualified(c), eidasPre), When(IsQualified(c), nonEidasPre)>>
<1>1. who \in People
  BY DEF People
<1>2. eidas \in PlainNames /\ nonEidas \in PlainNames
  <2> HIDE DEF who
  <2> QED BY <1>1, EtsiWebNames DEF PlainNames, EtsiPersonNames, Laws
<1>3. eidasPre \in PrecertNames /\ nonEidasPre \in PrecertNames
  <2>1. ASSUME NEW law \in Laws
        PROVE  EtsiWeb(<<"qncpw", "gen", who, law, "precertificate">>) \in EtsiPersonPrecertNames
    <3> HIDE DEF who
    <3>1. EtsiWeb(<<"qncpw", "gen", who, law, "precertificate">>) =
              <<"etsi", "leaf", "tlsserver", "qncpw", "gen", who, law, "precertificate">>
      BY EtsiWebNames
    <3> QED BY <1>1, <3>1 DEF EtsiPersonPrecertNames
  <2> QED BY <2>1 DEF PrecertNames, Laws
<1>4. FirstOf(steps) \in Results(PlainNames)
  <2>1. steps \in Seq(Results(PlainNames))
    <3> HIDE DEF eidas, nonEidas
    <3> QED BY <1>2, WhenAmong
  <2> HIDE DEF steps
  <2> QED BY <2>1, ChainAmong
<1>5. FirstOf(preSteps) \in Results(PrecertNames)
  <2>1. preSteps \in Seq(Results(PrecertNames))
    <3> HIDE DEF eidasPre, nonEidasPre
    <3> QED BY <1>3, WhenAmong
  <2> HIDE DEF preSteps
  <2> QED BY <2>1, ChainAmong
<1> QED BY <1>4, <1>5 DEF PersonProfile, PersonPrecertProfile

\* What the issuer's listing implies is among the names of a leaf.
LEMMA LeafIssuerAmong ==
    ASSUME NEW c \in Features
    PROVE  LeafIssuerProfile(c) \in Results(LeafNames(c))
<1> DEFINE names == LeafNames(c)
           Eku(e) == e \in c.ekus \/ HasAnyOrNoEKU(c)
           Pre(p) == IF c.poison THEN Precertificate(p) ELSE p
           tls == Eku("serverAuth") /\ "tls" \in c.issuer
           signs == Eku("codeSigning") /\ "cs" \in c.issuer
           bimi == "bimi" \in c.ekus /\ c.issuer # {} /\ c.mark # "none"
           steps ==
             <<When(Eku("serverAuth") /\ "ev" \in c.issuer,    Pre(<<"tevg", "leaf", "tlsserver", "ev">>)),
               When(tls /\ c.person,                           Pre(<<"tbr", "leaf", "tlsserver", "iv">>)),
               When(tls /\ c.org,                              Pre(<<"tbr", "leaf", "tlsserver", "ov">>)),
               When(tls,                                       Pre(<<"tbr", "leaf", "tlsserver", "dv">>)),
               When("ocspSigning" \in c.ekus /\ "tls" \in c.issuer, <<"tbr", "leaf", "ocspsigning">>),
               When(signs /\ c.jurisdiction,                   <<"csbr", "leaf", "codesigning", "ev">>),
               When(signs /\ c.org,                            <<"csbr", "leaf", "codesigning", "ov">>),
               When("timeStamping" \in c.ekus /\ c.issuer # {}, <<"csbr", "leaf", "timestamping">>),
               When(bimi,                                      Pre(<<"bimigroup", "leaf", c.mark>>))>>
<1>1. ASSUME NEW p \in TlsLeafNames \cup MarkNames
      PROVE  Pre(p) \in names
  <2>1. p \in PlainNames
    BY DEF PlainNames
  <2>2. Precertificate(p) \in PrecertNames
    BY PrecertNamesInFull DEF PrecertNames
  <2> QED BY <2>1, <2>2 DEF LeafNames
<1>2. /\ <<"tevg", "leaf", "tlsserver", "ev">> \in TlsLeafNames
      /\ <<"tbr", "leaf", "tlsserver", "iv">> \in TlsLeafNames
      /\ <<"tbr", "leaf", "tlsserver", "ov">> \in TlsLeafNames
      /\ <<"tbr", "leaf", "tlsserver", "dv">> \in TlsLeafNames
  BY DEF TlsLeafNames
<1>3. bimi => <<"bimigroup", "leaf", c.mark>> \in MarkNames
  BY DEF MarkNames, Features
<1>4. /\ <<"tbr", "leaf", "ocspsigning">> \in names
      /\ <<"csbr", "leaf", "codesigning", "ev">> \in names
      /\ <<"csbr", "leaf", "codesigning", "ov">> \in names
      /\ <<"csbr", "leaf", "timestamping">> \in names
  BY DEF LeafNames, BothLeafNames, OtherLeafNames, OCSPSIGNING
<1>5. steps \in Seq(Results(names))
  <2>1. /\ Pre(<<"tevg", "leaf", "tlsserver", "ev">>) \in names
        /\ Pre(<<"tbr", "leaf", "tlsserver", "iv">>) \in names
        /\ Pre(<<"tbr", "leaf", "tlsserver", "ov">>) \in names
        /\ Pre(<<"tbr", "leaf", "tlsserver", "dv">>) \in names
        /\ bimi => Pre(<<"bimigroup", "leaf", c.mark>>) \in names
    <3> HIDE DEF names, Pre, bimi
    <3> QED BY <1>1, <1>2, <1>3
  <2> HIDE DEF names, Pre, Eku, tls, signs, bimi
  <2> QED BY <1>4, <2>1, WhenAmong
<1>6. FirstOf(steps) \in Results(names)
  <2> HIDE DEF steps, names
  <2> QED BY <1>5, ChainAmong
<1> QED BY <1>6 DEF LeafIssuerProfile

\* The extended key usages always choose, from the names for such a leaf.
LEMMA LeafUsageAmong ==
    ASSUME NEW c
    PROVE  LeafUsageProfile(c) \in Results(LeafNames(c)) /\ LeafUsageProfile(c) # {}
<1> DEFINE names == LeafNames(c)
           steps == <<When("serverAuth" \in c.ekus,      <<"rfc5280", "leaf", "tlsserver">>),
                      When("emailProtection" \in c.ekus, <<"rfc5280", "leaf", "smime">>),
                      When("codeSigning" \in c.ekus,     <<"rfc5280", "leaf", "codesigning">>),
                      When("timeStamping" \in c.ekus,    <<"rfc5280", "leaf", "timestamping">>),
                      When("ocspSigning" \in c.ekus,     <<"rfc5280", "leaf", "ocspsigning">>),
                      When("documentSigning" \in c.ekus, <<"rfc5280", "leaf", "documentsigning">>),
                      When("clientAuth" \in c.ekus,      <<"rfc5280", "leaf", "tlsclient">>),
                      {<<"rfc5280", "leaf">>}>>
<1>1. /\ \A use \in {"tlsclient", "tlsserver", "smime", "codesigning", "timestamping",
                     "documentsigning", "ocspsigning"} : <<"rfc5280", "leaf", use>> \in names
      /\ <<"rfc5280", "leaf">> \in names
  BY DEF LeafNames, BothLeafNames, OtherLeafNames
<1>2. steps \in Seq(Results(names)) /\ Len(steps) = 8 /\ steps[8] # {}
  <2> HIDE DEF names
  <2> QED BY <1>1, WhenAmong, OneAmong
<1>3. FirstOf(steps) \in Results(names) /\ FirstOf(steps) # {}
  <2> HIDE DEF steps, names
  <2> QED BY <1>2, ChainAmong
<1> QED BY <1>3 DEF LeafUsageProfile

\* What the chain for a leaf results in.
LeafResult(c) ==
    LET OfPolicy(policy) == LeafPolicyProfile(policy, c)
    IN  FirstOf(<<FirstPolicy(c.policies, OfPolicy),
                  IF "serverAuth" \notin c.ekus THEN {}
                  ELSE IF c.poison THEN PersonPrecertProfile(c) ELSE PersonProfile(c),
                  LeafIssuerProfile(c),
                  LeafUsageProfile(c)>>)

\* And so does the whole chain for a leaf.
LEMMA LeafResultAmong ==
    ASSUME NEW c \in Features
    PROVE  LeafResult(c) \in Results(LeafNames(c)) /\ LeafResult(c) # {}
<1> DEFINE names == LeafNames(c)
           OfPolicy(policy) == LeafPolicyProfile(policy, c)
           byPolicy == FirstPolicy(c.policies, OfPolicy)
           person == IF "serverAuth" \notin c.ekus THEN {}
                     ELSE IF c.poison THEN PersonPrecertProfile(c) ELSE PersonProfile(c)
           steps == <<byPolicy, person, LeafIssuerProfile(c), LeafUsageProfile(c)>>
<1>1. byPolicy \in Results(names)
  <2> DEFINE f == [i \in DOMAIN c.policies |-> LeafPolicyProfile(c.policies[i], c)]
  <2>1. c.policies \in Seq(Policies)
    BY DEF Features
  <2>2. \A i \in 1 .. Len(c.policies) : f[i] \in Results(names)
    BY <2>1, LeafPolicyAmong, ElementOfSeq, LenProperties
  <2>3. byPolicy = FirstOf(f)
    BY DEF FirstPolicy
  <2> HIDE DEF byPolicy, names
  <2>4. f = [i \in DOMAIN c.policies |-> f[i]]
    OBVIOUS
  <2> HIDE DEF f
  <2> QED BY <2>1, <2>2, <2>3, <2>4, PoliciesAmong
<1>2. person \in Results(names)
  <2>1. person \in Results(IF c.poison THEN PrecertNames ELSE PlainNames)
    BY PersonAmong, NoneAmong
  <2> HIDE DEF person
  <2>2. (IF c.poison THEN PrecertNames ELSE PlainNames) \subseteq names
    BY DEF LeafNames
  <2> HIDE DEF names
  <2> QED BY <2>1, <2>2, AmongMore
<1>3. steps \in Seq(Results(names)) /\ Len(steps) = 4 /\ steps[4] # {}
  <2> HIDE DEF byPolicy, person, names
  <2>1. LeafIssuerProfile(c) \in Results(names) /\ LeafUsageProfile(c) \in Results(names)
    BY LeafIssuerAmong, LeafUsageAmong DEF names
  <2> QED BY <1>1, <1>2, <2>1, LeafUsageAmong
<1>4. FirstOf(steps) \in Results(names) /\ FirstOf(steps) # {}
  <2> HIDE DEF steps, names
  <2> QED BY <1>3, ChainAmong
<1> QED BY <1>4 DEF LeafResult

\* For a leaf detection chooses a leaf profile, with the suffix for precertificates only.
LEMMA LeafDetected ==
    ASSUME NEW c \in Features
    PROVE  LeafCertificateProfile(c) \in LeafNames(c)
<1>1. PICK p \in LeafNames(c) : LeafResult(c) = {p}
  BY LeafResultAmong DEF Results
<1>2. LeafCertificateProfile(c) = The(LeafResult(c))
  BY DEF LeafCertificateProfile, LeafResult
<1> QED BY <1>1, <1>2 DEF The

-----------------------------------------------------------------------------
(* How the lists of a profile go together.                                 *)

\* The TLS, ETSI and S/MIME lists, the lists of objects that are no certificates and those
\* of roots and subordinates.
Fit(lists) ==
    /\ "tls" \in lists => "etsi" \notin lists /\ "smime" \notin lists
    /\ "site" \in lists => /\ "root" \notin lists /\ "subordinate" \notin lists
                           /\ "tls" \in lists \/ "etsi" \in lists
    /\ "smime" \in lists => "etsi" \notin lists

\* A profile is in the lists that belong together for an object of one kind, and in no others.
LEMMA EveryProfileFits ==
    ASSUME NEW p \in AllProfiles, p # AUTODETECT
    PROVE  \E lists : OnlyIn(p, lists) /\ Fit(lists)
<1>1. CASE p \in {OCSPRESPONSE, OCSPSIGNING} \cup CrlNames
  <2>1. Fit({"ocsp"}) /\ Fit({"site", "tls"}) /\ Fit({"crl"})
    BY DEF Fit
  <2> QED BY <1>1, <2>1, ListsOfNames
<1>2. CASE p \in OtherRootNames \cup OtherSubordinateNames \cup OtherLeafNames
  <2>1. Fit({"root"}) /\ Fit({"subordinate"}) /\ Fit({})
    BY DEF Fit
  <2> QED BY <1>2, <2>1, ListsOfNames
<1>3. CASE p \in TlsRootNames \cup TlsSubordinateNames \cup TlsSideNames
  <2>1. Fit({"root", "tls"}) /\ Fit({"subordinate", "tls"})
    BY DEF Fit
  <2> QED BY <1>3, <2>1, ListsOfNames
<1>4. CASE p \in SmimeLeafNames \cup EtsiNcpNames
  <2>1. Fit({"smime"}) /\ Fit({"etsi"})
    BY DEF Fit
  <2> QED BY <1>4, <2>1, ListsOfNames
<1>5. CASE p \in PlainNames
  <2>1. Fit({"site", "etsi"}) /\ Fit({"etsi"}) /\ Fit({"site", "tls"}) /\ Fit({})
    BY DEF Fit
  <2> QED BY <1>5, <2>1, ListsOfNames DEF PlainNames
<1>6. CASE p \in PrecertNames
  <2>1. /\ Fit({"site", "etsi", "precertificate"}) /\ Fit({"etsi", "precertificate"})
        /\ Fit({"site", "tls", "precertificate"}) /\ Fit({"precertificate"})
    BY DEF Fit
  <2> QED BY <1>6, <2>1, ListsOfNames DEF PrecertNames
<1> QED BY <1>1, <1>2, <1>3, <1>4, <1>5, <1>6, NamesInFull

\* pkilint is told the type of the certificate for every profile of a leaf that it lints by
\* its S/MIME, TLS or ETSI rules.
LEMMA PkilintIsTold ==
    ASSUME NEW p \in AllProfiles, p # AUTODETECT,
           p \in TbrTevgLeafProfileIDs \cup EtsiCertificateProfileIDs \cup SbrLeafProfileIDs
    PROVE  p \in PkilintDictionary
<1>1. CASE p \in EtsiNcpNames \cup EtsiSiteNames \cup EtsiPersonNames
                     \cup EtsiSitePrecertNames \cup EtsiPersonPrecertNames
  BY <1>1, EtsiNamesInFull DEF PkilintDictionary
<1>2. CASE p \in TlsLeafNames \cup TlsLeafPrecertNames \cup {OCSPSIGNING}
  <2>1. p \in TbrProfiles \cup TevgProfiles
    BY <1>2, TlsNamesInFull
  <2>2. p \notin {<<"tbr", "crl">>, <<"tbr", "arl">>, <<"tbr", "subordinate", "tlsserver">>,
                  <<"tevg", "root", "tlsserver">>, <<"tevg", "subordinate", "tlsserver">>}
    BY <1>2 DEF TlsLeafNames, TlsLeafPrecertNames, OCSPSIGNING
  <2> QED BY <2>1, <2>2 DEF PkilintDictionary
<1>3. CASE p \in SmimeLeafNames
  <2>1. p \in SbrProfiles
    BY <1>3 DEF SbrProfiles, SmimeLeafNames
  <2>2. p \notin {<<"sbr", "root", "smime">>, <<"sbr", "subordinate", "smime">>}
    BY <1>3 DEF SmimeLeafNames
  <2> QED BY <2>1, <2>2 DEF PkilintDictionary
<1>4. \/ p \in EtsiNcpNames \cup EtsiSiteNames \cup EtsiPersonNames
                   \cup EtsiSitePrecertNames \cup EtsiPersonPrecertNames
      \/ p \in TlsLeafNames \cup TlsLeafPrecertNames \cup {OCSPSIGNING}
      \/ p \in SmimeLeafNames
  <2>1. ASSUME NEW lists, OnlyIn(p, lists),
               "site" \notin lists, "etsi" \notin lists, "smime" \notin lists
        PROVE  FALSE
    BY <2>1 DEF OnlyIn
  <2>2. /\ \A l \in {"site", "etsi", "smime"} : l \notin {"crl"} /\ l \notin {"ocsp"}
        /\ \A l \in {"site", "etsi", "smime"} : l \notin {"root"} /\ l \notin {"subordinate"}
        /\ \A l \in {"site", "etsi", "smime"} : l \notin {"root", "tls"} /\ l \notin {"subordinate", "tls"}
        /\ \A l \in {"site", "etsi", "smime"} : l \notin {"precertificate"}
    OBVIOUS
  <2>3. p \notin {OCSPRESPONSE} \cup CrlNames \cup OtherRootNames \cup OtherSubordinateNames
                     \cup OtherLeafNames \cup TlsRootNames \cup TlsSubordinateNames \cup TlsSideNames
                     \cup MarkNames \cup MarkPrecertNames
    BY <2>1, <2>2, ListsOfNames
  <2> QED BY <2>3, NamesInFull DEF PlainNames, PrecertNames
<1> QED BY <1>1, <1>2, <1>3, <1>4

\* What detection chooses for a certificate is a profile of certificates: one of roots for a
\* root, of subordinates for a subordinate and of neither for a leaf, of TLS leaves for leaves
\* only, and of precertificates for leaves with the poison only.
LEMMA CertificateDetected ==
    ASSUME NEW c \in Features
    PROVE  LET p == CertificateProfile(c)
               leaf == ~IsRootCertificate(c) /\ ~c.ca
           IN  /\ p \in AllProfiles /\ p # AUTODETECT
               /\ p \notin CrlProfileIDs /\ p \notin OcspProfileIDs
               /\ p \in RootProfileIDs <=> IsRootCertificate(c)
               /\ p \in SubordinateProfileIDs <=> (~IsRootCertificate(c) /\ c.ca)
               /\ p \in TbrTevgLeafProfileIDs => leaf
               /\ p \in PrecertificateProfileIDs => leaf /\ c.poison
<1> DEFINE p == CertificateProfile(c)
           roots == OtherRootNames \cup TlsRootNames
           subordinates == OtherSubordinateNames \cup TlsSubordinateNames
<1>1. AUTODETECT \notin roots \cup subordinates \cup BothLeafNames \cup PlainNames \cup PrecertNames
  BY DEF AUTODETECT, OtherRootNames, TlsRootNames, OtherSubordinateNames, TlsSubordinateNames,
         BothLeafNames, OtherLeafNames, SmimeLeafNames, OCSPSIGNING, PlainNames, PrecertNames,
         EtsiSiteNames, EtsiPersonNames, TlsLeafNames, MarkNames, EtsiSitePrecertNames,
         EtsiPersonPrecertNames, TlsLeafPrecertNames, MarkPrecertNames
<1>2. CASE IsRootCertificate(c)
  <2>1. p \in roots
    BY <1>2, RootDetected DEF CertificateProfile
  <2>2. OnlyIn(p, {"root"}) \/ OnlyIn(p, {"root", "tls"})
    BY <2>1, ListsOfNames
  <2>3. p \in AllProfiles /\ p # AUTODETECT
    BY <1>1, <2>1, NamesInFull
  <2> HIDE DEF p
  <2> QED BY <1>2, <2>2, <2>3 DEF OnlyIn, p
<1>3. CASE ~IsRootCertificate(c) /\ c.ca
  <2>1. p \in subordinates
    BY <1>3, SubordinateDetected DEF CertificateProfile, Features
  <2>2. OnlyIn(p, {"subordinate"}) \/ OnlyIn(p, {"subordinate", "tls"})
    BY <2>1, ListsOfNames
  <2>3. p \in AllProfiles /\ p # AUTODETECT
    BY <1>1, <2>1, NamesInFull
  <2> QED BY <1>3, <2>2, <2>3 DEF OnlyIn
<1>4. CASE ~IsRootCertificate(c) /\ ~c.ca
  <2>1. p \in LeafNames(c)
    BY <1>4, LeafDetected DEF CertificateProfile
  <2>2. CASE p \in BothLeafNames
    <3>1. OnlyIn(p, {}) \/ OnlyIn(p, {"smime"}) \/ OnlyIn(p, {"site", "tls"})
      BY <2>2, ListsOfNames DEF BothLeafNames
    <3>2. p \in AllProfiles /\ p # AUTODETECT
      BY <1>1, <2>2, NamesInFull DEF BothLeafNames
    <3> QED BY <1>4, <3>1, <3>2 DEF OnlyIn
  <2>3. CASE p \in PlainNames
    <3>1. OnlyIn(p, {"site", "etsi"}) \/ OnlyIn(p, {"etsi"}) \/ OnlyIn(p, {"site", "tls"}) \/ OnlyIn(p, {})
      BY <2>3, ListsOfNames DEF PlainNames
    <3>2. p \in AllProfiles /\ p # AUTODETECT
      BY <1>1, <2>3, NamesInFull
    <3> QED BY <1>4, <3>1, <3>2 DEF OnlyIn
  <2>4. CASE p \in PrecertNames /\ c.poison
    <3>1. \/ OnlyIn(p, {"site", "etsi", "precertificate"}) \/ OnlyIn(p, {"etsi", "precertificate"})
          \/ OnlyIn(p, {"site", "tls", "precertificate"}) \/ OnlyIn(p, {"precertificate"})
      BY <2>4, ListsOfNames DEF PrecertNames
    <3>2. p \in AllProfiles /\ p # AUTODETECT
      BY <1>1, <2>4, NamesInFull
    <3> QED BY <1>4, <2>4, <3>1, <3>2 DEF OnlyIn
  <2> QED BY <2>1, <2>2, <2>3, <2>4 DEF LeafNames
<1> QED BY <1>2, <1>3, <1>4

-----------------------------------------------------------------------------
(* A certificate and its precertificate.                                   *)

\* The profile of the precertificate for a certificate of profile p.
Twin(p)  == IF Precertificate(p) \in AllProfiles THEN Precertificate(p) ELSE p
Twins(r) == {Twin(p) : p \in r}

\* A profile whose name with the suffix is a profile too has it as its twin.
LEMMA HasTwin ==
    ASSUME NEW p \in PlainNames
    PROVE  Twin(p) = Precertificate(p)
<1>1. Precertificate(p) \in PrecertNames
  BY PrecertNamesInFull DEF PlainNames, PrecertNames
<1> QED BY <1>1, NamesInFull DEF Twin

\* Only the plain names have one: how the others begin tells.
LEMMA HasNoTwin ==
    ASSUME NEW p \in BothLeafNames \cup OtherRootNames \cup TlsRootNames
                         \cup OtherSubordinateNames \cup TlsSubordinateNames
    PROVE  Twin(p) = p
<1> DEFINE q == Precertificate(p)
           Begins(x) == /\ x[2] = "leaf"
                        /\ \/ x[1] \in {"etsi", "tevg", "bimigroup"}
                           \/ x[1] = "tbr" /\ x[3] = "tlsserver"
<1>1. \A x \in PrecertNames : Begins(x)
  BY DEF PrecertNames, EtsiSitePrecertNames, EtsiPersonPrecertNames, TlsLeafPrecertNames,
         MarkPrecertNames
<1>2. ~Begins(q) /\ Last(q) = "precertificate"
  <2>1. CASE p \in OtherRootNames \cup TlsRootNames
    BY <2>1, AppendTuples DEF Precertificate, OtherRootNames, TlsRootNames, Last
  <2>2. CASE p \in OtherSubordinateNames \cup TlsSubordinateNames
    BY <2>2, AppendTuples DEF Precertificate, OtherSubordinateNames, TlsSubordinateNames, Last
  <2>3. CASE p \in OtherLeafNames
    BY <2>3, AppendTuples DEF Precertificate, OtherLeafNames, Last
  <2>4. CASE p \in SmimeLeafNames
    BY <2>4, AppendTuples DEF Precertificate, SmimeLeafNames, Last
  <2>5. CASE p = OCSPSIGNING
    BY <2>5, AppendTuples DEF Precertificate, OCSPSIGNING, Last
  <2> QED BY <2>1, <2>2, <2>3, <2>4, <2>5 DEF BothLeafNames
<1>3. ASSUME q \in AllProfiles PROVE q \in PrecertNames
  <2>1. q \in PrecertificateProfileIDs
    BY <1>2, <1>3 DEF PrecertificateProfileIDs, EndsWith
  <2>2. q # AUTODETECT
    BY <1>2 DEF AUTODETECT, Last
  <2> HIDE DEF q
  <2>3. ASSUME NEW lists, OnlyIn(q, lists), "precertificate" \notin lists
        PROVE  FALSE
    BY <2>1, <2>3 DEF OnlyIn
  <2>4. q \notin {OCSPRESPONSE, OCSPSIGNING} \cup CrlNames \cup OtherRootNames
                     \cup OtherSubordinateNames \cup OtherLeafNames \cup TlsRootNames
                     \cup TlsSubordinateNames \cup TlsSideNames \cup SmimeLeafNames
                     \cup EtsiNcpNames \cup PlainNames
    BY <2>3, ListsOfNames DEF PlainNames
  <2> QED BY <1>3, <2>2, <2>4, NamesInFull
<1> HIDE DEF q, Begins
<1>4. q \notin AllProfiles
  BY <1>1, <1>2, <1>3
<1> QED BY <1>4 DEF Twin, q

\* A chain of twins gives the twin.
LEMMA TwinChain ==
    ASSUME NEW S, NEW steps \in Seq(S), NEW T, NEW twins \in Seq(T),
           Len(twins) = Len(steps), \A k \in 1 .. Len(steps) : twins[k] = Twins(steps[k])
    PROVE  FirstOf(twins) = Twins(FirstOf(steps))
<1> DEFINE I == {i \in 1 .. Len(steps) : steps[i] # {}}
           J == {i \in 1 .. Len(twins) : twins[i] # {}}
           hit == IF I # {} THEN Min(I) ELSE 0
           hot == IF J # {} THEN Min(J) ELSE 0
<1>1. /\ FirstOf(steps) = IF hit = 0 THEN {} ELSE steps[hit]
      /\ FirstOf(twins) = IF hot = 0 THEN {} ELSE twins[hot]
  BY DEF FirstOf, SelectInSeq
<1>2. I = J
  <2>1. ASSUME NEW r PROVE Twins(r) # {} <=> r # {}
    BY DEF Twins
  <2>2. \A k \in 1 .. Len(steps) : twins[k] # {} <=> steps[k] # {}
    BY <2>1
  <2> QED BY <2>2
<1>3. I # {} => Min(I) \in I /\ Min(I) # 0
  <2>1. I \in SUBSET Nat /\ 0 \notin I
    BY LenProperties
  <2> HIDE DEF I
  <2> QED BY <2>1, HasFirst
<1> QED BY <1>1, <1>2, <1>3 DEF Twins

\* Conditional steps under the same condition give twins.
LEMMA TwinOfWhen ==
    ASSUME NEW condition, NEW p
    PROVE  Twins(When(condition, p)) = When(condition, Twin(p))
BY DEF Twins, When

\* Results that are twins hold profiles that are twins.
LEMMA TwinOfThe ==
    ASSUME NEW X, NEW r \in Results(X), r # {}
    PROVE  The(Twins(r)) = Twin(The(r))
<1>1. PICK p \in X : r = {p}
  BY DEF Results
<1>2. Twins(r) = {Twin(p)}
  BY <1>1 DEF Twins
<1> QED BY <1>1, <1>2 DEF The

\* Two certificates that differ in the poison only.
Pair(c, d) ==
    /\ c \in Features /\ d \in Features
    /\ ~c.poison /\ d.poison
    /\ c.v3 = d.v3 /\ c.ca = d.ca /\ c.selfSigned = d.selfSigned
    /\ c.oldAlgorithm = d.oldAlgorithm /\ c.sameName = d.sameName /\ c.keyIdsDiffer = d.keyIdsDiffer
    /\ c.qc = d.qc /\ c.policies = d.policies /\ c.ekus = d.ekus
    /\ c.person = d.person /\ c.org = d.org /\ c.jurisdiction = d.jurisdiction /\ c.mark = d.mark
    /\ c.self = d.self /\ c.issuer = d.issuer

\* The names of the tables and their twins.
LEMMA TwinNames ==
    /\ \A v \in {"dv", "ov", "iv"} :
           Twin(<<"tbr", "leaf", "tlsserver", v>>) = <<"tbr", "leaf", "tlsserver", v, "precertificate">>
    /\ Twin(<<"tevg", "leaf", "tlsserver", "ev">>) = <<"tevg", "leaf", "tlsserver", "ev", "precertificate">>
    /\ \A v \in {"iv", "ov"}, law \in Laws :
           Twin(EtsiWeb(<<"qncpw", v, law>>)) = EtsiWeb(<<"qncpw", v, law, "precertificate">>)
    /\ \A law \in Laws : Twin(EtsiWeb(<<"qevcpw", law>>)) = EtsiWeb(<<"qevcpw", law, "precertificate">>)
    /\ Twin(EtsiWeb(<<"qevcpw", "psd2", "eidas">>)) = EtsiWeb(<<"qevcpw", "psd2", "eidas", "precertificate">>)
    /\ \A who \in People, law \in Laws :
           Twin(EtsiWeb(<<"qncpw", "gen", who, law>>)) =
               EtsiWeb(<<"qncpw", "gen", who, law, "precertificate">>)
<1>1. ASSUME NEW v \in {"dv", "ov", "iv"}
      PROVE  Twin(<<"tbr", "leaf", "tlsserver", v>>) = <<"tbr", "leaf", "tlsserver", v, "precertificate">>
  <2>1. <<"tbr", "leaf", "tlsserver", v>> \in PlainNames
    BY DEF PlainNames, TlsLeafNames
  <2> QED BY <2>1, HasTwin, PrecertificateOf
<1>2. Twin(<<"tevg", "leaf", "tlsserver", "ev">>) = <<"tevg", "leaf", "tlsserver", "ev", "precertificate">>
  <2>1. <<"tevg", "leaf", "tlsserver", "ev">> \in PlainNames
    BY DEF PlainNames, TlsLeafNames
  <2> QED BY <2>1, HasTwin, PrecertificateOf
<1>3. ASSUME NEW v \in {"iv", "ov"}, NEW law \in Laws
      PROVE  Twin(EtsiWeb(<<"qncpw", v, law>>)) = EtsiWeb(<<"qncpw", v, law, "precertificate">>)
  <2>1. <<"etsi", "leaf", "tlsserver", "qncpw", v, law>> \in PlainNames
    BY DEF PlainNames, EtsiSiteNames
  <2>2. EtsiWeb(<<"qncpw", v, law>>) = <<"etsi", "leaf", "tlsserver", "qncpw", v, law>>
    BY EtsiWebNames
  <2>3. EtsiWeb(<<"qncpw", v, law, "precertificate">>) = <<"etsi", "leaf", "tlsserver", "qncpw", v, law, "precertificate">>
    BY EtsiWebNames
  <2>4. Precertificate(<<"etsi", "leaf", "tlsserver", "qncpw", v, law>>) = <<"etsi", "leaf", "tlsserver", "qncpw", v, law, "precertificate">>
    BY PrecertificateOf
  <2> QED BY <2>1, <2>2, <2>3, <2>4, HasTwin
<1>4. ASSUME NEW law \in Laws
      PROVE  Twin(EtsiWeb(<<"qevcpw", law>>)) = EtsiWeb(<<"qevcpw", law, "precertificate">>)
  <2>1. <<"etsi", "leaf", "tlsserver", "qevcpw", law>> \in PlainNames
    BY DEF PlainNames, EtsiSiteNames
  <2>2. EtsiWeb(<<"qevcpw", law>>) = <<"etsi", "leaf", "tlsserver", "qevcpw", law>>
    BY EtsiWebNames
  <2>3. EtsiWeb(<<"qevcpw", law, "precertificate">>) = <<"etsi", "leaf", "tlsserver", "qevcpw", law, "precertificate">>
    BY EtsiWebNames
  <2>4. Precertificate(<<"etsi", "leaf", "tlsserver", "qevcpw", law>>) = <<"etsi", "leaf", "tlsserver", "qevcpw", law, "precertificate">>
    BY PrecertificateOf
  <2> QED BY <2>1, <2>2, <2>3, <2>4, HasTwin
<1>5. Twin(EtsiWeb(<<"qevcpw", "psd2", "eidas">>)) = EtsiWeb(<<"qevcpw", "psd2", "eidas", "precertificate">>)
  <2>1. <<"etsi", "leaf", "tlsserver", "qevcpw", "psd2", "eidas">> \in PlainNames
    BY DEF PlainNames, EtsiSiteNames
  <2>2. EtsiWeb(<<"qevcpw", "psd2", "eidas">>) = <<"etsi", "leaf", "tlsserver", "qevcpw", "psd2", "eidas">>
    BY EtsiWebNames
  <2>3. EtsiWeb(<<"qevcpw", "psd2", "eidas", "precertificate">>) = <<"etsi", "leaf", "tlsserver", "qevcpw", "psd2", "eidas", "precertificate">>
    BY EtsiWebNames
  <2>4. Precertificate(<<"etsi", "leaf", "tlsserver", "qevcpw", "psd2", "eidas">>) = <<"etsi", "leaf", "tlsserver", "qevcpw", "psd2", "eidas", "precertificate">>
    BY PrecertificateOf
  <2> QED BY <2>1, <2>2, <2>3, <2>4, HasTwin
<1>6. ASSUME NEW who \in People, NEW law \in Laws
      PROVE  Twin(EtsiWeb(<<"qncpw", "gen", who, law>>)) =
                 EtsiWeb(<<"qncpw", "gen", who, law, "precertificate">>)
  <2>1. <<"etsi", "leaf", "tlsserver", "qncpw", "gen", who, law>> \in PlainNames
    BY DEF PlainNames, EtsiPersonNames
  <2>2. EtsiWeb(<<"qncpw", "gen", who, law>>) = <<"etsi", "leaf", "tlsserver", "qncpw", "gen", who, law>>
    BY EtsiWebNames
  <2>3. EtsiWeb(<<"qncpw", "gen", who, law, "precertificate">>) = <<"etsi", "leaf", "tlsserver", "qncpw", "gen", who, law, "precertificate">>
    BY EtsiWebNames
  <2>4. Precertificate(<<"etsi", "leaf", "tlsserver", "qncpw", "gen", who, law>>) = <<"etsi", "leaf", "tlsserver", "qncpw", "gen", who, law, "precertificate">>
    BY PrecertificateOf
  <2> QED BY <2>1, <2>2, <2>3, <2>4, HasTwin
<1> QED BY <1>1, <1>2, <1>3, <1>4, <1>5, <1>6

\* What qualification tells of two certificates that differ in the poison only.
LEMMA TwinQualified ==
    ASSUME NEW c, NEW d, Pair(c, d)
    PROVE  /\ IsEidasQualified(c) <=> IsEidasQualified(d)
           /\ IsQualified(c) <=> IsQualified(d)
           /\ IsPSD2(c) <=> IsPSD2(d)
           /\ HasAnyOrNoEKU(c) <=> HasAnyOrNoEKU(d)
BY DEF Pair, IsEidasQualified, IsQualified, IsPSD2, HasAnyOrNoEKU

\* The two tables by policy have the same rows.
LEMMA TwinTables ==
    ASSUME NEW c, NEW d, Pair(c, d), NEW policy
    PROVE  TlsPolicyPrecertProfile(policy, d) = Twins(TlsPolicyProfile(policy, c))
<1> USE TwinQualified DEF TlsPolicyPrecertProfile, TlsPolicyProfile, ByQualification, Twins
<1>1. CASE policy = <<"tls", "dv">>
  BY <1>1, TwinNames
<1>2. CASE policy = <<"tls", "ov">>
  BY <1>2, TwinNames DEF Laws
<1>3. CASE policy = <<"tls", "iv">>
  BY <1>3, TwinNames DEF Laws
<1>4. CASE policy = <<"tls", "ev">>
  BY <1>4, TwinNames DEF Laws
<1>5. CASE policy \notin {<<"tls", "dv">>, <<"tls", "ov">>, <<"tls", "iv">>, <<"tls", "ev">>}
  BY <1>5
<1> QED BY <1>1, <1>2, <1>3, <1>4, <1>5

\* A policy leads a certificate and its precertificate to twins.
LEMMA TwinOfPolicy ==
    ASSUME NEW c, NEW d, Pair(c, d), NEW policy \in Policies
    PROVE  LeafPolicyProfile(policy, d) = Twins(LeafPolicyProfile(policy, c))
<1> DEFINE smime == <<"sbr", "leaf">> \o policy
           signs == <<"csbr", "leaf", "codesigning">> \o Tail(policy)
           stamps == <<"csbr", "leaf", "timestamping">>
           levels == Head(policy) = "smime" /\ Len(policy) = 3
           sign == Head(policy) = "cs"
           stamp == Head(policy) = "ts"
           steps == <<TlsPolicyProfile(policy, c), When(levels, smime),
                      When(sign, signs), When(stamp, stamps)>>
           twins == <<TlsPolicyPrecertProfile(policy, d), When(levels, smime),
                      When(sign, signs), When(stamp, stamps)>>
<1>1. /\ LeafPolicyProfile(policy, c) = FirstOf(steps)
      /\ LeafPolicyProfile(policy, d) = FirstOf(twins)
  BY DEF LeafPolicyProfile, Pair
<1>2. levels => Twin(smime) = smime
  <2>1. ASSUME levels PROVE smime \in SmimeLeafNames
    <3>1. PICK v \in {"mv", "ov", "sv", "iv"}, g \in {"legacy", "multipurpose", "strict"} :
             policy = <<"smime", v, g>>
      BY <2>1 DEF Policies
    <3> QED BY <3>1, OtherNames DEF SmimeLeafNames
  <2> HIDE DEF levels, smime
  <2> QED BY <2>1, HasNoTwin DEF BothLeafNames
<1>3. sign => Twin(signs) = signs
  <2>1. ASSUME sign PROVE signs \in OtherLeafNames
    <3>1. PICK v \in {"ov", "ev"} : policy = <<"cs", v>>
      BY <2>1 DEF Policies
    <3>2. Tail(policy) = <<v>>
      BY <3>1
    <3> QED BY <3>2, OtherNames DEF OtherLeafNames
  <2> HIDE DEF sign, signs
  <2> QED BY <2>1, HasNoTwin DEF BothLeafNames
<1>4. Twin(stamps) = stamps
  <2>1. stamps \in OtherLeafNames
    BY DEF OtherLeafNames
  <2> HIDE DEF stamps
  <2> QED BY <2>1, HasNoTwin DEF BothLeafNames
<1>5. /\ Twins(When(levels, smime)) = When(levels, smime)
      /\ Twins(When(sign, signs)) = When(sign, signs)
      /\ Twins(When(stamp, stamps)) = When(stamp, stamps)
  <2> HIDE DEF levels, smime, sign, signs, stamp, stamps
  <2> QED BY <1>2, <1>3, <1>4 DEF Twins, When
<1>6. FirstOf(twins) = Twins(FirstOf(steps))
  <2> DEFINE S == {steps[1], steps[2], steps[3], steps[4]}
             T == {twins[1], twins[2], twins[3], twins[4]}
  <2> HIDE DEF levels, smime, sign, signs, stamp, stamps
  <2>1. steps \in Seq(S) /\ twins \in Seq(T) /\ Len(steps) = 4 /\ Len(twins) = 4
    OBVIOUS
  <2>2. /\ twins[1] = Twins(steps[1]) /\ twins[2] = Twins(steps[2])
        /\ twins[3] = Twins(steps[3]) /\ twins[4] = Twins(steps[4])
    BY <1>5, TwinTables
  <2> HIDE DEF steps, twins, S, T
  <2>3. \A k \in 1 .. Len(steps) : twins[k] = Twins(steps[k])
    BY <2>1, <2>2
  <2> QED BY <2>1, <2>3, TwinChain
<1> QED BY <1>1, <1>6

\* The subject attributes of a natural person lead them to twins.
LEMMA TwinOfPerson ==
    ASSUME NEW c, NEW d, Pair(c, d)
    PROVE  PersonPrecertProfile(d) = Twins(PersonProfile(c))
<1> DEFINE who == IF c.person THEN "naturalperson" ELSE "legalperson"
           eidas == EtsiWeb(<<"qncpw", "gen", who, "eidas">>)
           nonEidas == EtsiWeb(<<"qncpw", "gen", who, "noneidas">>)
           eidasPre == EtsiWeb(<<"qncpw", "gen", who, "eidas", "precertificate">>)
           nonEidasPre == EtsiWeb(<<"qncpw", "gen", who, "noneidas", "precertificate">>)
           steps == <<When(IsEidasQualified(c), eidas), When(IsQualified(c), nonEidas)>>
           twins == <<When(IsEidasQualified(d), eidasPre), When(IsQualified(d), nonEidasPre)>>
<1>1. PersonProfile(c) = FirstOf(steps) /\ PersonPrecertProfile(d) = FirstOf(twins)
  BY DEF PersonProfile, PersonPrecertProfile, Pair
<1>2. Twin(eidas) = eidasPre /\ Twin(nonEidas) = nonEidasPre
  <2>1. who \in People /\ "eidas" \in Laws /\ "noneidas" \in Laws
    BY DEF People, Laws
  <2> HIDE DEF who
  <2> QED BY <2>1, TwinNames
<1>3. FirstOf(twins) = Twins(FirstOf(steps))
  <2> DEFINE S == {steps[1], steps[2]}
             T == {twins[1], twins[2]}
  <2> HIDE DEF eidas, nonEidas, eidasPre, nonEidasPre
  <2>1. steps \in Seq(S) /\ twins \in Seq(T) /\ Len(steps) = 2 /\ Len(twins) = 2
    OBVIOUS
  <2>2. twins[1] = Twins(steps[1]) /\ twins[2] = Twins(steps[2])
    BY <1>2, TwinQualified DEF Twins, When
  <2> HIDE DEF steps, twins, S, T
  <2>3. \A k \in 1 .. Len(steps) : twins[k] = Twins(steps[k])
    BY <2>1, <2>2
  <2> QED BY <2>1, <2>3, TwinChain
<1> QED BY <1>1, <1>3

\* What CCADB lists of their issuer leads them to twins.
LEMMA TwinOfIssuer ==
    ASSUME NEW c, NEW d, Pair(c, d)
    PROVE  LeafIssuerProfile(d) = Twins(LeafIssuerProfile(c))
<1> DEFINE Eku(e) == e \in c.ekus \/ HasAnyOrNoEKU(c)
           ev == Eku("serverAuth") /\ "ev" \in c.issuer
           tls == Eku("serverAuth") /\ "tls" \in c.issuer
           ocsp == "ocspSigning" \in c.ekus /\ "tls" \in c.issuer
           signs == Eku("codeSigning") /\ "cs" \in c.issuer
           stamps == "timeStamping" \in c.ekus /\ c.issuer # {}
           bimi == "bimi" \in c.ekus /\ c.issuer # {} /\ c.mark # "none"
           mark == <<"bimigroup", "leaf", c.mark>>
           Chained(Pre(_)) ==
             <<When(ev,                     Pre(<<"tevg", "leaf", "tlsserver", "ev">>)),
               When(tls /\ c.person,        Pre(<<"tbr", "leaf", "tlsserver", "iv">>)),
               When(tls /\ c.org,           Pre(<<"tbr", "leaf", "tlsserver", "ov">>)),
               When(tls,                    Pre(<<"tbr", "leaf", "tlsserver", "dv">>)),
               When(ocsp,                   <<"tbr", "leaf", "ocspsigning">>),
               When(signs /\ c.jurisdiction, <<"csbr", "leaf", "codesigning", "ev">>),
               When(signs /\ c.org,         <<"csbr", "leaf", "codesigning", "ov">>),
               When(stamps,                 <<"csbr", "leaf", "timestamping">>),
               When(bimi,                   Pre(mark))>>
           Same(p) == p
           steps == Chained(Same)
           twins == Chained(Precertificate)
<1>1. LeafIssuerProfile(c) = FirstOf(steps) /\ LeafIssuerProfile(d) = FirstOf(twins)
  <2>1. HasAnyOrNoEKU(c) <=> HasAnyOrNoEKU(d)
    BY TwinQualified
  <2> QED BY <2>1 DEF LeafIssuerProfile, Pair
<1>2. /\ Twin(<<"tevg", "leaf", "tlsserver", "ev">>) = Precertificate(<<"tevg", "leaf", "tlsserver", "ev">>)
      /\ Twin(<<"tbr", "leaf", "tlsserver", "iv">>) = Precertificate(<<"tbr", "leaf", "tlsserver", "iv">>)
      /\ Twin(<<"tbr", "leaf", "tlsserver", "ov">>) = Precertificate(<<"tbr", "leaf", "tlsserver", "ov">>)
      /\ Twin(<<"tbr", "leaf", "tlsserver", "dv">>) = Precertificate(<<"tbr", "leaf", "tlsserver", "dv">>)
  BY HasTwin DEF PlainNames, TlsLeafNames
<1>3. bimi => Twin(mark) = Precertificate(mark)
  <2>1. bimi => mark \in PlainNames
    BY DEF PlainNames, MarkNames, Pair, Features
  <2> HIDE DEF bimi, mark
  <2> QED BY <2>1, HasTwin
<1>4. /\ Twin(<<"tbr", "leaf", "ocspsigning">>) = <<"tbr", "leaf", "ocspsigning">>
      /\ Twin(<<"csbr", "leaf", "codesigning", "ev">>) = <<"csbr", "leaf", "codesigning", "ev">>
      /\ Twin(<<"csbr", "leaf", "codesigning", "ov">>) = <<"csbr", "leaf", "codesigning", "ov">>
      /\ Twin(<<"csbr", "leaf", "timestamping">>) = <<"csbr", "leaf", "timestamping">>
  <2>1. /\ <<"tbr", "leaf", "ocspsigning">> \in BothLeafNames
        /\ <<"csbr", "leaf", "codesigning", "ev">> \in BothLeafNames
        /\ <<"csbr", "leaf", "codesigning", "ov">> \in BothLeafNames
        /\ <<"csbr", "leaf", "timestamping">> \in BothLeafNames
    BY DEF BothLeafNames, OtherLeafNames, OCSPSIGNING
  <2> QED BY <2>1, HasNoTwin
<1>5. Twins(When(bimi, mark)) = When(bimi, Precertificate(mark))
  <2> HIDE DEF bimi, mark
  <2> QED BY <1>3 DEF Twins, When
<1>6. FirstOf(twins) = Twins(FirstOf(steps))
  <2> DEFINE S == {steps[1], steps[2], steps[3], steps[4], steps[5], steps[6], steps[7], steps[8], steps[9]}
             T == {twins[1], twins[2], twins[3], twins[4], twins[5], twins[6], twins[7], twins[8], twins[9]}
  <2> HIDE DEF Eku, ev, tls, ocsp, signs, stamps, bimi, mark
  <2>1. steps \in Seq(S) /\ twins \in Seq(T) /\ Len(steps) = 9 /\ Len(twins) = 9
    OBVIOUS
  <2>2. /\ twins[1] = Twins(steps[1]) /\ twins[2] = Twins(steps[2]) /\ twins[3] = Twins(steps[3])
        /\ twins[4] = Twins(steps[4]) /\ twins[5] = Twins(steps[5]) /\ twins[6] = Twins(steps[6])
        /\ twins[7] = Twins(steps[7]) /\ twins[8] = Twins(steps[8]) /\ twins[9] = Twins(steps[9])
    BY <1>2, <1>4, <1>5, TwinOfWhen
  <2> HIDE DEF steps, twins, S, T
  <2>3. \A k \in 1 .. Len(steps) : twins[k] = Twins(steps[k])
    BY <2>1, <2>2
  <2> QED BY <2>1, <2>3, TwinChain
<1> QED BY <1>1, <1>6

\* The usages alone give no profile with a twin.
LEMMA TwinOfUsage ==
    ASSUME NEW c, NEW d, Pair(c, d)
    PROVE  LeafUsageProfile(d) = Twins(LeafUsageProfile(c))
<1>1. LeafUsageProfile(d) = LeafUsageProfile(c)
  BY DEF LeafUsageProfile, Pair
<1> DEFINE steps == <<When("serverAuth" \in c.ekus,      <<"rfc5280", "leaf", "tlsserver">>),
                      When("emailProtection" \in c.ekus, <<"rfc5280", "leaf", "smime">>),
                      When("codeSigning" \in c.ekus,     <<"rfc5280", "leaf", "codesigning">>),
                      When("timeStamping" \in c.ekus,    <<"rfc5280", "leaf", "timestamping">>),
                      When("ocspSigning" \in c.ekus,     <<"rfc5280", "leaf", "ocspsigning">>),
                      When("documentSigning" \in c.ekus, <<"rfc5280", "leaf", "documentsigning">>),
                      When("clientAuth" \in c.ekus,      <<"rfc5280", "leaf", "tlsclient">>),
                      {<<"rfc5280", "leaf">>}>>
<1>2. /\ \A use \in {"tlsclient", "tlsserver", "smime", "codesigning", "timestamping",
                     "documentsigning", "ocspsigning"} : <<"rfc5280", "leaf", use>> \in OtherLeafNames
      /\ <<"rfc5280", "leaf">> \in OtherLeafNames
  BY DEF OtherLeafNames
<1>3. steps \in Seq(Results(OtherLeafNames))
  BY <1>2, WhenAmong, OneAmong
<1>4. FirstOf(steps) \in Results(OtherLeafNames)
  <2> HIDE DEF steps
  <2> QED BY <1>3, ChainAmong
<1>5. \A p \in OtherLeafNames : Twin(p) = p
  BY HasNoTwin DEF BothLeafNames
<1>6. Twins(FirstOf(steps)) = FirstOf(steps)
  <2> HIDE DEF steps
  <2> QED BY <1>4, <1>5 DEF Results, Twins
<1> QED BY <1>1, <1>6 DEF LeafUsageProfile

\* The whole chain for a leaf leads them to twins.
LEMMA TwinOfLeaf ==
    ASSUME NEW c, NEW d, Pair(c, d)
    PROVE  LeafCertificateProfile(d) = Twin(LeafCertificateProfile(c))
<1> DEFINE OfC(policy) == LeafPolicyProfile(policy, c)
           OfD(policy) == LeafPolicyProfile(policy, d)
           policyC == FirstPolicy(c.policies, OfC)
           policyD == FirstPolicy(d.policies, OfD)
           personC == IF "serverAuth" \notin c.ekus THEN {} ELSE PersonProfile(c)
           personD == IF "serverAuth" \notin d.ekus THEN {} ELSE PersonPrecertProfile(d)
           steps == <<policyC, personC, LeafIssuerProfile(c), LeafUsageProfile(c)>>
           twins == <<policyD, personD, LeafIssuerProfile(d), LeafUsageProfile(d)>>
<1>1. /\ LeafCertificateProfile(c) = The(FirstOf(steps))
      /\ LeafCertificateProfile(d) = The(FirstOf(twins))
  BY DEF LeafCertificateProfile, Pair
<1>2. policyD = Twins(policyC)
  <2> DEFINE f == [i \in DOMAIN c.policies |-> LeafPolicyProfile(c.policies[i], c)]
             g == [i \in DOMAIN c.policies |-> LeafPolicyProfile(c.policies[i], d)]
             S == {f[i] : i \in 1 .. Len(c.policies)}
             T == {g[i] : i \in 1 .. Len(c.policies)}
  <2>1. c.policies \in Seq(Policies) /\ d.policies = c.policies
    BY DEF Pair, Features
  <2>2. Len(c.policies) \in Nat /\ DOMAIN c.policies = 1 .. Len(c.policies)
    BY <2>1, LenProperties
  <2>3. policyC = FirstOf(f) /\ policyD = FirstOf(g)
    BY <2>1 DEF FirstPolicy
  <2>4. \A i \in 1 .. Len(c.policies) : g[i] = Twins(f[i])
    BY <2>1, <2>2, TwinOfPolicy, ElementOfSeq
  <2>5. f \in Seq(S) /\ g \in Seq(T) /\ Len(f) = Len(c.policies) /\ Len(g) = Len(c.policies)
    BY <2>2
  <2> HIDE DEF policyC, policyD, f, g, S, T
  <2> QED BY <2>3, <2>4, <2>5, TwinChain
<1>3. personD = Twins(personC)
  <2>1. c.ekus = d.ekus
    BY DEF Pair
  <2>2. Twins({}) = {}
    BY DEF Twins
  <2> QED BY <2>1, <2>2, TwinOfPerson
<1>4. FirstOf(twins) = Twins(FirstOf(steps))
  <2> DEFINE S == {steps[1], steps[2], steps[3], steps[4]}
             T == {twins[1], twins[2], twins[3], twins[4]}
  <2> HIDE DEF policyC, policyD, personC, personD
  <2>1. steps \in Seq(S) /\ twins \in Seq(T) /\ Len(steps) = 4 /\ Len(twins) = 4
    OBVIOUS
  <2>2. /\ twins[1] = Twins(steps[1]) /\ twins[2] = Twins(steps[2])
        /\ twins[3] = Twins(steps[3]) /\ twins[4] = Twins(steps[4])
    BY <1>2, <1>3, TwinOfIssuer, TwinOfUsage
  <2> HIDE DEF steps, twins, S, T
  <2>3. \A k \in 1 .. Len(steps) : twins[k] = Twins(steps[k])
    BY <2>1, <2>2
  <2> QED BY <2>1, <2>3, TwinChain
<1>5. FirstOf(steps) = LeafResult(c)
  BY DEF LeafResult, Pair
<1>6. LeafResult(c) \in Results(LeafNames(c)) /\ LeafResult(c) # {}
  BY LeafResultAmong DEF Pair
<1> HIDE DEF steps, twins
<1> QED BY <1>1, <1>4, <1>5, <1>6, TwinOfThe

\* The precertificate of a certificate gets the twin of the certificate's profile.
LEMMA TwinDetected ==
    ASSUME NEW c, NEW d, Pair(c, d)
    PROVE  CertificateProfile(d) = Twin(CertificateProfile(c))
<1>1. /\ IsRootCertificate(d) <=> IsRootCertificate(c)
      /\ d.ca <=> c.ca
  BY DEF IsRootCertificate, Pair
<1>2. CASE IsRootCertificate(c)
  <2>1. RootCertificateProfile(d) = RootCertificateProfile(c)
    BY DEF RootCertificateProfile, Pair
  <2>2. Twin(RootCertificateProfile(c)) = RootCertificateProfile(c)
    BY RootDetected, HasNoTwin
  <2> QED BY <1>1, <1>2, <2>1, <2>2 DEF CertificateProfile
<1>3. CASE ~IsRootCertificate(c) /\ c.ca
  <2>1. SubordinateCertificateProfile(d) = SubordinateCertificateProfile(c)
    BY DEF SubordinateCertificateProfile, SubordinateIssuerProfile, HasAnyOrNoEKU, Pair
  <2>2. Twin(SubordinateCertificateProfile(c)) = SubordinateCertificateProfile(c)
    BY SubordinateDetected, HasNoTwin DEF Pair, Features
  <2> QED BY <1>1, <1>3, <2>1, <2>2 DEF CertificateProfile
<1>4. CASE ~IsRootCertificate(c) /\ ~c.ca
  BY <1>1, <1>4, TwinOfLeaf DEF CertificateProfile
<1> QED BY <1>2, <1>3, <1>4
=============================================================================
