-------------------------- MODULE PGT2ACMPGProofs --------------------------
(***************************************************************************)
(* What PGT2ACMPG promises of any directory of templates, any source CRs   *)
(* and any number of runs and failing file operations.                     *)
(***************************************************************************)
EXTENDS PGT2ACMPG, SequenceTheorems, WellFoundedInduction, TLAPS

(* Least and greatest numbers.                                             *)
LEMMA Least == ASSUME NEW T, T \subseteq Nat, T # {} PROVE \E x \in T : \A y \in T : x <= y
<1> DEFINE R == {p \in Nat \X Nat : p[1] < p[2]}
<1>1. IsWellFoundedOn(R, Nat)
  BY NatLessThanWellFounded DEF OpToRel
<1>2. \A x, y \in Nat : y < x => <<y, x>> \in R
  OBVIOUS
<1> HIDE DEF R
<1>3. PICK x \in T : \A y \in T : ~ (<<y, x>> \in R)
  BY <1>1, WFMin
<1>4. ASSUME NEW y \in T PROVE x <= y
  <2>1. x \in Nat /\ y \in Nat
    OBVIOUS
  <2>2. ~ (y < x)
    BY <1>2, <1>3, <2>1
  <2> QED BY <2>1, <2>2
<1> QED BY <1>4

LEMMA MinProperties ==
  ASSUME NEW T, T \subseteq Nat, T # {}
  PROVE  Min(T) \in T /\ \A y \in T : Min(T) <= y
  BY Least DEF Min

LEMMA MaxProperties ==
  ASSUME NEW n \in Nat, NEW T, T \subseteq 1..n, T # {}
  PROVE  Max(T) \in T /\ \A y \in T : y <= Max(T)
<1> DEFINE U == {n - x : x \in T}
<1>1. \A x \in T : x \in Nat /\ n - x \in Nat /\ n - x \in U
  OBVIOUS
<1>2. U \subseteq Nat /\ U # {}
  BY <1>1
<1>3. \A u \in U : \E x \in T : u = n - x
  OBVIOUS
<1> HIDE DEF U
<1>4. PICK u \in U : \A v \in U : u <= v
  BY <1>2, Least
<1>5. PICK x \in T : u = n - x
  BY <1>3
<1>6. \A y \in T : x >= y
  <2> SUFFICES ASSUME NEW y \in T PROVE x >= y
    OBVIOUS
  <2>1. n - x <= n - y
    BY <1>1, <1>4, <1>5
  <2> QED BY <2>1, <1>1
<1>7. \E z \in T : \A y \in T : z >= y
  BY <1>6
<1>8. Max(T) \in T /\ \A y \in T : Max(T) >= y
  BY <1>7 DEF Max
<1> QED BY <1>1, <1>8

-----------------------------------------------------------------------------
(* The rendering of lines.                                                 *)
LEMMA DocumentLines ==
  ASSUME NEW lines \in Document
  PROVE  /\ Len(lines) \in Nat /\ DOMAIN lines = 1..Len(lines)
         /\ \A i \in DOMAIN lines : lines[i] = [indent |-> lines[i].indent, kind |-> lines[i].kind]
         /\ \A i \in DOMAIN lines : lines[i].indent \in Nat /\ lines[i].kind \in Kinds
<1> DEFINE L == [indent : Nat, kind : Kinds]
<1>1. \A r \in L : r = [indent |-> r.indent, kind |-> r.kind] /\ r.indent \in Nat /\ r.kind \in Kinds
  OBVIOUS
<1> HIDE DEF L
<1>2. lines \in Seq(L)
  BY DEF Document, L
<1>3. Len(lines) \in Nat /\ DOMAIN lines = 1..Len(lines) /\ \A i \in DOMAIN lines : lines[i] \in L
  BY <1>2
<1> QED BY <1>1, <1>3

LEMMA RenderedLines ==
  ASSUME NEW lines \in Document
  PROVE  /\ CommentOutLinesWithPlaceholders(lines) \in Document
         /\ \A i \in DOMAIN CommentOutLinesWithPlaceholders(lines) :
               CommentOutLinesWithPlaceholders(lines)[i].kind \notin Placeholders
<1> DEFINE rendered == CommentOutLinesWithPlaceholders(lines)
           L == [indent : Nat, kind : Kinds]
<1>1. Len(lines) \in Nat /\ DOMAIN lines = 1..Len(lines) /\ \A i \in DOMAIN lines : lines[i] \in L
  BY DocumentLines
<1>2. \A i \in DOMAIN lines : [lines[i] EXCEPT !.kind = "comment"] \in L
  <2> TAKE i \in DOMAIN lines
  <2>1. [lines[i] EXCEPT !.kind = "comment"] = [indent |-> lines[i].indent, kind |-> "comment"]
    BY DocumentLines
  <2>2. lines[i].indent \in Nat
    BY DocumentLines
  <2>3. [indent |-> lines[i].indent, kind |-> "comment"] \in L
    BY <2>2 DEF Kinds
  <2> QED BY <2>1, <2>3
<1>3. rendered \in [1..Len(lines) -> L]
  BY <1>1, <1>2 DEF CommentOutLinesWithPlaceholders
<1>4. rendered \in Seq(L)
  <2> HIDE DEF rendered, L
  <2> QED BY <1>1, <1>3, SeqDef
<1>5. \A i \in DOMAIN rendered : rendered[i].kind \notin Placeholders
  BY <1>1 DEF CommentOutLinesWithPlaceholders, Placeholders, ListPlaceholders
<1> QED BY <1>4, <1>5 DEF Document

LEMMA NothingToRender ==
  ASSUME NEW lines \in Document, \A i \in DOMAIN lines : lines[i].kind \notin Placeholders
  PROVE  CommentOutLinesWithPlaceholders(lines) = lines
<1>1. ParentsOut(lines) = {}
  BY DEF ParentsOut, Placeholders
<1>2. lines = [i \in DOMAIN lines |-> lines[i]]
  BY DEF Document
<1> QED BY <1>1, <1>2 DEF CommentOutLinesWithPlaceholders

LEMMA RenderedTwice ==
  ASSUME NEW lines \in Document
  PROVE  CommentOutLinesWithPlaceholders(CommentOutLinesWithPlaceholders(lines))
         = CommentOutLinesWithPlaceholders(lines)
  BY RenderedLines, NothingToRender

(* "Only comments out the parent if the placeholder is its sole child": so *)
(* it is for every document without a list written flush with its key.     *)
THEOREM OnlySoleChildrensParents ==
  ASSUME NEW lines \in Document, ~ FlushList(lines)
  PROVE  RealLinesKept(lines, CommentOutLinesWithPlaceholders(lines))
<1> DEFINE n == Len(lines)
           rendered == CommentOutLinesWithPlaceholders(lines)
<1>0. n \in Nat /\ DOMAIN lines = 1..n /\ \A j \in 1..n : lines[j].indent \in Nat
  BY DocumentLines
<1> SUFFICES ASSUME NEW p \in DOMAIN lines, rendered[p].kind = "comment",
                    lines[p].kind \notin Placeholders \union {"comment"}
             PROVE  /\ lines[p].kind = "key"
                    /\ \A i \in Under(lines, p) : lines[i].kind \in Placeholders \union {"comment"}
  BY DEF RealLinesKept
<1>1. p \in ParentsOut(lines)
  BY <1>0 DEF CommentOutLinesWithPlaceholders
<1>2. PICK k \in DOMAIN lines : /\ lines[k].kind \in ListPlaceholders
                                /\ p = ParentIdx(lines, k) /\ ParentIdx(lines, k) # 0
                                /\ SoleChild(lines, p, k)
  BY <1>1 DEF ParentsOut
<1> DEFINE above == {j \in 1..k - 1 : lines[j].kind # "comment"}
           below == {j \in k + 1..n : lines[j].kind \notin ListPlaceholders \union {"comment"}}
<1>3. above # {} /\ p = Max(above) /\ lines[p].kind = "key"
  BY <1>2 DEF ParentIdx
<1>4. p \in above /\ \A j \in above : j <= p
  <2>1. k - 1 \in Nat /\ above \subseteq 1..k - 1
    BY <1>0
  <2> HIDE DEF above
  <2> QED BY <1>3, <2>1, MaxProperties
<1>5. \A j \in p + 1..k - 1 : lines[j].kind = "comment"
  BY <1>4, <1>0
<1>6. ASSUME NEW i \in Under(lines, p), lines[i].kind \notin Placeholders \union {"comment"} PROVE FALSE
  <2>1. i \in p + 1..n
    BY <1>6, <1>0 DEF Under
  <2>2. i > k
    BY <1>0, <1>2, <1>5, <1>6, <2>1 DEF Placeholders
  <2>3. i \in below
    BY <1>0, <1>6, <2>1, <2>2 DEF Placeholders
  <2>4. Min(below) \in below /\ Min(below) <= i
    <3>1. below \subseteq Nat
      BY <1>0
    <3> HIDE DEF below
    <3> QED BY <2>3, <3>1, MinProperties
  <2> DEFINE m == Min(below)
  <2>5. lines[m].indent <= lines[p].indent
    BY <1>2, <2>3 DEF SoleChild
  <2> HIDE DEF m
  <2>6. m \in p + 1..i /\ m \in 1..n
    <3>1. m \in k + 1..n /\ m <= i
      BY <2>4 DEF m
    <3>2. p \in 1..k - 1 /\ k \in 1..n
      BY <1>0, <1>4
    <3> QED BY <1>0, <2>1, <3>1, <3>2
  <2>7. \A j \in p + 1..m : j \in p + 1..i
    BY <1>0, <2>1, <2>6
  <2>8. m \in Under(lines, p)
    BY <1>0, <1>6, <2>1, <2>6, <2>7 DEF Under
  <2>9. lines[m].kind \in Items /\ lines[m].indent = lines[p].indent
    <3>1. lines[m].kind # "comment" /\ ~ (lines[m].indent > lines[p].indent)
      BY <1>0, <2>4, <2>5, <2>6 DEF m
    <3> QED BY <3>1, <1>6, <2>6 DEF Under
  <2> QED BY <1>0, <1>3, <2>6, <2>8, <2>9 DEF FlushList
<1> QED BY <1>3, <1>6

-----------------------------------------------------------------------------
(* A file below source-crs.  IsCR: it is a CR, of lines.                   *)
IsCR(cr) ==
    /\ cr = [kind |-> cr.kind, named |-> cr.named, wave |-> cr.wave,
             mcp |-> cr.mcp, body |-> cr.body, items |-> cr.items]
    /\ cr.body \in Document /\ IsInjective(cr.items) /\ cr.items \in Seq(STRING)

SameCR(cr, orig) ==
    cr.kind = orig.kind /\ cr.named = orig.named /\ cr.wave = orig.wave /\ cr.items = orig.items

(* <file>.yaml is a copy of the source CR of one of the versions, rendered *)
(* or not; one that needs a pool is never rendered in place.               *)
Plain(c, f, cr) ==
    \E version \in {c.crs, c.newer} :
        /\ f \in DOMAIN version /\ SameCR(cr, version[f]) /\ cr.mcp = version[f].mcp
        /\ cr.mcp \in {"none", "$mcp"}
        /\ \/ cr.body = version[f].body
           \/ cr.mcp = "none" /\ cr.body = CommentOutLinesWithPlaceholders(version[f].body)

(* <file>-MCP-<mcp>.yaml is the <file>.yaml next to it for that pool,      *)
(* rendered, or with its placeholders if the rendering failed half-way.    *)
ForPool(files, p) ==
    /\ <<p[1]>> \in DOMAIN files /\ files[<<p[1]>>].mcp = "$mcp" /\ p[2] # "$mcp"
    /\ SameCR(files[p], files[<<p[1]>>]) /\ files[p].mcp = p[2]
    /\ files[p].body \in {files[<<p[1]>>].body, CommentOutLinesWithPlaceholders(files[<<p[1]>>].body)}

FileOK(c, files, p) ==
    /\ IsCR(files[p])
    /\ \/ p = <<p[1]>> /\ Plain(c, p[1], files[p])
       \/ p = <<p[1], p[2]>> /\ ForPool(files, p)

OutOK(c, o) == \A d \in DOMAIN o : \A p \in DOMAIN o[d] : FileOK(c, o[d], p)

(* What may happen to the files: there are more of them, and one that was  *)
(* there is rendered, or as it was.                                        *)
DirGrows(files, new) ==
    /\ DOMAIN files \subseteq DOMAIN new
    /\ \A p \in DOMAIN files :
          /\ SameCR(new[p], files[p]) /\ new[p].mcp = files[p].mcp
          /\ new[p].body \in {files[p].body, CommentOutLinesWithPlaceholders(files[p].body)}

OutGrows(o, new) == \A d \in DOMAIN o : d \in DOMAIN new /\ DirGrows(o[d], new[d])

(* A file for a pool may also be written anew, by a rendering that fails   *)
(* before it has commented out the placeholders.                           *)
DirKept(files, new) ==
    /\ DOMAIN files \subseteq DOMAIN new
    /\ \A p \in DOMAIN files :
          /\ SameCR(new[p], files[p]) /\ new[p].mcp = files[p].mcp
          /\ p = <<p[1]>> => new[p].body \in {files[p].body, CommentOutLinesWithPlaceholders(files[p].body)}

OutKept(o, new) == \A d \in DOMAIN o : d \in DOMAIN new /\ DirKept(o[d], new[d])

LEMMA NothingHappens == ASSUME NEW o PROVE OutGrows(o, o)
  BY DEF OutGrows, DirGrows, SameCR

LEMMA GrowingKeeps == ASSUME NEW o, NEW new, OutGrows(o, new) PROVE OutKept(o, new)
  BY DEF OutGrows, DirGrows, OutKept, DirKept

LEMMA RenderingRenders ==
  ASSUME NEW cr, NEW new, cr.body \in Document, new.body = CommentOutLinesWithPlaceholders(cr.body)
  PROVE  Rendered(new) /\ new.body \in Document
  BY RenderedLines, RenderedTwice DEF Rendered

(* RenderMCPLines, of a CR: the two writes.                                *)
LEMMA ReplaceMCPIs ==
  ASSUME NEW cr, IsCR(cr)
  PROVE  LET new == ReplaceMCP(cr)
         IN  /\ IsCR(new) /\ SameCR(new, cr) /\ new.body = cr.body
             /\ new.mcp = IF cr.mcp = "$mcp" THEN Template.mcp ELSE cr.mcp
<1> DEFINE new == ReplaceMCP(cr)
           m == IF cr.mcp = "$mcp" THEN Template.mcp ELSE cr.mcp
<1>1. cr = [kind |-> cr.kind, named |-> cr.named, wave |-> cr.wave,
             mcp |-> cr.mcp, body |-> cr.body, items |-> cr.items]
  BY DEF IsCR
<1>2. new = [cr EXCEPT !.mcp = m]
  BY DEF ReplaceMCP
<1> HIDE DEF new, m
<1>3. new = [kind |-> cr.kind, named |-> cr.named, wave |-> cr.wave,
             mcp |-> m, body |-> cr.body, items |-> cr.items]
  BY <1>1, <1>2
<1>4. /\ new.kind = cr.kind /\ new.named = cr.named /\ new.wave = cr.wave /\ new.items = cr.items
      /\ new.mcp = m /\ new.body = cr.body
  BY <1>3
<1>5. IsCR(new)
  BY <1>3, <1>4 DEF IsCR
<1> QED BY <1>4, <1>5 DEF SameCR, new, m

LEMMA RenderMCPLinesIs ==
  ASSUME NEW cr, IsCR(cr)
  PROVE  LET new == RenderMCPLines(cr)
         IN  /\ IsCR(new) /\ SameCR(new, cr) /\ new.body = CommentOutLinesWithPlaceholders(cr.body)
             /\ new.mcp = IF cr.mcp = "$mcp" THEN Template.mcp ELSE cr.mcp
<1> DEFINE new == RenderMCPLines(cr)
           r == ReplaceMCP(cr)
           b == CommentOutLinesWithPlaceholders(r.body)
<1>1. /\ IsCR(r) /\ SameCR(r, cr) /\ r.body = cr.body
      /\ r.mcp = IF cr.mcp = "$mcp" THEN Template.mcp ELSE cr.mcp
  BY ReplaceMCPIs
<1>2. new = [r EXCEPT !.body = b]
  BY DEF RenderMCPLines
<1>3. b \in Document /\ b = CommentOutLinesWithPlaceholders(cr.body)
  BY <1>1, RenderedLines DEF IsCR
<1>4. r = [kind |-> r.kind, named |-> r.named, wave |-> r.wave,
           mcp |-> r.mcp, body |-> r.body, items |-> r.items]
  BY <1>1 DEF IsCR
<1> HIDE DEF new, r, b
<1>5. new = [kind |-> r.kind, named |-> r.named, wave |-> r.wave,
             mcp |-> r.mcp, body |-> b, items |-> r.items]
  BY <1>2, <1>4
<1>6. /\ new.kind = r.kind /\ new.named = r.named /\ new.wave = r.wave /\ new.items = r.items
      /\ new.mcp = r.mcp /\ new.body = b
  BY <1>5
<1>7. IsCR(new)
  BY <1>1, <1>3, <1>5, <1>6 DEF IsCR
<1> QED BY <1>1, <1>3, <1>6, <1>7 DEF SameCR, new

LEMMA Paths == \A f, g, m : <<f>> # <<g, m>> /\ <<f>>[1] = f /\ <<g, m>>[1] = g /\ <<g, m>>[2] = m
  OBVIOUS

LEMMA OriginalLines ==
  ASSUME NEW c \in Inputs, NEW version \in {c.crs, c.newer}, NEW f \in DOMAIN version
  PROVE  version[f].body \in Document /\ IsCR(version[f]) /\ version[f].mcp \in {"none", "$mcp"}
<1>1. version[f] \in SourceCR /\ IsInjective(version[f].items)
  BY InputAssumption
<1> QED BY <1>1 DEF SourceCR, IsCR

(* Writing one file keeps the directory in order: it is the plain file     *)
(* that is rendered, once, or the file for the pool that is written.       *)
LEMMA WriteDirectory ==
  ASSUME NEW c \in Inputs, NEW files, \A q \in DOMAIN files : FileOK(c, files, q),
         NEW p \in DOMAIN files, Template.mcp # "$mcp",
         NEW r, IsCR(r), SameCR(r, files[p]),
         r.mcp = IF files[p].mcp = "$mcp" THEN Template.mcp ELSE files[p].mcp,
         r.body \in {files[p].body, CommentOutLinesWithPlaceholders(files[p].body)}
  PROVE  LET path == RenderedPath(p, files[p])
             new == Put(files, path, r)
         IN  /\ \A q \in DOMAIN new : FileOK(c, new, q)
             /\ DirKept(files, new)
             /\ r.body = CommentOutLinesWithPlaceholders(files[p].body) => DirGrows(files, new)
             /\ path \in DOMAIN new /\ new[path] = r
             /\ path \in {p, <<p[1], Template.mcp>>}
             /\ (new[path].mcp = "none" \/ (path = <<path[1], path[2]>> /\ new[path].mcp = path[2]))
<1> DEFINE cr == files[p]
           m == Template.mcp
           path == RenderedPath(p, cr)
           new == Put(files, path, r)
           CO(b) == CommentOutLinesWithPlaceholders(b)
<1>1. IsCR(cr)
  BY DEF FileOK
<1>2. IsCR(r) /\ SameCR(r, cr) /\ r.body \in {cr.body, CO(cr.body)} /\ r.mcp = IF cr.mcp = "$mcp" THEN m ELSE cr.mcp
  OBVIOUS
<1>3. cr.body \in Document
  BY <1>1 DEF IsCR
<1>4. /\ DOMAIN new = DOMAIN files \union {path} /\ new[path] = r
      /\ \A q \in DOMAIN files : q # path => new[q] = files[q]
  BY DEF Put
<1>5. path = IF cr.mcp = "$mcp" THEN <<p[1], m>> ELSE p
  BY DEF RenderedPath
<1> HIDE DEF cr, m, path, new, CO
<1>6. CASE cr.mcp = "$mcp"
  <2>1. p = <<p[1]>>
    <3>1. p = <<p[1]>> \/ (p = <<p[1], p[2]>> /\ ForPool(files, p))
      BY DEF FileOK
    <3>2. ForPool(files, p) => cr.mcp # "$mcp"
      BY DEF ForPool, cr
    <3> QED BY <1>6, <3>1, <3>2
  <2>2. path = <<p[1], m>> /\ path[1] = p[1] /\ path[2] = m /\ r.mcp = m /\ m # "$mcp"
    BY <1>2, <1>5, <1>6 DEF m
  <2>3. p # path /\ new[p] = cr
    BY <2>1, <2>2, <1>4, Paths DEF cr
  <2>4. path \in DOMAIN files => /\ SameCR(r, files[path]) /\ r.mcp = files[path].mcp
                                 /\ r.body = CO(cr.body) => r.body = CO(files[path].body)
    <3> HAVE path \in DOMAIN files
    <3>1. path # <<path[1]>>
      BY <2>2, Paths
    <3>2. ForPool(files, path)
      BY <3>1 DEF FileOK
    <3>3. <<path[1]>> = p
      BY <2>1, <2>2
    <3>4. SameCR(files[path], cr) /\ files[path].mcp = m /\ files[path].body \in {cr.body, CO(cr.body)}
      BY <2>2, <3>2, <3>3 DEF ForPool, cr, CO
    <3>5. CO(files[path].body) = CO(cr.body)
      BY <1>3, <3>4, RenderedTwice DEF CO
    <3> QED BY <1>2, <2>2, <3>4, <3>5 DEF SameCR
  <2>5. DirKept(files, new) /\ (r.body = CO(cr.body) => DirGrows(files, new))
    <3>1. path # <<path[1]>>
      BY <2>2, Paths
    <3> QED BY <1>4, <2>4, <3>1 DEF DirGrows, DirKept, SameCR, CO
  <2>6. FileOK(c, new, path)
    <3>1. <<path[1]>> \in DOMAIN new /\ new[<<path[1]>>] = cr
      BY <1>4, <2>1, <2>2, <2>3
    <3> QED BY <1>2, <1>4, <1>6, <2>2, <3>1 DEF FileOK, ForPool, CO
  <2>7. ASSUME NEW q \in DOMAIN files, q # path PROVE FileOK(c, new, q)
    <3>1. new[q] = files[q] /\ FileOK(c, files, q)
      BY <1>4, <2>7
    <3>2. CASE q = <<q[1]>> /\ Plain(c, q[1], files[q])
      BY <3>1, <3>2 DEF FileOK
    <3>3. CASE q = <<q[1], q[2]>> /\ ForPool(files, q)
      <4>1. <<q[1]>> # path
        BY <2>2, Paths
      <4>2. <<q[1]>> \in DOMAIN new /\ new[<<q[1]>>] = files[<<q[1]>>]
        BY <1>4, <3>3, <4>1 DEF ForPool
      <4> QED BY <3>1, <3>3, <4>2 DEF FileOK, ForPool
    <3> QED BY <3>1, <3>2, <3>3 DEF FileOK
  <2>8. \A q \in DOMAIN new : FileOK(c, new, q)
    BY <1>4, <2>6, <2>7
  <2> QED BY <1>4, <2>2, <2>5, <2>8 DEF path, new, cr, m, CO
<1>7. CASE cr.mcp # "$mcp"
  <2>1. path = p /\ r.mcp = cr.mcp
    BY <1>2, <1>5, <1>7
  <2>2. DirKept(files, new) /\ DirGrows(files, new)
    BY <1>2, <1>4, <2>1 DEF DirGrows, DirKept, SameCR, cr, CO
  <2>3. CASE p = <<p[1]>> /\ Plain(c, p[1], cr)
    <3>1. cr.mcp = "none"
      BY <1>7, <2>3 DEF Plain
    <3>2. Plain(c, p[1], r)
      <4>1. PICK version \in {c.crs, c.newer} :
              /\ p[1] \in DOMAIN version /\ SameCR(cr, version[p[1]]) /\ cr.mcp = version[p[1]].mcp
              /\ \/ cr.body = version[p[1]].body \/ cr.body = CO(version[p[1]].body)
        BY <2>3 DEF Plain, CO
      <4>2. version[p[1]].body \in Document
        BY <4>1, OriginalLines
      <4>3. r.body \in {version[p[1]].body, CO(version[p[1]].body)}
        BY <1>2, <4>1, <4>2, RenderedTwice DEF CO
      <4> QED BY <1>2, <2>1, <3>1, <4>1, <4>3 DEF Plain, SameCR, CO
    <3>3. FileOK(c, new, p)
      BY <1>2, <1>4, <2>1, <2>3, <3>2 DEF FileOK
    <3>4. ASSUME NEW q \in DOMAIN files, q # p PROVE FileOK(c, new, q)
      <4>1. new[q] = files[q] /\ FileOK(c, files, q)
        BY <1>4, <2>1, <3>4
      <4>2. CASE q = <<q[1]>> /\ Plain(c, q[1], files[q])
        BY <4>1, <4>2 DEF FileOK
      <4>3. CASE q = <<q[1], q[2]>> /\ ForPool(files, q)
        <5>1. <<q[1]>> # p
          BY <3>1, <4>3 DEF ForPool, cr
        <5>2. <<q[1]>> \in DOMAIN new /\ new[<<q[1]>>] = files[<<q[1]>>]
          BY <1>4, <2>1, <4>3, <5>1 DEF ForPool
        <5> QED BY <4>1, <4>3, <5>2 DEF FileOK, ForPool
      <4> QED BY <4>1, <4>2, <4>3 DEF FileOK
    <3>5. \A q \in DOMAIN new : FileOK(c, new, q)
      BY <1>4, <2>1, <3>3, <3>4
    <3> QED BY <1>4, <2>1, <2>2, <3>1, <3>5 DEF path, new, cr, m
  <2>4. CASE p = <<p[1], p[2]>> /\ ForPool(files, p)
    <3>1. <<p[1]>> \in DOMAIN files /\ <<p[1]>> # p /\ new[<<p[1]>>] = files[<<p[1]>>]
      BY <1>4, <2>1, <2>4, Paths DEF ForPool
    <3>2. IsCR(files[<<p[1]>>])
      BY <3>1 DEF FileOK
    <3>3. r.body \in {files[<<p[1]>>].body, CO(files[<<p[1]>>].body)}
      BY <1>2, <2>4, <3>2, RenderedTwice DEF ForPool, IsCR, cr, CO
    <3>4. FileOK(c, new, p)
      BY <1>2, <1>4, <2>1, <2>4, <3>1, <3>3 DEF FileOK, ForPool, SameCR, cr, CO
    <3>5. ASSUME NEW q \in DOMAIN files, q # p PROVE FileOK(c, new, q)
      <4>1. new[q] = files[q] /\ FileOK(c, files, q)
        BY <1>4, <2>1, <3>5
      <4>2. <<q[1]>> # p
        BY <2>4, Paths
      <4>3. <<q[1]>> \in DOMAIN files => <<q[1]>> \in DOMAIN new /\ new[<<q[1]>>] = files[<<q[1]>>]
        BY <1>4, <2>1, <4>2
      <4> QED BY <4>1, <4>3 DEF FileOK, ForPool
    <3>6. \A q \in DOMAIN new : FileOK(c, new, q)
      BY <1>4, <2>1, <3>4, <3>5
    <3>7. r.mcp = p[2]
      BY <2>1, <2>4 DEF ForPool, cr
    <3>8. path = <<path[1], path[2]>> /\ new[path].mcp = path[2]
      BY <1>4, <2>1, <2>4, <3>7
    <3> QED BY <1>4, <2>1, <2>2, <3>6, <3>8 DEF path, new, cr, m
  <2> QED BY <2>3, <2>4 DEF FileOK, cr
<1> QED BY <1>6, <1>7

LEMMA WriteFile ==
  ASSUME conf \in Inputs, OutOK(conf, out), Template.mcp # "$mcp", Template.dir \in DOMAIN out,
         NEW p \in DOMAIN Files,
         NEW r, IsCR(r), SameCR(r, Files[p]),
         r.mcp = IF Files[p].mcp = "$mcp" THEN Template.mcp ELSE Files[p].mcp,
         r.body \in {Files[p].body, CommentOutLinesWithPlaceholders(Files[p].body)}
  PROVE  LET path == RenderedPath(p, Files[p])
             wrote == [out EXCEPT ![Template.dir] = Put(@, path, r)]
             new == wrote[Template.dir]
         IN  /\ OutOK(conf, wrote) /\ OutKept(out, wrote) /\ DOMAIN wrote = DOMAIN out
             /\ r.body = CommentOutLinesWithPlaceholders(Files[p].body) => OutGrows(out, wrote)
             /\ path \in DOMAIN new /\ new[path] = r
             /\ path \in {p, <<p[1], Template.mcp>>}
             /\ (new[path].mcp = "none" \/ (path = <<path[1], path[2]>> /\ new[path].mcp = path[2]))
<1> DEFINE d == Template.dir
           path == RenderedPath(p, Files[p])
           new == Put(Files, path, r)
           wrote == [out EXCEPT ![d] = Put(@, path, r)]
<1>1. Files = out[d] /\ \A q \in DOMAIN Files : FileOK(conf, Files, q)
  BY DEF OutOK, Files
<1>2. /\ \A q \in DOMAIN new : FileOK(conf, new, q)
      /\ DirKept(Files, new)
      /\ r.body = CommentOutLinesWithPlaceholders(Files[p].body) => DirGrows(Files, new)
      /\ path \in DOMAIN new /\ new[path] = r
      /\ path \in {p, <<p[1], Template.mcp>>}
      /\ (new[path].mcp = "none" \/ (path = <<path[1], path[2]>> /\ new[path].mcp = path[2]))
  BY <1>1, WriteDirectory
<1>3. /\ DOMAIN wrote = DOMAIN out /\ wrote[d] = new
      /\ \A e \in DOMAIN out : e # d => wrote[e] = out[e]
  BY <1>1
<1> HIDE DEF new, wrote, path, d
<1>4. OutOK(conf, wrote)
  BY <1>2, <1>3 DEF OutOK
<1>5. OutKept(out, wrote)
  <2>1. OutKept(out, out)
    BY NothingHappens, GrowingKeeps
  <2> QED BY <1>1, <1>2, <1>3, <2>1 DEF OutKept
<1>6. DirGrows(Files, new) => OutGrows(out, wrote)
  BY <1>1, <1>3, NothingHappens DEF OutGrows
<1> QED BY <1>2, <1>3, <1>4, <1>5, <1>6 DEF wrote, path, d

(* Copying leaves the files that are there alone.                          *)
LEMMA CopyFiles ==
  ASSUME conf \in Inputs, crs \in {conf.crs, conf.newer}, OutOK(conf, out),
         NEW dirs, NEW done, \A y \in done : y[2] \in DOMAIN crs
  PROVE  LET copied == CopyDirectory(dirs, done)
         IN  OutOK(conf, copied) /\ OutGrows(out, copied) /\ DOMAIN copied = DOMAIN out \union dirs
<1> DEFINE copied == CopyDirectory(dirs, done)
           had(d) == IF d \in DOMAIN out THEN out[d] ELSE Empty
           new(d) == {<<x[2]>> : x \in {y \in done : y[1] = d}}
<1>1. DOMAIN copied = DOMAIN out \union dirs
  BY DEF CopyDirectory
<1>2. ASSUME NEW d \in DOMAIN copied
      PROVE  /\ DOMAIN copied[d] = DOMAIN had(d) \union new(d)
             /\ \A p \in DOMAIN copied[d] : copied[d][p] = IF p \in DOMAIN had(d) THEN had(d)[p] ELSE crs[p[1]]
  BY <1>1 DEF CopyDirectory, Copy
<1>3. \A d, p : p \in new(d) => p = <<p[1]>> /\ p[1] \in DOMAIN crs
  OBVIOUS
<1>4. \A d : d \notin DOMAIN out => DOMAIN had(d) = {}
  BY DEF Empty
<1>5. \A d \in DOMAIN out : had(d) = out[d]
  OBVIOUS
<1> HIDE DEF had, new, copied
<1>6. ASSUME NEW d \in DOMAIN copied, NEW p \in DOMAIN copied[d] PROVE FileOK(conf, copied[d], p)
  <2>1. CASE p \in DOMAIN had(d)
    <3>1. d \in DOMAIN out /\ copied[d][p] = out[d][p] /\ FileOK(conf, out[d], p)
      BY <1>2, <1>4, <1>5, <2>1 DEF OutOK
    <3>2. <<p[1]>> \in DOMAIN out[d] => <<p[1]>> \in DOMAIN copied[d] /\ copied[d][<<p[1]>>] = out[d][<<p[1]>>]
      BY <1>2, <1>5, <3>1
    <3> QED BY <3>1, <3>2 DEF FileOK, ForPool
  <2>2. CASE p \notin DOMAIN had(d)
    <3>1. p = <<p[1]>> /\ p[1] \in DOMAIN crs /\ copied[d][p] = crs[p[1]]
      BY <1>2, <1>3, <2>2
    <3>2. IsCR(crs[p[1]]) /\ crs[p[1]].mcp \in {"none", "$mcp"}
      BY <3>1, OriginalLines
    <3>3. Plain(conf, p[1], crs[p[1]])
      BY <3>1, <3>2 DEF Plain, SameCR
    <3> QED BY <3>1, <3>2, <3>3 DEF FileOK
  <2> QED BY <2>1, <2>2
<1>7. OutOK(conf, copied)
  BY <1>6 DEF OutOK
<1>8. OutGrows(out, copied)
  <2> SUFFICES ASSUME NEW d \in DOMAIN out PROVE d \in DOMAIN copied /\ DirGrows(out[d], copied[d])
    BY DEF OutGrows
  <2>1. d \in DOMAIN copied /\ DOMAIN out[d] \subseteq DOMAIN copied[d]
    BY <1>1, <1>2, <1>5
  <2>2. \A p \in DOMAIN out[d] : copied[d][p] = out[d][p]
    BY <1>2, <1>5, <2>1
  <2> QED BY <2>1, <2>2 DEF DirGrows, SameCR
<1> QED BY <1>1, <1>7, <1>8 DEF copied

-----------------------------------------------------------------------------
(* The converted policies of a template tm, with the files o.              *)
SourcesOf(tm, q) == {k \in DOMAIN tm.sources : tm.sources[k].policy = q}

ManifestOK(tm, o, src, man) ==
    /\ man = [path |-> man.path, patch |-> man.patch, openapi |-> man.openapi]
    /\ tm.dir \in DOMAIN o /\ <<src.file>> \in DOMAIN o[tm.dir] /\ man.path \in DOMAIN o[tm.dir]
    /\ man.path \in {<<src.file>>, <<src.file, tm.mcp>>}

ManifestPlaced(tm, o, man) ==
    /\ o[tm.dir][man.path].mcp \in {"none", tm.mcp}
    /\ man.path = <<man.path[1]>> => Rendered(o[tm.dir][man.path])

ManifestDone(tm, o, man) == ManifestPlaced(tm, o, man) /\ Rendered(o[tm.dir][man.path])

WaveOf(tm, o, q) == o[tm.dir][<<tm.sources[Max(SourcesOf(tm, q))].file>>].wave

PolicyOK(tm, o, policy) ==
    /\ policy = [name |-> policy.name, wave |-> policy.wave, manifests |-> policy.manifests]
    /\ policy.name \in Nat /\ SourcesOf(tm, policy.name) # {}
    /\ policy.manifests = [k \in SourcesOf(tm, policy.name) |-> policy.manifests[k]]
    /\ \A k \in SourcesOf(tm, policy.name) : ManifestOK(tm, o, tm.sources[k], policy.manifests[k])
    /\ policy.wave = IF WaveOf(tm, o, policy.name) \in Numbers THEN WaveOf(tm, o, policy.name) ELSE ""

PoliciesOK(tm, o, ps) ==
    /\ \E S : ps \in Seq(S)
    /\ \A i \in DOMAIN ps : PolicyOK(tm, o, ps[i])
    /\ \A i, j \in DOMAIN ps : i < j => ps[i].name < ps[j].name

PoliciesPlaced(tm, o, ps) ==
    \A i \in DOMAIN ps : \A k \in DOMAIN ps[i].manifests : ManifestPlaced(tm, o, ps[i].manifests[k])

PoliciesDone(tm, o, ps) ==
    \A i \in DOMAIN ps : \A k \in DOMAIN ps[i].manifests : ManifestDone(tm, o, ps[i].manifests[k])

PatchesKept(tm, ps) ==
    \A i \in DOMAIN ps : \A k \in DOMAIN ps[i].manifests : ps[i].manifests[k].patch = tm.sources[k].patch

PatchesInjected(c, tm, o, ps) ==
    \A i \in DOMAIN ps : \A k \in DOMAIN ps[i].manifests :
        LET cr == o[tm.dir][ps[i].manifests[k].path]
        IN  cr.kind \in ParseOpenAPISchema(c.flags.schema)
            => ps[i].manifests[k].patch = InjectMergeKeys(tm.sources[k].patch, cr.items)

NamesOf(ps) == {ps[i].name : i \in DOMAIN ps}
PoliciesOf(tm) == {tm.sources[k].policy : k \in DOMAIN tm.sources}

(* Where the program is: the templates before t are written, of this or an *)
(* earlier run.                                                            *)
ControlInv ==
    /\ pc \in {"copy", "next", "policy", "render", "schema", "policies", "exit"}
    /\ exit \in {"running", "ok", "failed"} /\ (exit = "running" <=> pc # "exit")
    /\ t \in 0..Len(conf.templates) /\ DOMAIN written \subseteq Templates
    /\ DOMAIN out \subseteq Dirs
    /\ 1..t - 1 \subseteq DOMAIN written
    /\ pc = "copy" => t = 0
    /\ pc \in {"next", "policies"} \/ exit = "ok" => 1..t \subseteq DOMAIN written
    /\ pc = "policies" \/ exit = "ok" => t = Len(conf.templates)
    /\ pc \in {"policy", "render", "schema"} => t > 0
    /\ generators \subseteq DOMAIN written
    /\ faults \in Nat

FilesInv == conf \in Inputs /\ crs \in {conf.crs, conf.newer} /\ OutOK(conf, out)

(* The template being converted: its policies are converted in order, and  *)
(* those before the one that is rendered are rendered.                     *)
ConversionInv ==
    /\ pc \in {"policy", "render", "schema"} =>
        /\ PoliciesOK(Template, out, acm)
        /\ todo \subseteq Nat /\ NamesOf(acm) \union todo = PoliciesOf(Template)
        /\ \A i \in DOMAIN acm : \A q \in todo : acm[i].name < q
        /\ ~ conf.flags.a => PatchesKept(Template, acm)
        /\ conf.flags.w => \A i \in DOMAIN acm : <<t, acm[i].name>> \in placements
    /\ pc = "policy" => todo # {}
    /\ pc = "render" =>
        /\ at = <<at[1], at[2]>> /\ at[1] \in DOMAIN acm /\ at[2] \in DOMAIN acm[at[1]].manifests
        /\ \A i \in DOMAIN acm : \A k \in DOMAIN acm[i].manifests :
              i < at[1] \/ (i = at[1] /\ k < at[2]) => ManifestDone(Template, out, acm[i].manifests[k])
    /\ pc = "schema" => todo = {} /\ PoliciesDone(Template, out, acm)

(* A written template, whatever happened since.                            *)
WrittenOK(c, o, pl, tm, w) ==
    /\ PoliciesOK(tm, o, w.policies) /\ PoliciesPlaced(tm, o, w.policies)
    /\ NamesOf(w.policies) = PoliciesOf(tm)
    /\ ~ c.flags.a /\ c.flags.s = "good" => PatchesInjected(c, tm, o, w.policies)
    /\ w.policies # <<>> => w.selector = LabelToSelector(tm.rules, tm.excluded)
    /\ w.placementPath # <<>> => w.placementPath \in pl

WrittenInv == \A i \in DOMAIN written : WrittenOK(conf, out, placements, conf.templates[i], written[i])

(* A written template is rendered, unless something failed since the       *)
(* current run or an earlier one has converted it.                         *)
RenderedInv ==
    \A i \in DOMAIN written :
        faults = 0 \/ i \in Converted => PoliciesDone(conf.templates[i], out, written[i].policies)

Inv == ControlInv /\ FilesInv /\ ConversionInv /\ WrittenInv /\ RenderedInv

-----------------------------------------------------------------------------
(* What is known of policies stays true as the files grow.                 *)
LEMMA SourcesFacts ==
  ASSUME NEW tm, tm.sources \in Seq(SourceFile)
  PROVE  /\ Len(tm.sources) \in Nat /\ DOMAIN tm.sources = 1..Len(tm.sources)
         /\ \A k \in DOMAIN tm.sources : tm.sources[k] \in SourceFile /\ tm.sources[k].policy \in Nat
         /\ \A q : /\ SourcesOf(tm, q) \subseteq 1..Len(tm.sources)
                   /\ SourcesOf(tm, q) # {} =>
                        Max(SourcesOf(tm, q)) \in SourcesOf(tm, q) /\ Min(SourcesOf(tm, q)) \in SourcesOf(tm, q)
<1>1. Len(tm.sources) \in Nat /\ DOMAIN tm.sources = 1..Len(tm.sources)
      /\ \A k \in DOMAIN tm.sources : tm.sources[k] \in SourceFile
  OBVIOUS
<1>2. \A s \in SourceFile : s.policy \in Nat
  BY DEF SourceFile
<1>3. ASSUME NEW q, SourcesOf(tm, q) # {} PROVE Max(SourcesOf(tm, q)) \in SourcesOf(tm, q)
  <2>1. SourcesOf(tm, q) \subseteq 1..Len(tm.sources)
    BY <1>1 DEF SourcesOf
  <2> QED BY <1>1, <1>3, <2>1, MaxProperties
<1>4. ASSUME NEW q, SourcesOf(tm, q) # {} PROVE Min(SourcesOf(tm, q)) \in SourcesOf(tm, q)
  <2>1. SourcesOf(tm, q) \subseteq Nat
    BY <1>1 DEF SourcesOf
  <2> QED BY <1>4, <2>1, MinProperties
<1>5. \A q : SourcesOf(tm, q) \subseteq 1..Len(tm.sources)
  BY <1>1 DEF SourcesOf
<1> QED BY <1>1, <1>2, <1>3, <1>4, <1>5

LEMMA ManifestStays ==
  ASSUME NEW tm, NEW o, NEW new, OutKept(o, new), NEW src, NEW man, ManifestOK(tm, o, src, man)
  PROVE  /\ ManifestOK(tm, new, src, man)
         /\ ManifestPlaced(tm, o, man) => ManifestPlaced(tm, new, man)
         /\ OutGrows(o, new) /\ ManifestDone(tm, o, man) => ManifestDone(tm, new, man)
         /\ SameCR(new[tm.dir][man.path], o[tm.dir][man.path])
         /\ new[tm.dir][<<src.file>>].wave = o[tm.dir][<<src.file>>].wave
<1>1. /\ tm.dir \in DOMAIN o /\ tm.dir \in DOMAIN new /\ DirKept(o[tm.dir], new[tm.dir])
      /\ <<src.file>> \in DOMAIN o[tm.dir] /\ man.path \in DOMAIN o[tm.dir]
  BY DEF ManifestOK, OutKept
<1>2. ManifestOK(tm, new, src, man)
  BY <1>1 DEF ManifestOK, DirKept
<1>3. ManifestPlaced(tm, o, man) => ManifestPlaced(tm, new, man)
  BY <1>1 DEF ManifestPlaced, DirKept, Rendered
<1>4. OutGrows(o, new) /\ ManifestDone(tm, o, man) => ManifestDone(tm, new, man)
  BY <1>1, <1>3 DEF ManifestDone, OutGrows, DirGrows, Rendered
<1> QED BY <1>1, <1>2, <1>3, <1>4 DEF DirKept, SameCR

LEMMA PolicyStays ==
  ASSUME NEW tm, tm.sources \in Seq(SourceFile), NEW o, NEW new, OutKept(o, new),
         NEW policy, PolicyOK(tm, o, policy)
  PROVE  PolicyOK(tm, new, policy)
<1>1. \A k \in SourcesOf(tm, policy.name) : ManifestOK(tm, new, tm.sources[k], policy.manifests[k])
  BY ManifestStays DEF PolicyOK
<1>2. Max(SourcesOf(tm, policy.name)) \in SourcesOf(tm, policy.name)
  BY SourcesFacts DEF PolicyOK
<1>3. WaveOf(tm, new, policy.name) = WaveOf(tm, o, policy.name)
  <2> DEFINE k == Max(SourcesOf(tm, policy.name))
             src == tm.sources[k]
             man == policy.manifests[k]
  <2>1. ManifestOK(tm, o, src, man)
    BY <1>2 DEF PolicyOK
  <2> HIDE DEF k, src, man
  <2>2. new[tm.dir][<<src.file>>].wave = o[tm.dir][<<src.file>>].wave
    BY <2>1, ManifestStays
  <2> QED BY <2>2 DEF WaveOf, k, src
<1> QED BY <1>1, <1>3 DEF PolicyOK

LEMMA ManifestOfPolicy ==
  ASSUME NEW tm, NEW o, NEW ps, PoliciesOK(tm, o, ps), NEW i \in DOMAIN ps, NEW k \in DOMAIN ps[i].manifests
  PROVE  /\ k \in SourcesOf(tm, ps[i].name) /\ k \in DOMAIN tm.sources
         /\ ManifestOK(tm, o, tm.sources[k], ps[i].manifests[k])
<1>1. PolicyOK(tm, o, ps[i])
  BY DEF PoliciesOK
<1>2. DOMAIN ps[i].manifests = SourcesOf(tm, ps[i].name)
  BY <1>1 DEF PolicyOK
<1> QED BY <1>1, <1>2 DEF PolicyOK, SourcesOf

LEMMA PoliciesStay ==
  ASSUME NEW tm, tm.sources \in Seq(SourceFile), NEW o, NEW new, OutKept(o, new),
         NEW ps, PoliciesOK(tm, o, ps)
  PROVE  /\ PoliciesOK(tm, new, ps)
         /\ PoliciesPlaced(tm, o, ps) => PoliciesPlaced(tm, new, ps)
         /\ OutGrows(o, new) /\ PoliciesDone(tm, o, ps) => PoliciesDone(tm, new, ps)
         /\ \A c : PatchesInjected(c, tm, o, ps) => PatchesInjected(c, tm, new, ps)
<1>1. PoliciesOK(tm, new, ps)
  BY PolicyStays DEF PoliciesOK
<1>2. /\ PoliciesPlaced(tm, o, ps) => PoliciesPlaced(tm, new, ps)
      /\ OutGrows(o, new) /\ PoliciesDone(tm, o, ps) => PoliciesDone(tm, new, ps)
  BY ManifestOfPolicy, ManifestStays DEF PoliciesPlaced, PoliciesDone
<1>3. ASSUME NEW c, PatchesInjected(c, tm, o, ps) PROVE PatchesInjected(c, tm, new, ps)
  <2> SUFFICES ASSUME NEW i \in DOMAIN ps, NEW k \in DOMAIN ps[i].manifests
               PROVE  LET cr == new[tm.dir][ps[i].manifests[k].path]
                      IN  cr.kind \in ParseOpenAPISchema(c.flags.schema)
                          => ps[i].manifests[k].patch = InjectMergeKeys(tm.sources[k].patch, cr.items)
    BY DEF PatchesInjected
  <2>1. SameCR(new[tm.dir][ps[i].manifests[k].path], o[tm.dir][ps[i].manifests[k].path])
    BY ManifestOfPolicy, ManifestStays
  <2> QED BY <1>3, <2>1 DEF PatchesInjected, SameCR
<1> QED BY <1>1, <1>2, <1>3

LEMMA WrittenStays ==
  ASSUME NEW c, NEW tm, tm.sources \in Seq(SourceFile), NEW o, NEW new, OutKept(o, new),
         NEW pl, NEW npl, pl \subseteq npl, NEW w, WrittenOK(c, o, pl, tm, w)
  PROVE  WrittenOK(c, new, npl, tm, w)
  BY PoliciesStay DEF WrittenOK

-----------------------------------------------------------------------------
(* Steps.                                                                  *)
LEMMA InputFacts ==
  ASSUME conf \in Inputs
  PROVE  /\ Len(conf.templates) \in Nat /\ Templates = 1..Len(conf.templates)
         /\ \A j \in Templates : conf.templates[j].sources \in Seq(SourceFile) /\ conf.templates[j].mcp # "$mcp"
         /\ conf.flags.generators \subseteq Templates
  BY InputAssumption DEF Templates

(* What the conversion is about to render is there.                        *)
LEMMA AtManifest ==
  ASSUME Inv, pc = "render"
  PROVE  /\ t \in Templates /\ Template.sources \in Seq(SourceFile) /\ Template.mcp # "$mcp"
         /\ Template.dir \in DOMAIN out
         /\ at[1] \in DOMAIN acm /\ at[2] \in DOMAIN acm[at[1]].manifests
         /\ at[2] \in DOMAIN Template.sources
         /\ ManifestOK(Template, out, Template.sources[at[2]], acm[at[1]].manifests[at[2]])
         /\ acm[at[1]].manifests[at[2]].path \in DOMAIN Files
<1>1. t \in Templates
  BY InputFacts DEF Inv, ControlInv, FilesInv
<1>2. Template.sources \in Seq(SourceFile) /\ Template.mcp # "$mcp"
  BY <1>1, InputFacts DEF Inv, FilesInv, Template
<1>3. at[1] \in DOMAIN acm /\ at[2] \in DOMAIN acm[at[1]].manifests /\ PoliciesOK(Template, out, acm)
  BY DEF Inv, ConversionInv
<1>4. at[2] \in DOMAIN Template.sources
      /\ ManifestOK(Template, out, Template.sources[at[2]], acm[at[1]].manifests[at[2]])
  BY <1>3, ManifestOfPolicy
<1>5. Template.dir \in DOMAIN out /\ acm[at[1]].manifests[at[2]].path \in DOMAIN Files
  BY <1>4 DEF ManifestOK, Files
<1> QED BY <1>1, <1>2, <1>3, <1>4, <1>5

(* The two writes of RenderMCPLines.                                       *)
LEMMA RenderStep ==
  ASSUME Inv, pc = "render"
  PROVE  LET man == acm[at[1]].manifests[at[2]]
             path == RenderedPath(man.path, Files[man.path])
             rendered == [out EXCEPT ![Template.dir] = Put(@, path, RenderMCPLines(Files[man.path]))]
             new == rendered[Template.dir]
         IN  /\ OutOK(conf, rendered) /\ OutGrows(out, rendered) /\ DOMAIN rendered = DOMAIN out
             /\ path \in DOMAIN new /\ Rendered(new[path])
             /\ path \in {man.path, <<man.path[1], Template.mcp>>}
             /\ (new[path].mcp = "none" \/ (path = <<path[1], path[2]>> /\ new[path].mcp = path[2]))
<1> DEFINE man == acm[at[1]].manifests[at[2]]
           cr == Files[man.path]
           r == RenderMCPLines(cr)
<1>1. conf \in Inputs /\ OutOK(conf, out)
  BY DEF Inv, FilesInv
<1>2. man.path \in DOMAIN Files /\ Template.dir \in DOMAIN out /\ Template.mcp # "$mcp"
  BY AtManifest
<1>3. IsCR(cr)
  BY <1>1, <1>2 DEF OutOK, FileOK, Files
<1>4. /\ IsCR(r) /\ SameCR(r, cr) /\ r.body = CommentOutLinesWithPlaceholders(cr.body)
      /\ r.mcp = IF cr.mcp = "$mcp" THEN Template.mcp ELSE cr.mcp
  BY <1>3, RenderMCPLinesIs
<1>5. Rendered(r)
  BY <1>3, <1>4, RenderingRenders DEF IsCR
<1> HIDE DEF r
<1> QED BY <1>1, <1>2, <1>4, <1>5, WriteFile DEF r

LEMMA ReplaceStep ==
  ASSUME Inv, pc = "render"
  PROVE  LET man == acm[at[1]].manifests[at[2]]
             path == RenderedPath(man.path, Files[man.path])
             wrote == [out EXCEPT ![Template.dir] = Put(@, path, ReplaceMCP(Files[man.path]))]
         IN  OutOK(conf, wrote) /\ OutKept(out, wrote) /\ DOMAIN wrote = DOMAIN out
<1> DEFINE man == acm[at[1]].manifests[at[2]]
           cr == Files[man.path]
           r == ReplaceMCP(cr)
<1>1. conf \in Inputs /\ OutOK(conf, out)
  BY DEF Inv, FilesInv
<1>2. man.path \in DOMAIN Files /\ Template.dir \in DOMAIN out /\ Template.mcp # "$mcp"
  BY AtManifest
<1>3. IsCR(cr)
  BY <1>1, <1>2 DEF OutOK, FileOK, Files
<1>4. /\ IsCR(r) /\ SameCR(r, cr) /\ r.body = cr.body
      /\ r.mcp = IF cr.mcp = "$mcp" THEN Template.mcp ELSE cr.mcp
  BY <1>3, ReplaceMCPIs
<1> HIDE DEF r
<1> QED BY <1>1, <1>2, <1>4, WriteFile DEF r

(* Only a rendering that fails half-way does more to the files than to     *)
(* copy and render them.                                                   *)
LEMMA OutStep ==
  ASSUME Inv, [Next]_vars
  PROVE  /\ FilesInv' /\ OutKept(out, out') /\ conf' = conf /\ DOMAIN out' \subseteq Dirs
         /\ OutGrows(out, out') \/ (pc' = "exit" /\ exit' = "failed" /\ faults' = faults + 1)
<1>1. conf \in Inputs /\ crs \in {conf.crs, conf.newer} /\ OutOK(conf, out) /\ DOMAIN out \subseteq Dirs
  BY DEF Inv, FilesInv, ControlInv
<1>2. CASE AddSourceCRsInTemplateDir
  <2>0. conf' = conf /\ crs' = crs
    BY <1>2 DEF AddSourceCRsInTemplateDir
  <2>1. out' = out \/ \E done : out' = CopyDirectory(Dirs, done) /\ \A y \in done : y[2] \in DOMAIN crs
    <3>1. CASE out' = CopyDirectory(Dirs, Dirs \X DOMAIN crs)
      <4>1. \A y \in Dirs \X DOMAIN crs : y[2] \in DOMAIN crs
        OBVIOUS
      <4> QED BY <3>1, <4>1
    <3>2. ASSUME NEW full, NEW some \in SUBSET DOMAIN crs, NEW d,
                 out' = CopyDirectory(Dirs, (full \X DOMAIN crs) \union ({d} \X some))
          PROVE \E done : out' = CopyDirectory(Dirs, done) /\ \A y \in done : y[2] \in DOMAIN crs
      <4>1. \A y \in (full \X DOMAIN crs) \union ({d} \X some) : y[2] \in DOMAIN crs
        OBVIOUS
      <4> QED BY <3>2, <4>1
    <3> QED BY <1>2, <3>1, <3>2 DEF AddSourceCRsInTemplateDir
  <2>2. CASE out' = out
    BY <1>1, <2>0, <2>2, NothingHappens, GrowingKeeps DEF FilesInv
  <2>3. ASSUME NEW done, out' = CopyDirectory(Dirs, done), \A y \in done : y[2] \in DOMAIN crs
        PROVE  OutOK(conf, out') /\ OutGrows(out, out') /\ DOMAIN out' \subseteq Dirs
    BY <1>1, <2>3, CopyFiles
  <2> QED BY <1>1, <2>0, <2>1, <2>2, <2>3, GrowingKeeps DEF FilesInv
<1>3. CASE RenderManifest
  <2>0. conf' = conf /\ crs' = crs /\ pc = "render"
    BY <1>3 DEF RenderManifest
  <2> DEFINE man == acm[at[1]].manifests[at[2]]
             path == RenderedPath(man.path, Files[man.path])
             rendered == [out EXCEPT ![Template.dir] = Put(@, path, RenderMCPLines(Files[man.path]))]
             wrote == [out EXCEPT ![Template.dir] = Put(@, path, ReplaceMCP(Files[man.path]))]
  <2>1. out' \in {out, rendered} \/ (out' = wrote /\ pc' = "exit" /\ exit' = "failed" /\ faults' = faults + 1)
    BY <1>3 DEF RenderManifest, Fault, Exit
  <2>2. OutOK(conf, rendered) /\ OutGrows(out, rendered) /\ DOMAIN rendered = DOMAIN out
    BY <2>0, RenderStep
  <2>3. OutOK(conf, wrote) /\ OutKept(out, wrote) /\ DOMAIN wrote = DOMAIN out
    BY <2>0, ReplaceStep
  <2> HIDE DEF rendered, wrote
  <2> QED BY <1>1, <2>0, <2>1, <2>2, <2>3, NothingHappens, GrowingKeeps DEF FilesInv
<1>4. CASE RunAgain
  BY <1>1, <1>4, NothingHappens, GrowingKeeps DEF RunAgain, FilesInv
<1>5. CASE \/ ReadTemplate \/ ConvertPolicy \/ WriteTemplate \/ ProcessKustomization \/ RenderPolicies
           \/ Done \/ UNCHANGED vars
  <2>1. conf' = conf /\ crs' = crs /\ out' = out
    BY <1>5 DEF ReadTemplate, ConvertPolicy, WriteTemplate, ProcessKustomization, RenderPolicies, Done, vars
  <2> QED BY <1>1, <2>1, NothingHappens, GrowingKeeps DEF FilesInv
<1> QED BY <1>2, <1>3, <1>4, <1>5 DEF Next

LEMMA FaultsStep ==
  ASSUME Inv, [Next]_vars
  PROVE  faults' \in Nat /\ (faults' = 0 => faults = 0)
<1>1. faults' \in {faults, faults + 1}
  BY DEF Next, vars, AddSourceCRsInTemplateDir, ReadTemplate, ConvertPolicy, RenderManifest, WriteTemplate,
         ProcessKustomization, RenderPolicies, RunAgain, Done, Fault, NoFault
<1> QED BY <1>1 DEF Inv, ControlInv

LEMMA ControlStep ==
  ASSUME Inv, [Next]_vars
  PROVE  ControlInv'
<1>1. ControlInv /\ conf' = conf /\ DOMAIN out' \subseteq Dirs /\ faults' \in Nat
  BY OutStep, FaultsStep DEF Inv
<1>2. Len(conf.templates) \in Nat /\ Templates = 1..Len(conf.templates) /\ conf.flags.generators \subseteq Templates
  BY InputFacts DEF Inv, FilesInv
<1>3. Templates' = Templates /\ Dirs' = Dirs
  BY <1>1 DEF Templates, Dirs
<1> USE DEF ControlInv
<1>4. CASE AddSourceCRsInTemplateDir
  <2>1. pc = "copy" /\ (Exit("failed") \/ (pc' = "next" /\ exit' = exit))
    BY <1>4 DEF AddSourceCRsInTemplateDir
  <2>2. t' = t /\ written' = written /\ generators' = generators
    BY <1>4 DEF AddSourceCRsInTemplateDir
  <2> QED BY <1>1, <1>2, <1>3, <2>1, <2>2 DEF Exit
<1>5. CASE ReadTemplate
  <2>1. CASE t' = t + 1 /\ pc' \in {"schema", "policy"} /\ exit' = exit
    BY <1>1, <1>2, <1>3, <1>5, <2>1 DEF ReadTemplate
  <2>2. CASE Exit("failed") /\ t' = t
    BY <1>1, <1>2, <1>3, <1>5, <2>2 DEF ReadTemplate, Exit
  <2> QED BY <1>5, <2>1, <2>2 DEF ReadTemplate
<1>6. CASE ConvertPolicy
  <2>1. pc = "policy" /\ (Exit("failed") \/ (pc' = "render" /\ exit' = exit))
    BY <1>6 DEF ConvertPolicy
  <2>2. t' = t /\ written' = written /\ generators' = generators
    BY <1>6 DEF ConvertPolicy
  <2> QED BY <1>1, <1>2, <1>3, <2>1, <2>2 DEF Exit
<1>7. CASE RenderManifest
  <2>1. pc = "render" /\ (Exit("failed") \/ (pc' \in {"render", "policy", "schema"} /\ exit' = exit))
    BY <1>7 DEF RenderManifest, AfterManifest
  <2>2. t' = t /\ written' = written /\ generators' = generators
    BY <1>7 DEF RenderManifest
  <2> QED BY <1>1, <1>2, <1>3, <2>1, <2>2 DEF Exit
<1>8. CASE WriteTemplate
  <2>1. pc = "schema" /\ t' = t /\ generators' = generators /\ t \in Templates
    BY <1>1, <1>2, <1>8 DEF WriteTemplate
  <2>2. \/ Exit("failed") /\ written' = written
        \/ pc' = "next" /\ exit' = exit /\ DOMAIN written' = DOMAIN written \union {t}
    BY <1>8 DEF WriteTemplate, Put
  <2>3. CASE Exit("failed") /\ written' = written
    BY <1>1, <1>2, <1>3, <2>1, <2>3 DEF Exit
  <2>4. CASE pc' = "next" /\ exit' = exit /\ DOMAIN written' = DOMAIN written \union {t}
    <3>1. 1..t \subseteq DOMAIN written'
      BY <1>1, <1>2, <2>4
    <3>2. 1..t - 1 \subseteq DOMAIN written' /\ generators \subseteq DOMAIN written' /\ DOMAIN written' \subseteq Templates
      BY <1>1, <1>2, <2>1, <2>4
    <3> QED BY <1>1, <1>2, <1>3, <2>1, <2>4, <3>1, <3>2
  <2> QED BY <2>2, <2>3, <2>4
<1>9. CASE ProcessKustomization
  <2>1. pc = "next" /\ t = Len(conf.templates) /\ t' = t /\ written' = written
        /\ generators' \in {generators, conf.flags.generators}
        /\ ((pc' = "policies" /\ exit' = exit) \/ (pc' = "exit" /\ exit' = "ok"))
    <3>1. (pc' = "policies" /\ exit' = exit) \/ (pc' = "exit" /\ exit' = "ok")
      <4>1. CASE conf.flags.g
        BY <1>9, <4>1 DEF ProcessKustomization
      <4>2. CASE ~ conf.flags.g
        BY <1>9, <4>2 DEF ProcessKustomization
      <4> QED BY <4>1, <4>2
    <3>2. generators' \in {generators, conf.flags.generators}
      BY <1>9 DEF ProcessKustomization
    <3> QED BY <1>9, <3>1, <3>2 DEF ProcessKustomization
  <2>2. generators' \subseteq DOMAIN written
    BY <1>1, <1>2, <2>1
  <2> QED BY <1>1, <1>2, <1>3, <2>1, <2>2
<1>10. CASE RenderPolicies
  BY <1>1, <1>2, <1>3, <1>10 DEF RenderPolicies, Exit
<1>11. CASE RunAgain
  BY <1>1, <1>2, <1>3, <1>11 DEF RunAgain
<1>12. CASE Done \/ UNCHANGED vars
  BY <1>1, <1>2, <1>3, <1>12 DEF Done, vars
<1> QED BY <1>4, <1>5, <1>6, <1>7, <1>8, <1>9, <1>10, <1>11, <1>12 DEF Next

(* A template is read: nothing is converted yet.                           *)
LEMMA ReadStep ==
  ASSUME Inv, ReadTemplate, OutGrows(out, out'), conf' = conf
  PROVE  ConversionInv'
<1>1. CASE pc' = "exit"
  BY <1>1 DEF ConversionInv
<1>2. CASE pc' # "exit"
  <2> DEFINE tm == conf.templates[t + 1]
  <2>1. /\ t' = t + 1 /\ acm' = <<>> /\ todo' = {s.policy : s \in ToSet(tm.sources)}
        /\ pc' = IF todo' = {} THEN "schema" ELSE "policy"
        /\ t < Len(conf.templates)
    BY <1>2 DEF ReadTemplate, Exit
  <2>2. Template' = tm /\ tm.sources \in Seq(SourceFile)
    BY <2>1, InputFacts DEF Inv, FilesInv, ControlInv, Template
  <2>3. todo' = PoliciesOf(tm)
    BY <2>1 DEF ToSet, PoliciesOf
  <2> HIDE DEF tm
  <2>4. todo' \subseteq Nat
    BY <2>2, <2>3, SourcesFacts DEF PoliciesOf
  <2>5. DOMAIN acm' = {} /\ acm' \in Seq({})
    BY <2>1
  <2>6. PoliciesOK(tm, out', acm') /\ NamesOf(acm') = {} /\ PoliciesDone(tm, out', acm') /\ PatchesKept(tm, acm')
    BY <2>5 DEF PoliciesOK, NamesOf, PoliciesDone, PatchesKept
  <2> QED BY <2>1, <2>2, <2>3, <2>4, <2>5, <2>6 DEF ConversionInv
<1> QED BY <1>1, <1>2

(* One more policy is converted.                                           *)
LEMMA ConvertStep ==
  ASSUME Inv, ConvertPolicy, OutGrows(out, out'), conf' = conf
  PROVE  ConversionInv'
<1>1. CASE pc' = "exit"
  BY <1>1 DEF ConversionInv
<1>2. CASE pc' # "exit"
  <2> DEFINE q == Min(todo)
             tm == Template
             new == ConvertedPolicy(q)
  <2>1. /\ pc = "policy" /\ pc' = "render" /\ t' = t /\ out' = out
        /\ acm' = Append(acm, new) /\ todo' = todo \ {q} /\ at' = First(acm')
        /\ placements' = IF conf.flags.w THEN placements \union {<<t, q>>} ELSE placements
        /\ \A k \in Entries(q) : Template.dir \in DOMAIN out /\ ManifestOf(k).path \in DOMAIN Files
    BY <1>2 DEF ConvertPolicy, Exit, GeneratePlacementFile
  <2>2. t \in Templates /\ tm.sources \in Seq(SourceFile) /\ Template' = Template
    BY <2>1, InputFacts DEF Inv, FilesInv, ControlInv, Template
  <2>3. /\ PoliciesOK(tm, out, acm) /\ todo \subseteq Nat /\ todo # {}
        /\ NamesOf(acm) \union todo = PoliciesOf(tm)
        /\ \A i \in DOMAIN acm : \A r \in todo : acm[i].name < r
    BY <2>1 DEF Inv, ConversionInv
  <2>4. q \in todo /\ q \in Nat /\ \A r \in todo : q <= r
    BY <2>3, MinProperties
  <2>5. Entries(q) = SourcesOf(tm, q) /\ SourcesOf(tm, q) # {}
    BY <2>3, <2>4 DEF Entries, SourcesOf, PoliciesOf
  <2>6. /\ new = [name |-> new.name, wave |-> new.wave, manifests |-> new.manifests]
        /\ new.name = q /\ new.manifests = [k \in SourcesOf(tm, q) |-> ManifestOf(k)]
        /\ new.wave = LET w == Files[ManifestOf(Max(SourcesOf(tm, q))).path].wave
                      IN  IF w \in Numbers THEN w ELSE ""
    BY <2>5 DEF ConvertedPolicy
  <2>7. \A k : /\ ManifestOf(k).path = <<tm.sources[k].file>> /\ ManifestOf(k).patch = tm.sources[k].patch
               /\ ManifestOf(k) = [path |-> ManifestOf(k).path, patch |-> ManifestOf(k).patch,
                                   openapi |-> ManifestOf(k).openapi]
    BY DEF ManifestOf
  <2> HIDE DEF q, tm, new
  <2>8. \A k \in SourcesOf(tm, q) : ManifestOK(tm, out, tm.sources[k], ManifestOf(k))
    BY <2>1, <2>5, <2>7 DEF ManifestOK, tm, Files
  <2>9. PolicyOK(tm, out, new)
    <3>1. Files[ManifestOf(Max(SourcesOf(tm, q))).path].wave = WaveOf(tm, out, q)
      BY <2>7 DEF WaveOf, Files, tm
    <3>2. DOMAIN new.manifests = SourcesOf(tm, q) /\ \A k \in SourcesOf(tm, q) : new.manifests[k] = ManifestOf(k)
      BY <2>6
    <3>3. new.manifests = [k \in SourcesOf(tm, q) |-> new.manifests[k]]
      BY <2>6
    <3>4. new.wave = IF WaveOf(tm, out, q) \in Numbers THEN WaveOf(tm, out, q) ELSE ""
      BY <2>6, <3>1
    <3> QED BY <2>4, <2>5, <2>6, <2>8, <3>2, <3>3, <3>4 DEF PolicyOK
  <2>10. PICK S : acm \in Seq(S)
    BY <2>3 DEF PoliciesOK
  <2>11. /\ acm' \in Seq(S \union {new}) /\ Len(acm) \in Nat
         /\ DOMAIN acm = 1..Len(acm) /\ DOMAIN acm' = 1..Len(acm) + 1
         /\ \A i \in DOMAIN acm : acm'[i] = acm[i]
         /\ acm'[Len(acm) + 1] = new
    <3>1. acm \in Seq(S \union {new})
      BY <2>10, SeqMonotonic
    <3> QED BY <2>1, <3>1, AppendProperties
  <2> DEFINE last == Len(acm) + 1
  <2>20. /\ \A i \in DOMAIN acm' : i \in DOMAIN acm \/ i = last
         /\ \A i \in DOMAIN acm : i \in DOMAIN acm' /\ i < last /\ i \in Nat /\ i >= 1
         /\ last \in DOMAIN acm' /\ last \in Nat /\ last >= 1
    BY <2>11
  <2>21. /\ \A i \in DOMAIN acm : acm[i].name \in Nat /\ acm[i].name < q /\ acm'[i].name = acm[i].name
         /\ acm'[last].name = q
    BY <2>3, <2>4, <2>6, <2>11 DEF PoliciesOK, PolicyOK
  <2> HIDE DEF last
  <2>12. PoliciesOK(tm, out, acm')
    <3>1. \A i \in DOMAIN acm' : PolicyOK(tm, out, acm'[i])
      BY <2>3, <2>9, <2>11, <2>20 DEF PoliciesOK, last
    <3>2. ASSUME NEW i \in DOMAIN acm', NEW j \in DOMAIN acm', i < j PROVE acm'[i].name < acm'[j].name
      <4>1. i \in DOMAIN acm
        BY <2>20, <3>2
      <4>2. CASE j \in DOMAIN acm
        BY <2>3, <2>21, <3>2, <4>1, <4>2 DEF PoliciesOK
      <4>3. CASE j = last
        BY <2>21, <4>1, <4>3
      <4> QED BY <2>20, <4>2, <4>3
    <3> QED BY <2>11, <3>1, <3>2 DEF PoliciesOK
  <2>13. NamesOf(acm') \union todo' = PoliciesOf(tm)
    <3>1. NamesOf(acm') \subseteq NamesOf(acm) \union {q}
      BY <2>20, <2>21 DEF NamesOf
    <3>2. NamesOf(acm) \union {q} \subseteq NamesOf(acm')
      BY <2>20, <2>21 DEF NamesOf
    <3> QED BY <2>1, <2>3, <2>4, <3>1, <3>2
  <2>14. \A i \in DOMAIN acm' : \A r \in todo' : acm'[i].name < r
    <3> SUFFICES ASSUME NEW i \in DOMAIN acm', NEW r \in todo' PROVE acm'[i].name < r
      OBVIOUS
    <3>1. r \in todo /\ r # q /\ r \in Nat /\ q < r
      BY <2>1, <2>3, <2>4
    <3>2. CASE i \in DOMAIN acm
      BY <2>21, <2>4, <3>1, <3>2
    <3> QED BY <2>20, <2>21, <3>1, <3>2
  <2>15. ~ conf.flags.a => PatchesKept(tm, acm')
    <3> HAVE ~ conf.flags.a
    <3>1. PatchesKept(tm, acm)
      BY <2>1 DEF Inv, ConversionInv, tm
    <3>2. \A k \in DOMAIN new.manifests : new.manifests[k].patch = tm.sources[k].patch
      BY <2>6, <2>7
    <3> QED BY <2>11, <3>1, <3>2 DEF PatchesKept
  <2>16. conf.flags.w => \A i \in DOMAIN acm' : <<t, acm'[i].name>> \in placements'
    <3> HAVE conf.flags.w
    <3>1. \A i \in DOMAIN acm : <<t, acm[i].name>> \in placements
      BY <2>1 DEF Inv, ConversionInv
    <3>2. placements' = placements \union {<<t, q>>}
      BY <2>1
    <3>3. \A i \in DOMAIN acm' : acm'[i].name = q \/ \E j \in DOMAIN acm : acm'[i].name = acm[j].name
      BY <2>20, <2>21
    <3> QED BY <3>1, <3>2, <3>3
  <2>17. /\ at' = <<at'[1], at'[2]>> /\ at'[1] \in DOMAIN acm' /\ at'[2] \in DOMAIN acm'[at'[1]].manifests
         /\ \A i \in DOMAIN acm' : \A k \in DOMAIN acm'[i].manifests :
               ~ (i < at'[1] \/ (i = at'[1] /\ k < at'[2]))
    <3> DEFINE ks == DOMAIN acm'[1].manifests
    <3>1. 1 \in DOMAIN acm' /\ at' = <<1, Min(ks)>>
      <4>1. 1 \in DOMAIN acm'
        BY <2>11
      <4>2. First(acm') = <<1, Min(ks)>>
        BY DEF First
      <4> QED BY <2>1, <4>1, <4>2
    <3>2. ks = SourcesOf(tm, acm'[1].name) /\ ks # {}
      BY <2>12, <3>1 DEF PoliciesOK, PolicyOK
    <3>3. ks \subseteq Nat
      BY <2>2, <3>2, SourcesFacts DEF tm
    <3> HIDE DEF ks
    <3>4. Min(ks) \in ks /\ \A k \in ks : Min(ks) <= k
      BY <3>2, <3>3, MinProperties
    <3>5. at'[1] = 1 /\ at'[2] = Min(ks) /\ at' = <<at'[1], at'[2]>>
      BY <3>1
    <3>6. \A i \in DOMAIN acm' : ~ (i < 1)
      BY <2>20
    <3>7. \A k \in ks : ~ (k < Min(ks))
      <4> DEFINE m == Min(ks)
      <4>1. m \in Nat /\ \A k \in ks : k \in Nat /\ m <= k
        BY <3>3, <3>4
      <4> HIDE DEF m
      <4>2. \A k \in ks : ~ (k < m)
        BY <4>1
      <4> QED BY <4>2 DEF m
    <3> QED BY <3>1, <3>4, <3>5, <3>6, <3>7 DEF ks
  <2>18. todo' \subseteq Nat
    BY <2>1, <2>3
  <2>19. Template' = tm
    BY <2>2 DEF tm
  <2> QED BY <2>1, <2>12, <2>13, <2>14, <2>15, <2>16, <2>17, <2>18, <2>19 DEF ConversionInv
<1> QED BY <1>1, <1>2

(* Exchanging one manifest of one policy.                                  *)
Exchanged(ps, a, b, nm, new) ==
    /\ new = [i \in DOMAIN ps |-> new[i]] /\ \A i \in DOMAIN ps : i # a => new[i] = ps[i]
    /\ new[a] = [ps[a] EXCEPT !.manifests = [ps[a].manifests EXCEPT ![b] = nm]]

SameBut(ps, a, b, nm, new) ==
    /\ DOMAIN new = DOMAIN ps /\ new[a].manifests[b] = nm
    /\ \A i \in DOMAIN ps : new[i].name = ps[i].name /\ DOMAIN new[i].manifests = DOMAIN ps[i].manifests
    /\ \A i \in DOMAIN ps : \A k \in DOMAIN ps[i].manifests :
          i # a \/ k # b => new[i].manifests[k] = ps[i].manifests[k]

LEMMA ExchangeManifest ==
  ASSUME NEW tm, NEW o, NEW ps, PoliciesOK(tm, o, ps), NEW a \in DOMAIN ps, NEW b \in DOMAIN ps[a].manifests,
         NEW nm, ManifestOK(tm, o, tm.sources[b], nm),
         NEW new, Exchanged(ps, a, b, nm, new)
  PROVE  PoliciesOK(tm, o, new) /\ SameBut(ps, a, b, nm, new)
<1> DEFINE p == ps[a]
           ms == [p.manifests EXCEPT ![b] = nm]
           ks == SourcesOf(tm, p.name)
<1>1. PolicyOK(tm, o, p)
  BY DEF PoliciesOK
<1>2. p = [name |-> p.name, wave |-> p.wave, manifests |-> p.manifests]
  BY <1>1 DEF PolicyOK
<1>3. DOMAIN p.manifests = ks /\ p.manifests = [k \in ks |-> p.manifests[k]]
  BY <1>1 DEF PolicyOK
<1>4. DOMAIN new = DOMAIN ps /\ (\A i \in DOMAIN ps : i # a => new[i] = ps[i])
      /\ new[a] = [p EXCEPT !.manifests = ms]
  BY DEF Exchanged
<1>5. DOMAIN ms = ks /\ ms[b] = nm /\ (\A k \in ks : k # b => ms[k] = p.manifests[k])
      /\ ms = [k \in ks |-> ms[k]]
  BY <1>3
<1> HIDE DEF p, ms
<1>6. new[a] = [name |-> p.name, wave |-> p.wave, manifests |-> ms]
  BY <1>2, <1>4
<1>7. new[a].name = p.name /\ new[a].wave = p.wave /\ new[a].manifests = ms
  BY <1>6
<1>8. PolicyOK(tm, o, new[a])
  <2>1. \A k \in ks : ManifestOK(tm, o, tm.sources[k], ms[k])
    BY <1>1, <1>5 DEF PolicyOK
  <2> QED BY <1>1, <1>5, <1>6, <1>7, <2>1 DEF PolicyOK
<1>9. PICK S : ps \in Seq(S)
  BY DEF PoliciesOK
<1>10. new \in Seq(S \union {new[a]})
  <2>1. Len(ps) \in Nat /\ DOMAIN ps = 1..Len(ps) /\ \A i \in DOMAIN ps : ps[i] \in S
    BY <1>9
  <2>2. new \in [1..Len(ps) -> S \union {new[a]}]
    BY <1>4, <2>1 DEF Exchanged
  <2> QED BY <2>1, <2>2, SeqDef
<1>11. \A i \in DOMAIN ps : new[i].name = ps[i].name
  BY <1>4, <1>7 DEF p
<1>12. PoliciesOK(tm, o, new)
  <2>1. \A i \in DOMAIN new : PolicyOK(tm, o, new[i])
    BY <1>4, <1>8 DEF PoliciesOK
  <2>2. \A i, j \in DOMAIN new : i < j => new[i].name < new[j].name
    BY <1>4, <1>11 DEF PoliciesOK
  <2> QED BY <1>10, <2>1, <2>2 DEF PoliciesOK
<1>13. \A i \in DOMAIN ps : DOMAIN new[i].manifests = DOMAIN ps[i].manifests
  BY <1>3, <1>4, <1>5, <1>7 DEF p
<1>14. \A i \in DOMAIN ps : \A k \in DOMAIN ps[i].manifests :
           i # a \/ k # b => new[i].manifests[k] = ps[i].manifests[k]
  BY <1>3, <1>4, <1>5, <1>7 DEF p
<1> QED BY <1>4, <1>5, <1>7, <1>11, <1>12, <1>13, <1>14 DEF SameBut

(* One manifest is rendered, and the rendering goes on after it.           *)
LEMMA RenderConversionStep ==
  ASSUME Inv, RenderManifest, OutGrows(out, out'), conf' = conf
  PROVE  ConversionInv'
<1>1. CASE pc' = "exit"
  BY <1>1 DEF ConversionInv
<1>2. CASE pc' # "exit"
  <2> DEFINE a == at[1]
             b == at[2]
             tm == Template
             man == acm[a].manifests[b]
             path == RenderedPath(man.path, Files[man.path])
             rendered == [out EXCEPT ![Template.dir] = Put(@, path, RenderMCPLines(Files[man.path]))]
             rest == {k \in DOMAIN acm[a].manifests : k > b}
  <2>1. /\ pc = "render" /\ out' = rendered /\ t' = t /\ todo' = todo /\ placements' = placements
        /\ AfterManifest
    BY <1>2 DEF RenderManifest, Exit
  <2>2. PICK pt, op : /\ acm' = [acm EXCEPT ![a].manifests[b] = [path |-> path, patch |-> pt, openapi |-> op]]
                      /\ ~ conf.flags.a => pt = man.patch
    BY <1>2 DEF RenderManifest, Exit
  <2>3. /\ t \in Templates /\ tm.sources \in Seq(SourceFile) /\ tm.dir \in DOMAIN out
        /\ a \in DOMAIN acm /\ b \in DOMAIN acm[a].manifests /\ b \in DOMAIN tm.sources
        /\ ManifestOK(tm, out, tm.sources[b], man)
    BY <2>1, AtManifest
  <2>4. /\ DOMAIN rendered = DOMAIN out
        /\ path \in DOMAIN rendered[tm.dir] /\ Rendered(rendered[tm.dir][path])
        /\ path \in {man.path, <<man.path[1], tm.mcp>>}
        /\ (rendered[tm.dir][path].mcp = "none"
            \/ (path = <<path[1], path[2]>> /\ rendered[tm.dir][path].mcp = path[2]))
    BY <2>1, RenderStep
  <2>5. /\ PoliciesOK(tm, out, acm) /\ todo \subseteq Nat /\ NamesOf(acm) \union todo = PoliciesOf(tm)
        /\ \A i \in DOMAIN acm : \A q \in todo : acm[i].name < q
    BY <2>1 DEF Inv, ConversionInv
  <2>6. \A i \in DOMAIN acm : \A k \in DOMAIN acm[i].manifests :
             i < a \/ (i = a /\ k < b) => ManifestDone(tm, out, acm[i].manifests[k])
    BY <2>1 DEF Inv, ConversionInv
  <2>7. /\ \A i \in DOMAIN acm : acm[i].name \in Nat /\ DOMAIN acm[i].manifests # {}
                                 /\ DOMAIN acm[i].manifests \subseteq Nat
        /\ Len(acm) \in Nat /\ DOMAIN acm = 1..Len(acm)
    <3>1. \A i \in DOMAIN acm : acm[i].name \in Nat /\ DOMAIN acm[i].manifests = SourcesOf(tm, acm[i].name)
                                /\ SourcesOf(tm, acm[i].name) # {}
      BY <2>5 DEF PoliciesOK, PolicyOK
    <3>2. PICK S : acm \in Seq(S)
      BY <2>5 DEF PoliciesOK
    <3>3. Len(tm.sources) \in Nat /\ \A q : SourcesOf(tm, q) \subseteq 1..Len(tm.sources)
      BY <2>3, SourcesFacts
    <3> QED BY <3>1, <3>2, <3>3
  <2>8. Template' = Template
    BY <2>1 DEF Template
  <2> HIDE DEF tm, path, rendered, man
  <2>9. /\ PoliciesOK(tm, out', acm)
        /\ \A i \in DOMAIN acm : \A k \in DOMAIN acm[i].manifests :
             i < a \/ (i = a /\ k < b) => ManifestDone(tm, out', acm[i].manifests[k])
    <3>1. PoliciesOK(tm, out', acm)
      BY <2>3, <2>5, GrowingKeeps, PoliciesStay
    <3>2. ASSUME NEW i \in DOMAIN acm, NEW k \in DOMAIN acm[i].manifests,
                 ManifestDone(tm, out, acm[i].manifests[k])
          PROVE  ManifestDone(tm, out', acm[i].manifests[k])
      BY <2>5, <3>2, ManifestOfPolicy, GrowingKeeps, ManifestStays
    <3> QED BY <2>6, <3>1, <3>2
  <2> DEFINE made == [path |-> path, patch |-> pt, openapi |-> op]
  <2>10. ManifestOK(tm, out', tm.sources[b], made) /\ ManifestDone(tm, out', made)
    <3>1. made.path = path /\ made = [path |-> made.path, patch |-> made.patch, openapi |-> made.openapi]
      OBVIOUS
    <3> HIDE DEF made
    <3> DEFINE src == tm.sources[b]
    <3>2. ManifestOK(tm, out', src, man)
      BY <2>3, GrowingKeeps, ManifestStays
    <3>3. man.path \in {<<src.file>>, <<src.file, tm.mcp>>} /\ tm.dir \in DOMAIN out' /\ <<src.file>> \in DOMAIN out'[tm.dir]
      BY <3>2 DEF ManifestOK
    <3> HIDE DEF src
    <3>4. man.path[1] = src.file /\ path \in {<<src.file>>, <<src.file, tm.mcp>>}
      BY <2>4, <3>3, Paths
    <3>5. out'[tm.dir][path].mcp \in {"none", tm.mcp}
      <4>1. path = <<path[1], path[2]>> => path[2] = tm.mcp
        BY <3>4, Paths
      <4> QED BY <2>1, <2>4, <4>1
    <3>6. ManifestOK(tm, out', src, made)
      BY <2>1, <2>4, <3>1, <3>3, <3>4 DEF ManifestOK
    <3>7. ManifestDone(tm, out', made)
      BY <2>1, <2>4, <3>1, <3>5 DEF ManifestDone, ManifestPlaced
    <3> QED BY <3>6, <3>7 DEF src
  <2> HIDE DEF made
  <2>11. /\ PoliciesOK(tm, out', acm') /\ DOMAIN acm' = DOMAIN acm
         /\ \A i \in DOMAIN acm : acm'[i].name = acm[i].name /\ DOMAIN acm'[i].manifests = DOMAIN acm[i].manifests
         /\ acm'[a].manifests[b] = made
         /\ \A i \in DOMAIN acm : \A k \in DOMAIN acm[i].manifests :
               i # a \/ k # b => acm'[i].manifests[k] = acm[i].manifests[k]
    <3>1. acm' = [acm EXCEPT ![a].manifests[b] = made]
      BY <2>2 DEF made
    <3>2. /\ PoliciesOK(tm, out', acm) /\ a \in DOMAIN acm /\ b \in DOMAIN acm[a].manifests
          /\ ManifestOK(tm, out', tm.sources[b], made)
      BY <2>3, <2>9, <2>10
    <3> HIDE DEF a, b
    <3>3. Exchanged(acm, a, b, made, acm')
      BY <3>1, <3>2 DEF Exchanged
    <3>4. PoliciesOK(tm, out', acm') /\ SameBut(acm, a, b, made, acm')
      BY <3>2, <3>3, ExchangeManifest
    <3> QED BY <3>4 DEF SameBut
  <2>12. ~ conf.flags.a => PatchesKept(tm, acm')
    <3> HAVE ~ conf.flags.a
    <3>1. PatchesKept(tm, acm)
      BY <2>1 DEF Inv, ConversionInv, tm
    <3>2. made.patch = tm.sources[b].patch
      BY <2>2, <2>3, <3>1 DEF PatchesKept, made, man
    <3> QED BY <2>11, <3>1, <3>2 DEF PatchesKept
  <2>13. NamesOf(acm') = NamesOf(acm) /\ (\A i \in DOMAIN acm' : \A q \in todo : acm'[i].name < q)
    BY <2>5, <2>11 DEF NamesOf
  <2>14. conf.flags.w => \A i \in DOMAIN acm' : <<t, acm'[i].name>> \in placements
    <3> HAVE conf.flags.w
    <3>1. \A i \in DOMAIN acm : <<t, acm[i].name>> \in placements
      BY <2>1 DEF Inv, ConversionInv
    <3> QED BY <2>11, <3>1
  <2>15. \A i \in DOMAIN acm : \A k \in DOMAIN acm[i].manifests :
            i < a \/ (i = a /\ k <= b) => ManifestDone(tm, out', acm'[i].manifests[k])
    <3> SUFFICES ASSUME NEW i \in DOMAIN acm, NEW k \in DOMAIN acm[i].manifests,
                        i < a \/ (i = a /\ k <= b)
                 PROVE  ManifestDone(tm, out', acm'[i].manifests[k])
      OBVIOUS
    <3>1. CASE i = a /\ k = b
      BY <2>10, <2>11, <3>1
    <3>2. CASE i # a \/ k # b
      <4>1. i \in Nat /\ a \in Nat /\ k \in Nat /\ b \in Nat
        BY <2>3, <2>7
      <4>2. i < a \/ (i = a /\ k < b)
        BY <3>2, <4>1
      <4> QED BY <2>9, <2>11, <3>2, <4>2
    <3> QED BY <3>1, <3>2
  <2>16. /\ pc' = "policy" => todo # {}
         /\ pc' = "render" =>
              /\ at' = <<at'[1], at'[2]>> /\ at'[1] \in DOMAIN acm' /\ at'[2] \in DOMAIN acm'[at'[1]].manifests
              /\ \A i \in DOMAIN acm' : \A k \in DOMAIN acm'[i].manifests :
                    i < at'[1] \/ (i = at'[1] /\ k < at'[2]) => ManifestDone(tm, out', acm'[i].manifests[k])
         /\ pc' = "schema" => todo = {} /\ PoliciesDone(tm, out', acm')
         /\ pc' \in {"policy", "render", "schema"}
    <3>1. a \in 1..Len(acm) /\ b \in Nat /\ \A i \in DOMAIN acm : i \in 1..Len(acm)
      BY <2>3, <2>7
    <3>2. CASE rest # {}
      <4>1. at' = <<a, Min(rest)>> /\ pc' = "render"
        BY <2>1, <3>2 DEF AfterManifest
      <4>2. rest \subseteq Nat
        BY <2>3, <2>7
      <4>3. Min(rest) \in rest /\ \A k \in rest : Min(rest) <= k
        BY <3>2, <4>2, MinProperties
      <4> DEFINE m == Min(rest)
      <4>4. m \in DOMAIN acm[a].manifests /\ m \in Nat
        BY <4>2, <4>3
      <4>5. \A k \in DOMAIN acm[a].manifests : k < m => k <= b
        <5> SUFFICES ASSUME NEW k \in DOMAIN acm[a].manifests, k < m, ~ (k <= b) PROVE FALSE
          OBVIOUS
        <5>1. k \in Nat /\ k \in rest
          BY <2>3, <2>7, <3>1
        <5>2. m <= k
          BY <4>3, <5>1
        <5> HIDE DEF m
        <5> QED BY <4>4, <5>1, <5>2
      <4> HIDE DEF m, rest
      <4>6. at'[1] = a /\ at'[2] = m /\ at' = <<at'[1], at'[2]>>
        BY <4>1 DEF m
      <4>7. \A i \in DOMAIN acm' : \A k \in DOMAIN acm'[i].manifests :
                i < a \/ (i = a /\ k < m) => ManifestDone(tm, out', acm'[i].manifests[k])
        BY <2>11, <2>15, <4>5
      <4> HIDE DEF a, b
      <4> QED BY <2>3, <2>11, <4>1, <4>4, <4>6, <4>7
    <3>3. CASE rest = {} /\ a < Len(acm)
      <4> DEFINE m == Min(DOMAIN acm[a + 1].manifests)
      <4>1. at' = <<a + 1, m>> /\ pc' = "render"
        BY <2>1, <3>3 DEF AfterManifest
      <4>2. a + 1 \in DOMAIN acm
        BY <2>7, <3>1, <3>3
      <4>3. m \in DOMAIN acm[a + 1].manifests /\ \A k \in DOMAIN acm[a + 1].manifests : m <= k /\ k \in Nat
        BY <2>7, <4>2, MinProperties
      <4>4. m \in Nat
        BY <2>7, <4>2, <4>3
      <4>5. \A k \in DOMAIN acm[a].manifests : k <= b
        BY <2>3, <2>7, <3>1, <3>3
      <4> HIDE DEF m, rest
      <4>6. at'[1] = a + 1 /\ at'[2] = m /\ at' = <<at'[1], at'[2]>>
        BY <4>1
      <4>7. ASSUME NEW i \in DOMAIN acm, NEW k \in DOMAIN acm[i].manifests,
                   i < a + 1 \/ (i = a + 1 /\ k < m)
            PROVE  ManifestDone(tm, out', acm'[i].manifests[k])
        <5>1. ~ (i = a + 1 /\ k < m)
          BY <4>3, <4>4
        <5>2. i < a \/ i = a
          BY <3>1, <4>7, <5>1
        <5> QED BY <2>15, <4>5, <5>2
      <4> HIDE DEF a, b
      <4> QED BY <2>11, <4>1, <4>2, <4>3, <4>6, <4>7
    <3>4. CASE rest = {} /\ ~ (a < Len(acm))
      <4>1. pc' = IF todo = {} THEN "schema" ELSE "policy"
        BY <2>1, <3>4 DEF AfterManifest
      <4>2. \A k \in DOMAIN acm[a].manifests : k <= b
        BY <2>3, <2>7, <3>1, <3>4
      <4>3. \A i \in DOMAIN acm : i < a \/ i = a
        BY <2>7, <3>1, <3>4
      <4>4. PoliciesDone(tm, out', acm')
        BY <2>11, <2>15, <4>2, <4>3 DEF PoliciesDone
      <4> QED BY <4>1, <4>4
    <3> QED BY <3>2, <3>3, <3>4
  <2>17. Template' = tm
    BY <2>8 DEF tm
  <2> HIDE DEF a, b
  <2> QED BY <2>1, <2>5, <2>11, <2>12, <2>13, <2>14, <2>16, <2>17 DEF ConversionInv
<1> QED BY <1>1, <1>2

LEMMA ConversionStep ==
  ASSUME Inv, [Next]_vars
  PROVE  ConversionInv'
<1>0. CASE pc' = "exit"
  BY <1>0 DEF ConversionInv
<1> SUFFICES ASSUME pc' # "exit" PROVE ConversionInv'
  BY <1>0
<1>1. OutGrows(out, out') /\ conf' = conf
  BY OutStep
<1>2. CASE ReadTemplate
  BY <1>1, <1>2, ReadStep
<1>3. CASE ConvertPolicy
  BY <1>1, <1>3, ConvertStep
<1>4. CASE RenderManifest
  BY <1>1, <1>4, RenderConversionStep
<1>5. CASE AddSourceCRsInTemplateDir \/ WriteTemplate \/ ProcessKustomization \/ RenderPolicies \/ RunAgain
  <2>1. pc' \notin {"policy", "render", "schema"}
    <3>1. CASE ProcessKustomization
      BY <3>1 DEF ProcessKustomization
    <3> QED BY <1>5, <3>1 DEF AddSourceCRsInTemplateDir, WriteTemplate, RenderPolicies, RunAgain, Exit
  <2> QED BY <2>1 DEF ConversionInv
<1>6. CASE Done \/ UNCHANGED vars
  <2>1. UNCHANGED vars
    BY <1>6 DEF Done
  <2>2. ConversionInv /\ Template' = Template
    BY <2>1 DEF Inv, vars, Template
  <2> QED BY <2>1, <2>2 DEF ConversionInv, vars
<1> QED BY <1>2, <1>3, <1>4, <1>5, <1>6 DEF Next

-----------------------------------------------------------------------------
(* The merge keys are injected, and the template is written.               *)
LEMMA InjectedIs ==
  ASSUME NEW man, man = [path |-> man.path, patch |-> man.patch, openapi |-> man.openapi]
  PROVE  /\ Injected(man) = [path |-> Injected(man).path, patch |-> Injected(man).patch,
                             openapi |-> Injected(man).openapi]
         /\ Injected(man).path = man.path
         /\ conf.flags.s = "good" /\ Files[man.path].kind \in ParseOpenAPISchema(conf.flags.schema)
            => Injected(man).patch = InjectMergeKeys(man.patch, Files[man.path].items)
<1> DEFINE cr == Files[man.path]
           keyed == conf.flags.s = "good" /\ cr.kind \in ParseOpenAPISchema(conf.flags.schema)
           pt == IF keyed THEN InjectMergeKeys(man.patch, cr.items) ELSE man.patch
           yes == TRUE
           r == [man EXCEPT !.openapi = yes]
<1>1. CASE man.patch = <<>>
  <2>1. Injected(man) = man
    BY <1>1 DEF Injected
  <2>2. InjectMergeKeys(<<>>, cr.items) = <<>>
    BY DEF InjectMergeKeys
  <2> QED BY <1>1, <2>1, <2>2
<1>2. CASE man.patch # <<>>
  <2>1. Injected(man) = [man EXCEPT !.openapi = yes, !.patch = pt]
    BY <1>2 DEF Injected
  <2> HIDE DEF pt, yes
  <2>2. r = [path |-> man.path, patch |-> man.patch, openapi |-> yes]
    OBVIOUS
  <2>3. [man EXCEPT !.openapi = yes, !.patch = pt] = [r EXCEPT !.patch = pt]
    OBVIOUS
  <2> HIDE DEF r
  <2>4. [r EXCEPT !.patch = pt] = [path |-> man.path, patch |-> pt, openapi |-> yes]
    BY <2>2
  <2>5. Injected(man) = [path |-> man.path, patch |-> pt, openapi |-> yes]
    BY <2>1, <2>3, <2>4
  <2>6. Injected(man).path = man.path /\ Injected(man).patch = pt /\ Injected(man).openapi = yes
    BY <2>5
  <2> QED BY <2>5, <2>6 DEF pt
<1> QED BY <1>1, <1>2

WithKeys(ps) ==
    [i \in DOMAIN ps |-> [ps[i] EXCEPT !.manifests = [j \in DOMAIN @ |-> Injected(@[j])]]]

LEMMA InjectPolicies ==
  ASSUME NEW ps, PoliciesOK(Template, out, ps)
  PROVE  /\ PoliciesOK(Template, out, WithKeys(ps)) /\ DOMAIN WithKeys(ps) = DOMAIN ps
         /\ \A i \in DOMAIN ps : /\ WithKeys(ps)[i].name = ps[i].name
                                 /\ DOMAIN WithKeys(ps)[i].manifests = DOMAIN ps[i].manifests
         /\ \A i \in DOMAIN ps : \A k \in DOMAIN ps[i].manifests :
               WithKeys(ps)[i].manifests[k] = Injected(ps[i].manifests[k])
<1> DEFINE new == WithKeys(ps)
           tm == Template
           ms(i) == [j \in DOMAIN ps[i].manifests |-> Injected(ps[i].manifests[j])]
<1>1. DOMAIN new = DOMAIN ps /\ \A i \in DOMAIN ps : new[i] = [ps[i] EXCEPT !.manifests = ms(i)]
  BY DEF WithKeys
<1>2. new = [i \in DOMAIN ps |-> new[i]]
  BY DEF WithKeys
<1> HIDE DEF new, tm
<1>3. ASSUME NEW i \in DOMAIN ps
      PROVE  /\ PolicyOK(tm, out, new[i]) /\ new[i].name = ps[i].name
             /\ DOMAIN new[i].manifests = DOMAIN ps[i].manifests
             /\ \A k \in DOMAIN ps[i].manifests : new[i].manifests[k] = Injected(ps[i].manifests[k])
  <2> DEFINE p == ps[i]
             m == ms(i)
  <2>1. PolicyOK(tm, out, p)
    BY DEF PoliciesOK, tm
  <2>2. p = [name |-> p.name, wave |-> p.wave, manifests |-> p.manifests]
        /\ DOMAIN p.manifests = SourcesOf(tm, p.name)
    BY <2>1 DEF PolicyOK
  <2>3. DOMAIN m = DOMAIN p.manifests /\ m = [k \in DOMAIN p.manifests |-> m[k]]
        /\ \A k \in DOMAIN p.manifests : m[k] = Injected(p.manifests[k])
    OBVIOUS
  <2>4. new[i] = [p EXCEPT !.manifests = m]
    BY <1>1
  <2> HIDE DEF p, m
  <2>5. new[i] = [name |-> p.name, wave |-> p.wave, manifests |-> m]
    BY <2>2, <2>4
  <2>6. new[i].name = p.name /\ new[i].wave = p.wave /\ new[i].manifests = m
    BY <2>5
  <2>7. \A k \in SourcesOf(tm, p.name) : ManifestOK(tm, out, tm.sources[k], m[k])
    <3> SUFFICES ASSUME NEW k \in SourcesOf(tm, p.name) PROVE ManifestOK(tm, out, tm.sources[k], m[k])
      OBVIOUS
    <3> DEFINE man == p.manifests[k]
               src == tm.sources[k]
    <3>1. ManifestOK(tm, out, src, man) /\ m[k] = Injected(man)
      BY <2>1, <2>2, <2>3 DEF PolicyOK
    <3> HIDE DEF man, src
    <3>2. /\ m[k] = [path |-> m[k].path, patch |-> m[k].patch, openapi |-> m[k].openapi]
          /\ m[k].path = man.path
      BY <3>1, InjectedIs DEF ManifestOK
    <3>3. ManifestOK(tm, out, src, m[k])
      BY <3>1, <3>2 DEF ManifestOK
    <3> QED BY <3>3 DEF src
  <2>8. PolicyOK(tm, out, new[i])
    BY <2>1, <2>2, <2>3, <2>5, <2>6, <2>7 DEF PolicyOK
  <2> QED BY <2>3, <2>6, <2>8 DEF p
<1>4. new \in Seq({new[i] : i \in DOMAIN ps})
  <2>1. PICK S : ps \in Seq(S)
    BY DEF PoliciesOK
  <2>2. Len(ps) \in Nat /\ DOMAIN ps = 1..Len(ps)
    BY <2>1
  <2>3. new \in [1..Len(ps) -> {new[i] : i \in DOMAIN ps}]
    BY <1>2, <2>2
  <2> QED BY <2>2, <2>3, SeqDef
<1>5. \A i, j \in DOMAIN new : i < j => new[i].name < new[j].name
  BY <1>1, <1>3 DEF PoliciesOK
<1>6. PoliciesOK(tm, out, new)
  BY <1>1, <1>3, <1>4, <1>5 DEF PoliciesOK
<1> QED BY <1>1, <1>3, <1>6 DEF new, tm

LEMMA WriteStep ==
  ASSUME Inv, pc = "schema",
         NEW w, w.policies = IF conf.flags.s = "none" THEN acm ELSE WithKeys(acm),
         w.selector = IF acm = <<>> THEN {} ELSE LabelToSelector(Template.rules, Template.excluded),
         w.placementPath = IF conf.flags.w /\ acm # <<>> THEN GeneratePlacementFile(Last(acm).name) ELSE <<>>
  PROVE  WrittenOK(conf, out, placements, Template, w) /\ PoliciesDone(Template, out, w.policies)
<1> DEFINE tm == Template
           ps == w.policies
<1>1. /\ PoliciesOK(tm, out, acm) /\ PoliciesDone(tm, out, acm) /\ NamesOf(acm) = PoliciesOf(tm)
      /\ (~ conf.flags.a => PatchesKept(tm, acm))
      /\ (conf.flags.w => \A i \in DOMAIN acm : <<t, acm[i].name>> \in placements)
  BY DEF Inv, ConversionInv
<1>2. PICK S : acm \in Seq(S)
  BY <1>1 DEF PoliciesOK
<1>3. /\ PoliciesOK(tm, out, WithKeys(acm)) /\ DOMAIN WithKeys(acm) = DOMAIN acm
      /\ \A i \in DOMAIN acm : /\ WithKeys(acm)[i].name = acm[i].name
                               /\ DOMAIN WithKeys(acm)[i].manifests = DOMAIN acm[i].manifests
      /\ \A i \in DOMAIN acm : \A k \in DOMAIN acm[i].manifests :
            WithKeys(acm)[i].manifests[k] = Injected(acm[i].manifests[k])
  BY <1>1, InjectPolicies
<1>4. \A i \in DOMAIN acm : \A k \in DOMAIN acm[i].manifests :
          acm[i].manifests[k] = [path |-> acm[i].manifests[k].path, patch |-> acm[i].manifests[k].patch,
                                 openapi |-> acm[i].manifests[k].openapi]
  <2> SUFFICES ASSUME NEW i \in DOMAIN acm, NEW k \in DOMAIN acm[i].manifests
               PROVE  acm[i].manifests[k] = [path |-> acm[i].manifests[k].path, patch |-> acm[i].manifests[k].patch,
                                             openapi |-> acm[i].manifests[k].openapi]
    OBVIOUS
  <2>1. ManifestOK(tm, out, tm.sources[k], acm[i].manifests[k])
    BY <1>1, ManifestOfPolicy
  <2> QED BY <2>1 DEF ManifestOK
<1>5. \A i \in DOMAIN acm : \A k \in DOMAIN acm[i].manifests :
          /\ WithKeys(acm)[i].manifests[k].path = acm[i].manifests[k].path
          /\ conf.flags.s = "good" /\ Files[acm[i].manifests[k].path].kind \in ParseOpenAPISchema(conf.flags.schema)
               => WithKeys(acm)[i].manifests[k].patch
                  = InjectMergeKeys(acm[i].manifests[k].patch, Files[acm[i].manifests[k].path].items)
  <2> SUFFICES ASSUME NEW i \in DOMAIN acm, NEW k \in DOMAIN acm[i].manifests
               PROVE  /\ WithKeys(acm)[i].manifests[k].path = acm[i].manifests[k].path
                      /\ conf.flags.s = "good" /\ Files[acm[i].manifests[k].path].kind \in ParseOpenAPISchema(conf.flags.schema)
                           => WithKeys(acm)[i].manifests[k].patch
                              = InjectMergeKeys(acm[i].manifests[k].patch, Files[acm[i].manifests[k].path].items)
    OBVIOUS
  <2> DEFINE man == acm[i].manifests[k]
  <2>1. man = [path |-> man.path, patch |-> man.patch, openapi |-> man.openapi]
    BY <1>4
  <2>2. WithKeys(acm)[i].manifests[k] = Injected(man)
    BY <1>3
  <2> HIDE DEF man
  <2>3. Injected(man).path = man.path
        /\ (conf.flags.s = "good" /\ Files[man.path].kind \in ParseOpenAPISchema(conf.flags.schema)
            => Injected(man).patch = InjectMergeKeys(man.patch, Files[man.path].items))
    BY <2>1, InjectedIs
  <2> QED BY <2>2, <2>3 DEF man
<1> HIDE DEF tm
<1>6. DOMAIN ps = DOMAIN acm /\ PoliciesOK(tm, out, ps) /\ PoliciesDone(tm, out, ps) /\ NamesOf(ps) = PoliciesOf(tm)
  <2>1. CASE conf.flags.s = "none"
    BY <1>1, <2>1
  <2>2. CASE conf.flags.s # "none"
    <3>1. ps = WithKeys(acm)
      BY <2>2
    <3> HIDE DEF ps
    <3>2. PoliciesDone(tm, out, ps)
      BY <1>1, <1>3, <1>5, <3>1 DEF PoliciesDone, ManifestDone, ManifestPlaced
    <3>3. NamesOf(ps) = NamesOf(acm)
      BY <1>3, <3>1 DEF NamesOf
    <3> QED BY <1>1, <1>3, <3>1, <3>2, <3>3
  <2> QED BY <2>1, <2>2
<1>7. ~ conf.flags.a /\ conf.flags.s = "good" => PatchesInjected(conf, tm, out, ps)
  <2> HAVE ~ conf.flags.a /\ conf.flags.s = "good"
  <2>1. ps = WithKeys(acm)
    OBVIOUS
  <2> HIDE DEF ps
  <2>2. PatchesKept(tm, acm)
    BY <1>1
  <2>3. Files = out[tm.dir]
    BY DEF Files, tm
  <2> QED BY <1>3, <1>5, <2>1, <2>2, <2>3 DEF PatchesInjected, PatchesKept
<1>8. ps # <<>> => w.selector = LabelToSelector(tm.rules, tm.excluded)
  <2>1. acm = <<>> => ps = <<>>
    <3> HAVE acm = <<>>
    <3>1. WithKeys(acm) = <<>>
      BY DEF WithKeys
    <3> QED BY <3>1
  <2> QED BY <2>1 DEF tm
<1>9. w.placementPath # <<>> => w.placementPath \in placements
  <2> HAVE w.placementPath # <<>>
  <2>1. conf.flags.w /\ acm # <<>>
    OBVIOUS
  <2>2. Len(acm) \in DOMAIN acm
    BY <1>2, <2>1, EmptySeq
  <2>3. w.placementPath = <<t, acm[Len(acm)].name>>
    BY <2>1 DEF GeneratePlacementFile, Last
  <2> QED BY <1>1, <2>1, <2>2, <2>3
<1>10. PoliciesPlaced(tm, out, ps)
  BY <1>6 DEF PoliciesDone, PoliciesPlaced, ManifestDone
<1> QED BY <1>6, <1>7, <1>8, <1>9, <1>10 DEF WrittenOK, tm

LEMMA WrittenStep ==
  ASSUME Inv, [Next]_vars
  PROVE  WrittenInv'
<1>1. OutKept(out, out') /\ conf' = conf
  BY OutStep
<1>2. WrittenInv /\ \A i \in DOMAIN written : conf.templates[i].sources \in Seq(SourceFile)
  BY InputFacts DEF Inv, FilesInv, ControlInv
<1>3. placements \subseteq placements'
  <2>1. placements' = placements \/ \E x : placements' = placements \union {x}
    BY DEF Next, vars, AddSourceCRsInTemplateDir, ReadTemplate, ConvertPolicy, RenderManifest, WriteTemplate,
           ProcessKustomization, RenderPolicies, RunAgain, Done
  <2> QED BY <2>1
<1>4. ASSUME NEW i \in DOMAIN written
      PROVE  WrittenOK(conf', out', placements', conf'.templates[i], written[i])
  <2>1. WrittenOK(conf, out, placements, conf.templates[i], written[i])
    BY <1>2 DEF WrittenInv
  <2>2. WrittenOK(conf, out', placements', conf.templates[i], written[i])
    BY <1>1, <1>2, <1>3, <2>1, WrittenStays
  <2> QED BY <1>1, <2>2
<1>5. CASE written' = written
  BY <1>4, <1>5 DEF WrittenInv
<1>6. CASE WriteTemplate /\ written' # written
  <2> DEFINE w == [policies |-> IF conf.flags.s = "none" THEN acm
                               ELSE [i \in DOMAIN acm |->
                                       [acm[i] EXCEPT !.manifests = [j \in DOMAIN @ |-> Injected(@[j])]]],
                   selector |-> IF acm = <<>> THEN {} ELSE LabelToSelector(Template.rules, Template.excluded),
                   placementPath |-> IF conf.flags.w /\ acm # <<>> THEN GeneratePlacementFile(Last(acm).name) ELSE <<>>]
  <2>1. pc = "schema" /\ out' = out /\ placements' = placements /\ written' = Put(written, t, w)
    BY <1>6 DEF WriteTemplate
  <2>2. /\ w.policies = IF conf.flags.s = "none" THEN acm ELSE WithKeys(acm)
        /\ w.selector = IF acm = <<>> THEN {} ELSE LabelToSelector(Template.rules, Template.excluded)
        /\ w.placementPath = IF conf.flags.w /\ acm # <<>> THEN GeneratePlacementFile(Last(acm).name) ELSE <<>>
    BY DEF WithKeys
  <2> HIDE DEF w
  <2>3. WrittenOK(conf, out, placements, Template, w)
    BY <2>1, <2>2, WriteStep
  <2>4. \A i \in DOMAIN written' : written'[i] = IF i = t THEN w ELSE written[i]
    BY <2>1 DEF Put
  <2>5. DOMAIN written' = DOMAIN written \union {t}
    BY <2>1 DEF Put
  <2>6. ASSUME NEW i \in DOMAIN written' PROVE WrittenOK(conf', out', placements', conf'.templates[i], written'[i])
    <3>1. CASE i = t
      BY <1>1, <2>1, <2>3, <2>4, <3>1 DEF Template
    <3>2. CASE i # t
      BY <1>4, <2>4, <2>5, <3>2
    <3> QED BY <3>1, <3>2
  <2> QED BY <2>6 DEF WrittenInv
<1>7. written' = written \/ WriteTemplate
  BY DEF Next, vars, AddSourceCRsInTemplateDir, ReadTemplate, ConvertPolicy, RenderManifest,
         ProcessKustomization, RenderPolicies, RunAgain, Done
<1> QED BY <1>5, <1>6, <1>7

(* A run that fails half-way through a rendering has converted nothing for *)
(* good; any other step leaves rendered what is rendered.                  *)
LEMMA RenderedStep ==
  ASSUME Inv, [Next]_vars
  PROVE  RenderedInv'
<1>1. /\ OutKept(out, out') /\ conf' = conf
      /\ OutGrows(out, out') \/ (pc' = "exit" /\ exit' = "failed" /\ faults' = faults + 1)
  BY OutStep
<1>2. faults \in Nat /\ (faults' = 0 => faults = 0) /\ t \in Nat
  BY FaultsStep, InputFacts DEF Inv, ControlInv, FilesInv
<1>3. CASE pc' = "exit" /\ exit' = "failed" /\ faults' = faults + 1
  BY <1>2, <1>3 DEF RenderedInv, Converted
<1>4. CASE OutGrows(out, out')
  <2>1. \A i \in DOMAIN written : conf.templates[i].sources \in Seq(SourceFile)
                                 /\ PoliciesOK(conf.templates[i], out, written[i].policies)
    BY InputFacts DEF Inv, FilesInv, ControlInv, WrittenInv, WrittenOK
  <2>2. ASSUME NEW i \in DOMAIN written, faults = 0 \/ i \in Converted
        PROVE  PoliciesDone(conf'.templates[i], out', written[i].policies)
    <3>1. PoliciesDone(conf.templates[i], out, written[i].policies)
      BY <2>2 DEF Inv, RenderedInv
    <3>2. PoliciesDone(conf.templates[i], out', written[i].policies)
      BY <1>1, <1>4, <2>1, <3>1, PoliciesStay
    <3> QED BY <1>1, <3>2
  <2>3. CASE WriteTemplate /\ exit' # "failed"
    <3> DEFINE w == [policies |-> IF conf.flags.s = "none" THEN acm
                                 ELSE [i \in DOMAIN acm |->
                                         [acm[i] EXCEPT !.manifests = [j \in DOMAIN @ |-> Injected(@[j])]]],
                     selector |-> IF acm = <<>> THEN {} ELSE LabelToSelector(Template.rules, Template.excluded),
                     placementPath |-> IF conf.flags.w /\ acm # <<>> THEN GeneratePlacementFile(Last(acm).name) ELSE <<>>]
    <3>1. /\ pc = "schema" /\ out' = out /\ written' = Put(written, t, w) /\ pc' = "next" /\ t' = t
          /\ exit' = exit
      BY <2>3 DEF WriteTemplate, Exit
    <3>2. /\ w.policies = IF conf.flags.s = "none" THEN acm ELSE WithKeys(acm)
          /\ w.selector = IF acm = <<>> THEN {} ELSE LabelToSelector(Template.rules, Template.excluded)
          /\ w.placementPath = IF conf.flags.w /\ acm # <<>> THEN GeneratePlacementFile(Last(acm).name) ELSE <<>>
      BY DEF WithKeys
    <3> HIDE DEF w
    <3>3. PoliciesDone(Template, out, w.policies)
      BY <3>1, <3>2, WriteStep
    <3>4. DOMAIN written' = DOMAIN written \union {t} /\ \A i \in DOMAIN written' : written'[i] = IF i = t THEN w ELSE written[i]
      BY <3>1 DEF Put
    <3>5. exit = "running"
      BY <3>1 DEF Inv, ControlInv
    <3>6. Converted = 1..t - 1 /\ Converted' = 1..t
      BY <3>1, <3>5 DEF Converted
    <3>7. ASSUME NEW i \in DOMAIN written', faults' = 0 \/ i \in Converted'
          PROVE  PoliciesDone(conf'.templates[i], out', written'[i].policies)
      <4>1. CASE i = t
        BY <1>1, <3>1, <3>3, <3>4, <4>1 DEF Template
      <4>2. CASE i # t
        <5>1. i \in DOMAIN written /\ written'[i] = written[i]
          BY <3>4, <4>2
        <5>2. faults = 0 \/ i \in Converted
          BY <1>2, <3>6, <3>7, <4>2
        <5> QED BY <2>2, <5>1, <5>2
      <4> QED BY <4>1, <4>2
    <3> QED BY <3>7 DEF RenderedInv
  <2>4. CASE ~ (WriteTemplate /\ exit' # "failed")
    <3>1. written' = written /\ Converted' \subseteq Converted
      <4>1. CASE exit' = "failed" /\ exit # "failed"
        <5>1. written' = written
          BY <2>4, <4>1 DEF Next, vars, AddSourceCRsInTemplateDir, ReadTemplate, ConvertPolicy, RenderManifest,
             WriteTemplate, ProcessKustomization, RenderPolicies, RunAgain, Done
        <5> QED BY <4>1, <5>1 DEF Converted
      <4> SUFFICES ASSUME ~ (exit' = "failed" /\ exit # "failed")
                   PROVE  written' = written /\ Converted' \subseteq Converted
        BY <4>1
      <4>2. /\ exit = "running" <=> pc # "exit"
            /\ exit \in {"running", "ok", "failed"} /\ (pc = "copy" => t = 0)
        BY DEF Inv, ControlInv
      <4>3. CASE AddSourceCRsInTemplateDir
        BY <4>2, <4>3, <1>2 DEF AddSourceCRsInTemplateDir, Converted, Exit
      <4>4. CASE ReadTemplate
        <5>1. /\ pc = "next" /\ exit = "running" /\ t' = t + 1 /\ exit' = exit
              /\ pc' \in {"schema", "policy"} /\ written' = written
          BY <4>2, <4>4 DEF ReadTemplate, Exit
        <5>2. Converted = 1..t /\ Converted' = 1..(t + 1) - 1
          BY <5>1 DEF Converted
        <5> QED BY <1>2, <5>1, <5>2
      <4>5. CASE ConvertPolicy
        BY <4>2, <4>5 DEF ConvertPolicy, Converted, Exit
      <4>6. CASE RenderManifest
        <5>1. /\ pc = "render" /\ exit = "running" /\ t' = t /\ exit' = exit
              /\ pc' \in {"render", "schema", "policy"} /\ written' = written
          BY <4>2, <4>6 DEF RenderManifest, AfterManifest, Exit
        <5> QED BY <5>1 DEF Converted
      <4>7. CASE WriteTemplate
        BY <2>4, <4>2, <4>7 DEF WriteTemplate, Exit
      <4>8. CASE ProcessKustomization
        <5>1. /\ pc = "next" /\ exit = "running" /\ t' = t /\ written' = written
              /\ pc' \in {"policies", "exit"} /\ exit' \in {exit, "ok"}
          BY <4>2, <4>8 DEF ProcessKustomization
        <5> QED BY <5>1 DEF Converted
      <4>9. CASE RenderPolicies
        BY <4>2, <4>9 DEF RenderPolicies, Converted, Exit
      <4>10. CASE RunAgain
        BY <1>2, <4>2, <4>10 DEF RunAgain, Converted
      <4>11. CASE Done \/ UNCHANGED vars
        BY <4>11 DEF Done, vars, Converted
      <4> QED BY <4>3, <4>4, <4>5, <4>6, <4>7, <4>8, <4>9, <4>10, <4>11 DEF Next
    <3> QED BY <1>2, <2>2, <3>1 DEF RenderedInv
  <2> QED BY <2>3, <2>4
<1> QED BY <1>1, <1>3, <1>4

-----------------------------------------------------------------------------
LEMMA InitInv == Init => Inv
<1> SUFFICES ASSUME Init PROVE Inv
  OBVIOUS
<1>1. conf \in Inputs /\ crs = conf.crs
  BY DEF Init
<1>2. /\ DOMAIN out = {} /\ DOMAIN written = {} /\ t = 0 /\ pc = "copy" /\ exit = "running"
      /\ generators = {} /\ faults = 0
  BY DEF Init, Empty
<1>3. Len(conf.templates) \in Nat
  BY <1>1, InputFacts
<1>4. ControlInv
  BY <1>2, <1>3 DEF ControlInv
<1>5. FilesInv
  BY <1>1, <1>2 DEF FilesInv, OutOK
<1> QED BY <1>2, <1>4, <1>5 DEF Inv, ConversionInv, WrittenInv, RenderedInv

LEMMA NextInv == Inv /\ [Next]_vars => Inv'
  BY OutStep, ControlStep, ConversionStep, WrittenStep, RenderedStep DEF Inv

LEMMA InvAlways == Spec => []Inv
  BY InitInv, NextInv, PTL DEF Spec

(* The converter's state and the files it writes keep their types, and it  *)
(* never asks for a manifest that is not there: the sorted policies, the   *)
(* rendering that starts over and the renamed files fit together.          *)
THEOREM TypeCorrect == Spec => []TypeOK
<1>1. Inv => TypeOK
  <2> SUFFICES ASSUME Inv PROVE TypeOK
    OBVIOUS
  <2>1. pc = "render" => /\ at[1] \in DOMAIN acm /\ at[2] \in DOMAIN acm[at[1]].manifests
                         /\ acm[at[1]].manifests[at[2]].path \in DOMAIN Files
    BY AtManifest
  <2> QED BY <2>1 DEF Inv, ControlInv, TypeOK
<1> QED BY <1>1, InvAlways, PTL

LEMMA WrittenManifest ==
  ASSUME Inv, NEW i \in DOMAIN written, NEW x \in Manifests(i)
  PROVE  /\ x[1] \in DOMAIN written[i].policies /\ x[2] \in DOMAIN written[i].policies[x[1]].manifests
         /\ ManifestOK(conf.templates[i], out, conf.templates[i].sources[x[2]], ManifestAt(i, x))
         /\ ManifestPlaced(conf.templates[i], out, ManifestAt(i, x))
         /\ faults = 0 \/ i \in Converted => Rendered(OutOf(i)[ManifestAt(i, x).path])
         /\ x[2] \in DOMAIN conf.templates[i].sources
<1> DEFINE tm == conf.templates[i]
           ps == written[i].policies
<1>1. /\ PoliciesOK(tm, out, ps) /\ PoliciesPlaced(tm, out, ps)
      /\ faults = 0 \/ i \in Converted => PoliciesDone(tm, out, ps)
  BY DEF Inv, WrittenInv, WrittenOK, RenderedInv
<1>2. x[1] \in DOMAIN ps /\ x[2] \in DOMAIN ps[x[1]].manifests
  BY DEF Manifests
<1>3. ManifestAt(i, x) = ps[x[1]].manifests[x[2]]
  BY DEF ManifestAt
<1>6. OutOf(i) = out[tm.dir]
  BY DEF OutOf
<1> HIDE DEF tm, ps
<1>4. /\ ManifestOK(tm, out, tm.sources[x[2]], ps[x[1]].manifests[x[2]]) /\ x[2] \in DOMAIN tm.sources
  BY <1>1, <1>2, ManifestOfPolicy
<1>5. /\ ManifestPlaced(tm, out, ps[x[1]].manifests[x[2]])
      /\ faults = 0 \/ i \in Converted => Rendered(out[tm.dir][ps[x[1]].manifests[x[2]].path])
  BY <1>1, <1>2 DEF PoliciesPlaced, PoliciesDone, ManifestDone
<1> QED BY <1>2, <1>3, <1>4, <1>5, <1>6 DEF tm, ps

(* Templates of one directory share its source-crs, and every one renders  *)
(* them: whatever is converted later, a manifest of a written template     *)
(* exists and is one for its own pool or for none.  It is rendered, but    *)
(* for a file of a pool that a failing run has written and not yet         *)
(* commented out (RenderMCPLines in fileutils.go).                         *)
THEOREM ManifestsAlwaysRendered == Spec => []ManifestsRendered
<1>1. Inv => ManifestsRendered
  <2> SUFFICES ASSUME Inv, NEW i \in DOMAIN written, NEW x \in Manifests(i)
               PROVE  LET path == ManifestAt(i, x).path
                      IN  /\ path \in DOMAIN OutOf(i)
                          /\ OutOf(i)[path].mcp \in {"none", conf.templates[i].mcp}
                          /\ path = <<path[1]>> \/ faults = 0 \/ i \in Converted => Rendered(OutOf(i)[path])
    BY DEF ManifestsRendered
  <2>1. /\ ManifestOK(conf.templates[i], out, conf.templates[i].sources[x[2]], ManifestAt(i, x))
        /\ ManifestPlaced(conf.templates[i], out, ManifestAt(i, x))
        /\ faults = 0 \/ i \in Converted => Rendered(OutOf(i)[ManifestAt(i, x).path])
    BY WrittenManifest
  <2> QED BY <2>1 DEF ManifestOK, ManifestPlaced, OutOf
<1> QED BY <1>1, InvAlways, PTL

(* If no source CR has a list written flush with its key, then no file     *)
(* below source-crs has lost a line that is not a placeholder, or a key    *)
(* with nothing else under it, to CommentOutLinesWithPlaceholders.         *)
THEOREM RealLinesAlwaysKept ==
  ASSUME \A c \in Inputs : \A version \in {c.crs, c.newer} : \A f \in DOMAIN version : ~ FlushList(version[f].body)
  PROVE  Spec => []NothingRealLost
<1>1. Inv => NothingRealLost
  <2> SUFFICES ASSUME Inv, NEW d \in DOMAIN out, NEW p \in DOMAIN out[d]
               PROVE  \E version \in {conf.crs, conf.newer} :
                         p[1] \in DOMAIN version /\ RealLinesKept(version[p[1]].body, out[d][p].body)
    BY DEF NothingRealLost
  <2>1. conf \in Inputs /\ FileOK(conf, out[d], p)
    BY DEF Inv, FilesInv, OutOK
  <2>2. ASSUME NEW version \in {conf.crs, conf.newer}, NEW f \in DOMAIN version,
               NEW body \in {version[f].body, CommentOutLinesWithPlaceholders(version[f].body)}
        PROVE  RealLinesKept(version[f].body, body)
    <3>1. version[f].body \in Document /\ ~ FlushList(version[f].body)
      BY <2>1, OriginalLines
    <3>2. RealLinesKept(version[f].body, version[f].body)
      BY DEF RealLinesKept
    <3> QED BY <3>1, <3>2, OnlySoleChildrensParents
  <2>3. CASE p = <<p[1]>> /\ Plain(conf, p[1], out[d][p])
    BY <2>2, <2>3 DEF Plain
  <2>4. CASE p = <<p[1], p[2]>> /\ ForPool(out[d], p)
    <3> DEFINE q == <<p[1]>>
    <3>1. q \in DOMAIN out[d] /\ out[d][q].mcp = "$mcp"
          /\ out[d][p].body \in {out[d][q].body, CommentOutLinesWithPlaceholders(out[d][q].body)}
      BY <2>4 DEF ForPool
    <3>2. FileOK(conf, out[d], q) /\ q # <<q[1], q[2]>> /\ q[1] = p[1]
      BY <3>1, Paths DEF Inv, FilesInv, OutOK
    <3>3. Plain(conf, p[1], out[d][q])
      BY <3>2 DEF FileOK
    <3>4. PICK version \in {conf.crs, conf.newer} : p[1] \in DOMAIN version /\ out[d][q].body = version[p[1]].body
      BY <3>1, <3>3 DEF Plain
    <3> QED BY <2>2, <3>1, <3>4
  <2> QED BY <2>1, <2>3, <2>4 DEF FileOK
<1> QED BY <1>1, InvAlways, PTL

(* Whatever fails on the way, and however often the program is run: each   *)
(* written template has every source file in the policy it names, once,    *)
(* and the placement it refers to; the kustomization lists only written    *)
(* templates, and after an exit code of 0 all are written.                 *)
THEOREM OutputAlwaysComplete == Spec => []OutputComplete
<1>1. Inv => OutputComplete
  <2> SUFFICES ASSUME Inv PROVE OutputComplete
    OBVIOUS
  <2>1. SourcesConverted
    <3> SUFFICES ASSUME NEW i \in DOMAIN written
                 PROVE  LET ps == written[i].policies
                            src == conf.templates[i].sources
                        IN  /\ \A q \in 1..Len(ps) - 1 : ps[q].name < ps[q + 1].name
                            /\ \A k \in DOMAIN src : \E q \in DOMAIN ps : ps[q].name = src[k].policy
                            /\ \A q \in DOMAIN ps :
                                 /\ DOMAIN ps[q].manifests = {k \in DOMAIN src : src[k].policy = ps[q].name}
                                 /\ \A k \in DOMAIN ps[q].manifests : ps[q].manifests[k].path[1] = src[k].file
      BY DEF SourcesConverted
    <3> DEFINE tm == conf.templates[i]
               ps == written[i].policies
    <3>1. PoliciesOK(tm, out, ps) /\ NamesOf(ps) = PoliciesOf(tm)
      BY DEF Inv, WrittenInv, WrittenOK
    <3> HIDE DEF tm, ps
    <3>2. PICK S : ps \in Seq(S)
      BY <3>1 DEF PoliciesOK
    <3>3. \A q \in 1..Len(ps) - 1 : ps[q].name < ps[q + 1].name
      <4>1. \A q \in 1..Len(ps) - 1 : q \in DOMAIN ps /\ q + 1 \in DOMAIN ps /\ q < q + 1
        BY <3>2
      <4> QED BY <3>1, <4>1 DEF PoliciesOK
    <3>4. \A k \in DOMAIN tm.sources : \E q \in DOMAIN ps : ps[q].name = tm.sources[k].policy
      <4>1. \A k \in DOMAIN tm.sources : tm.sources[k].policy \in NamesOf(ps)
        BY <3>1 DEF PoliciesOf
      <4> QED BY <4>1 DEF NamesOf
    <3>5. ASSUME NEW q \in DOMAIN ps
          PROVE  DOMAIN ps[q].manifests = {k \in DOMAIN tm.sources : tm.sources[k].policy = ps[q].name}
      BY <3>1 DEF PoliciesOK, PolicyOK, SourcesOf
    <3>6. ASSUME NEW q \in DOMAIN ps, NEW k \in DOMAIN ps[q].manifests
          PROVE  ps[q].manifests[k].path[1] = tm.sources[k].file
      <4>1. ManifestOK(tm, out, tm.sources[k], ps[q].manifests[k])
        BY <3>1, ManifestOfPolicy
      <4> DEFINE file == tm.sources[k].file
      <4>2. ps[q].manifests[k].path \in {<<file>>, <<file, tm.mcp>>}
        BY <4>1 DEF ManifestOK
      <4> HIDE DEF file
      <4>3. ps[q].manifests[k].path[1] = file
        BY <4>2, Paths
      <4> QED BY <4>3 DEF file
    <3> QED BY <3>3, <3>4, <3>5, <3>6 DEF tm, ps
  <2>2. generators \subseteq DOMAIN written
    BY DEF Inv, ControlInv
  <2>3. exit = "ok" => DOMAIN written = Templates
    BY InputFacts DEF Inv, FilesInv, ControlInv
  <2>4. \A i \in DOMAIN written : written[i].placementPath # <<>> => written[i].placementPath \in placements
    BY DEF Inv, WrittenInv, WrittenOK
  <2> QED BY <2>1, <2>2, <2>3, <2>4 DEF OutputComplete
<1> QED BY <1>1, InvAlways, PTL

-----------------------------------------------------------------------------
(* A patch that names no other keys than those of the items at its         *)
(* positions: with the keys injected, kustomize merges it by position.     *)
Patch == Seq([key : STRING \union {NoKey}, val : STRING])

LEMMA MergedByPosition ==
  ASSUME NEW items, items \in Seq(STRING), IsInjective(items), NEW user \in Patch, Len(user) <= Len(items),
         \A j \in DOMAIN user : user[j].key \in {NoKey, items[j]}
  PROVE  ToSet(Kustomized(items, InjectMergeKeys(user, items))) = ToSet(Positional(items, user))
<1> DEFINE patch == InjectMergeKeys(user, items)
           For(k) == {i \in DOMAIN patch : patch[i].key = k}
           added == {i \in DOMAIN patch : patch[i].key \notin ToSet(items)}
           R == [key : STRING \union {NoKey}, val : STRING]
<1>1. Len(items) \in Nat /\ DOMAIN items = 1..Len(items)
  OBVIOUS
<1>2. /\ Len(user) \in Nat /\ DOMAIN user = 1..Len(user)
      /\ \A j \in DOMAIN user : user[j] = [key |-> user[j].key, val |-> user[j].val]
  <2>1. \A r \in R : r = [key |-> r.key, val |-> r.val]
    OBVIOUS
  <2> HIDE DEF R
  <2>2. user \in Seq(R)
    BY DEF Patch, R
  <2>3. Len(user) \in Nat /\ DOMAIN user = 1..Len(user) /\ \A j \in DOMAIN user : user[j] \in R
    BY <2>2
  <2> QED BY <2>1, <2>3
<1>3. DOMAIN user \subseteq DOMAIN items
  BY <1>1, <1>2
<1>4. DOMAIN patch = DOMAIN user /\ \A j \in DOMAIN user : patch[j].key = items[j] /\ patch[j].val = user[j].val
  <2>1. DOMAIN patch = DOMAIN user
    BY DEF InjectMergeKeys
  <2>2. ASSUME NEW j \in DOMAIN user PROVE patch[j].key = items[j] /\ patch[j].val = user[j].val
    <3>0. j <= Len(items)
      BY <1>1, <1>3
    <3>1. CASE user[j].key = NoKey
      <4>1. patch[j] = [user[j] EXCEPT !.key = items[j]]
        BY <3>0, <3>1 DEF InjectMergeKeys
      <4>2. patch[j] = [key |-> items[j], val |-> user[j].val]
        BY <1>2, <4>1
      <4> QED BY <4>2
    <3>2. CASE user[j].key # NoKey
      <4>1. patch[j] = user[j]
        BY <3>2 DEF InjectMergeKeys
      <4> QED BY <3>2, <4>1
    <3> QED BY <3>1, <3>2
  <2> QED BY <2>1, <2>2
<1> HIDE DEF patch
<1>5. added = {}
  BY <1>3, <1>4 DEF ToSet
<1>6. ASSUME NEW i \in DOMAIN items
      PROVE  For(items[i]) = IF i \in DOMAIN user THEN {i} ELSE {}
  BY <1>3, <1>4 DEF IsInjective
<1>7. \A i \in DOMAIN user : Max({i}) = i
  <2> SUFFICES ASSUME NEW i \in DOMAIN user PROVE Max({i}) = i
    OBVIOUS
  <2>1. {i} \subseteq 1..Len(user) /\ {i} # {}
    BY <1>2
  <2>2. Max({i}) \in {i}
    BY <1>2, <2>1, MaxProperties
  <2> QED BY <2>2
<1>8. Kustomized(items, patch)
      = [i \in DOMAIN items |->
            [key |-> items[i], val |-> IF For(items[i]) = {} THEN "old" ELSE patch[Max(For(items[i]))].val]]
  <2>1. DOMAIN items \union {Len(items) + j : j \in added} = DOMAIN items
    BY <1>5
  <2> HIDE DEF added
  <2> QED BY <2>1 DEF Kustomized, added
<1>9. ASSUME NEW i \in DOMAIN items
      PROVE  (IF For(items[i]) = {} THEN "old" ELSE patch[Max(For(items[i]))].val)
             = (IF i \in DOMAIN user THEN user[i].val ELSE "old")
  <2> HIDE DEF For
  <2>1. CASE i \in DOMAIN user
    <3>1. For(items[i]) = {i} /\ Max({i}) = i
      BY <1>6, <1>7, <2>1
    <3> QED BY <1>4, <2>1, <3>1
  <2>2. CASE i \notin DOMAIN user
    BY <1>6, <2>2
  <2> QED BY <2>1, <2>2
<1> HIDE DEF For
<1>10. Kustomized(items, patch) = Positional(items, user)
  BY <1>8, <1>9 DEF Positional
<1> QED BY <1>10 DEF patch

(* The converted template selects, of what the PolicyGenTemplate selects,  *)
(* the clusters without an excluded label.                                 *)
LEMMA SelectorOf ==
  ASSUME NEW rules, NEW excluded, NEW labels
  PROVE  LET rs == Restrict(rules, DOMAIN rules \ {""})
             ex == Restrict(excluded, DOMAIN excluded \ {""})
         IN  PGT!Selects(LabelToSelector(rules, excluded), labels)
             <=> /\ PGT!Selects(PGT!CreatePlacementRule(rs, ex), labels)
                 /\ DOMAIN labels \cap DOMAIN ex = {}
<1> DEFINE rs == Restrict(rules, DOMAIN rules \ {""})
           ex == Restrict(excluded, DOMAIN excluded \ {""})
           rule(k) == [key |-> k, operator |-> IF rules[k] = <<>> THEN "Exists" ELSE "In", values |-> ToSet(rules[k])]
           not(k) == [key |-> k, operator |-> "DoesNotExist", values |-> {}]
           had(k) == PGT!Expression(k, IF ex[k] = <<>> THEN "DoesNotExist" ELSE "NotIn", ex[k])
<1>1. /\ DOMAIN rs = DOMAIN rules \ {""} /\ \A k \in DOMAIN rs : rs[k] = rules[k]
      /\ DOMAIN ex = DOMAIN excluded \ {""}
  BY DEF Restrict
<1>2. \A k \in DOMAIN rs : PGT!Expression(k, IF rs[k] = <<>> THEN "Exists" ELSE "In", rs[k]) = rule(k)
  BY <1>1 DEF PGT!Expression, PGT!Listed, ToSet
<1>3. \A k : PGT!Matches(labels, not(k)) <=> k \notin DOMAIN labels
  BY DEF PGT!Matches
<1>4. \A k : k \notin DOMAIN labels => PGT!Matches(labels, had(k))
  <2> SUFFICES ASSUME NEW k, k \notin DOMAIN labels PROVE PGT!Matches(labels, had(k))
    OBVIOUS
  <2>1. had(k).key = k /\ had(k).operator \in {"DoesNotExist", "NotIn"}
    BY DEF PGT!Expression
  <2> HIDE DEF had
  <2>2. CASE had(k).operator = "DoesNotExist"
    BY <2>1, <2>2 DEF PGT!Matches
  <2>3. CASE had(k).operator = "NotIn"
    BY <2>1, <2>3 DEF PGT!Matches
  <2> QED BY <2>1, <2>2, <2>3
<1>5. LabelToSelector(rules, excluded) = {rule(k) : k \in DOMAIN rs} \union {not(k) : k \in DOMAIN ex}
  BY <1>1 DEF LabelToSelector
<1>6. PGT!CreatePlacementRule(rs, ex) = {rule(k) : k \in DOMAIN rs} \union {had(k) : k \in DOMAIN ex}
  BY <1>2 DEF PGT!CreatePlacementRule
<1> HIDE DEF rs, ex, rule, not, had
<1>7. PGT!Selects(LabelToSelector(rules, excluded), labels)
      <=> /\ \A k \in DOMAIN rs : PGT!Matches(labels, rule(k))
          /\ \A k \in DOMAIN ex : k \notin DOMAIN labels
  BY <1>3, <1>5 DEF PGT!Selects
<1>8. PGT!Selects(PGT!CreatePlacementRule(rs, ex), labels)
      <=> /\ \A k \in DOMAIN rs : PGT!Matches(labels, rule(k))
          /\ \A k \in DOMAIN ex : PGT!Matches(labels, had(k))
  BY <1>6 DEF PGT!Selects
<1>9. PGT!Selects(LabelToSelector(rules, excluded), labels)
      <=> /\ PGT!Selects(PGT!CreatePlacementRule(rs, ex), labels)
          /\ DOMAIN labels \cap DOMAIN ex = {}
  BY <1>4, <1>7, <1>8
<1> QED BY <1>9 DEF rs, ex

LEMMA PatchesSame == Inv => PatchesMeanTheSame
<1> SUFFICES ASSUME Inv, NEW i \in DOMAIN written, NEW x \in Manifests(i)
             PROVE  LET man == ManifestAt(i, x)
                        items == OutOf(i)[man.path].items
                        user == conf.templates[i].sources[x[2]].patch
                    IN  /\ conf.flags.s = "good" /\ ~ conf.flags.a
                        /\ OutOf(i)[man.path].kind \in ParseOpenAPISchema(conf.flags.schema)
                        /\ Len(user) <= Len(items) /\ \A j \in DOMAIN user : user[j].key \in {NoKey, items[j]}
                        => ToSet(Kustomized(items, man.patch)) = ToSet(Positional(items, user))
  BY DEF PatchesMeanTheSame
<1> DEFINE tm == conf.templates[i]
           man == ManifestAt(i, x)
           items == OutOf(i)[man.path].items
           user == tm.sources[x[2]].patch
<1> SUFFICES ASSUME conf.flags.s = "good", ~ conf.flags.a,
                    OutOf(i)[man.path].kind \in ParseOpenAPISchema(conf.flags.schema),
                    Len(user) <= Len(items), \A j \in DOMAIN user : user[j].key \in {NoKey, items[j]}
             PROVE  ToSet(Kustomized(items, man.patch)) = ToSet(Positional(items, user))
  OBVIOUS
<1>1. /\ x[1] \in DOMAIN written[i].policies /\ x[2] \in DOMAIN written[i].policies[x[1]].manifests
      /\ ManifestOK(tm, out, tm.sources[x[2]], man) /\ x[2] \in DOMAIN tm.sources
  BY WrittenManifest
<1>2. conf \in Inputs /\ tm.sources \in Seq(SourceFile) /\ PatchesInjected(conf, tm, out, written[i].policies)
  BY InputFacts DEF Inv, FilesInv, ControlInv, WrittenInv, WrittenOK
<1>3. user \in Patch
  <2>1. tm.sources[x[2]] \in SourceFile
    BY <1>1, <1>2, SourcesFacts
  <2> QED BY <2>1 DEF SourceFile, Patch
<1>4. IsInjective(items) /\ items \in Seq(STRING)
  <2>1. tm.dir \in DOMAIN out /\ man.path \in DOMAIN out[tm.dir]
    BY <1>1 DEF ManifestOK
  <2>2. IsCR(out[tm.dir][man.path])
    BY <2>1 DEF Inv, FilesInv, OutOK, FileOK
  <2> QED BY <2>2 DEF IsCR, OutOf
<1>5. man.patch = InjectMergeKeys(user, items)
  BY <1>1, <1>2 DEF PatchesInjected, OutOf, ManifestAt
<1> HIDE DEF items, user, man
<1> QED BY <1>3, <1>4, <1>5, MergedByPosition

LEMMA ClustersKept == Inv => ClustersSelected
<1> SUFFICES ASSUME Inv, NEW i \in DOMAIN written, written[i].policies # <<>>, NEW labels
             PROVE  LET named(f) == Restrict(f, DOMAIN f \ {""})
                        rules == named(conf.templates[i].rules)
                        excluded == named(conf.templates[i].excluded)
                    IN  PGT!Selects(written[i].selector, labels)
                        <=> /\ PGT!Selects(PGT!CreatePlacementRule(rules, excluded), labels)
                            /\ DOMAIN labels \cap DOMAIN excluded = {}
  BY DEF ClustersSelected
<1>1. written[i].selector = LabelToSelector(conf.templates[i].rules, conf.templates[i].excluded)
  BY DEF Inv, WrittenInv, WrittenOK
<1> QED BY <1>1, SelectorOf

LEMMA WavesKept == Inv => WaveOfTheLast
<1> SUFFICES ASSUME Inv, NEW i \in DOMAIN written, NEW q \in DOMAIN written[i].policies
             PROVE  LET ms == written[i].policies[q].manifests
                        resources == [j \in DOMAIN ms |-> OutOf(i)[<<ms[j].path[1]>>]]
                    IN  IF resources[Max(DOMAIN ms)].wave \in Numbers
                        THEN ~ PGT!WaveConflict("", resources)
                                 => written[i].policies[q].wave = PGT!SetPolicyDeployWave("", resources)
                        ELSE written[i].policies[q].wave = ""
  BY DEF WaveOfTheLast
<1> DEFINE tm == conf.templates[i]
           policy == written[i].policies[q]
           ms == policy.manifests
           resources == [j \in DOMAIN ms |-> OutOf(i)[<<ms[j].path[1]>>]]
           k == Max(DOMAIN ms)
<1> SUFFICES IF resources[k].wave \in Numbers
             THEN ~ PGT!WaveConflict("", resources) => policy.wave = PGT!SetPolicyDeployWave("", resources)
             ELSE policy.wave = ""
  OBVIOUS
<1>1. tm.sources \in Seq(SourceFile) /\ PoliciesOK(tm, out, written[i].policies)
  BY InputFacts DEF Inv, FilesInv, ControlInv, WrittenInv, WrittenOK
<1>2. PolicyOK(tm, out, policy)
  BY <1>1 DEF PoliciesOK
<1>3. DOMAIN ms = SourcesOf(tm, policy.name) /\ k \in DOMAIN ms /\ k = Max(SourcesOf(tm, policy.name))
  BY <1>1, <1>2, SourcesFacts DEF PolicyOK
<1>4. ms[k].path[1] = tm.sources[k].file
  <2> DEFINE file == tm.sources[k].file
  <2>1. ManifestOK(tm, out, tm.sources[k], ms[k])
    BY <1>2, <1>3 DEF PolicyOK
  <2>2. ms[k].path \in {<<file>>, <<file, tm.mcp>>}
    BY <2>1 DEF ManifestOK
  <2> HIDE DEF file, k, ms
  <2>3. ms[k].path[1] = file
    BY <2>2, Paths
  <2> QED BY <2>3 DEF file
<1>5. k \in DOMAIN resources /\ resources[k].wave = WaveOf(tm, out, policy.name)
  BY <1>3, <1>4 DEF WaveOf, OutOf
<1>6. policy.wave = IF WaveOf(tm, out, policy.name) \in Numbers THEN WaveOf(tm, out, policy.name) ELSE ""
  BY <1>2 DEF PolicyOK
<1> HIDE DEF resources, k, ms, policy, tm
<1>7. CASE resources[k].wave \in Numbers
  <2> SUFFICES ASSUME ~ PGT!WaveConflict("", resources) PROVE policy.wave = PGT!SetPolicyDeployWave("", resources)
    BY <1>7
  <2>1. policy.wave = resources[k].wave /\ resources[k].wave \in PGT!DeclaredWaves(resources)
    BY <1>5, <1>6, <1>7 DEF PGT!DeclaredWaves
  <2>2. \A v, w \in PGT!DeclaredWaves(resources) : v = w
    BY DEF PGT!WaveConflict
  <2> QED BY <2>1, <2>2 DEF PGT!SetPolicyDeployWave
<1>8. CASE resources[k].wave \notin Numbers
  BY <1>5, <1>6, <1>8
<1> QED BY <1>7, <1>8

(* What a converted template means to ACM, next to what it meant to        *)
(* PolicyBuilder: the injected merge keys make kustomize merge by position *)
(* (InjectMergeKeys in mergekeys.go); of the clusters of the PlacementRule *)
(* those with an excluded label are not selected, whatever value was       *)
(* excluded (LabelToSelector in labels.go); the wave is the last CR's, and *)
(* PolicyBuilder's if that one declares any (main.go), although a CR may   *)
(* be exchanged between two runs.                                          *)
THEOREM MeaningKept == Spec => []ConvertedMeaning
<1>1. Inv => ConvertedMeaning
  BY PatchesSame, ClustersKept, WavesKept DEF ConvertedMeaning
<1> QED BY <1>1, InvAlways, PTL
=============================================================================
