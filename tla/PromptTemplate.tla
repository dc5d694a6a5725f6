--------------------------- MODULE PromptTemplate ---------------------------
(***************************************************************************)
(* model_io::PromptTemplate: named prompt sections in stability tiers, so  *)
(* that the leading bytes of the rendered system prompt, which a provider  *)
(* caches, survive every later mutation, restore included.  A text is a    *)
(* sequence of characters: "x" stands for a visible one, " " for blanks    *)
(* and "/" for the newline.                                                *)
(***************************************************************************)
EXTENDS Integers, Sequences, SequencesExt

CONSTANTS SectionNames, Texts, Titles,
          MaxLength      \* bound: characters in a section that still grows

VARIABLE ptSections

Newline == "/"
Gap == <<Newline, Newline>>

(* SectionStability, in the order of its ranks.                              *)
Immutable == 0
Growing == 1
Volatile == 2
rank_(stability) == stability

(* The names of the tiers in a document; an unknown one reads as the first.   *)
StabilityNames == <<"immutable", "growing", "volatile">>
StabilityOf(name) ==
  IF \E i \in 1 .. 3 : StabilityNames[i] = name
  THEN (CHOOSE i \in 1 .. 3 : StabilityNames[i] = name) - 1 ELSE Immutable

-----------------------------------------------------------------------------
(* Drop the blanks at the end of a line.                                    *)
StripLine(line) ==
  LET last == CHOOSE n \in 0 .. Len(line) :
                /\ n = 0 \/ line[n] # " "
                /\ \A i \in n + 1 .. Len(line) : line[i] = " "
  IN SubSeq(line, 1, last)

Lines(text) ==
  FoldLeft(LAMBDA lines, c : IF c = Newline THEN Append(lines, <<>>)
             ELSE [lines EXCEPT ![Len(lines)] = Append(@, c)], << <<>> >>, text)

(* Every line stripped, leading and trailing blank lines dropped.            *)
canonicalize_(text) ==
  LET lines == [i \in DOMAIN Lines(text) |-> StripLine(Lines(text)[i])]
      full == {i \in DOMAIN lines : lines[i] # <<>>}
      first == CHOOSE i \in full : \A j \in full : i <= j
      last == CHOOSE i \in full : \A j \in full : i >= j
  IN IF full = {} THEN <<>>
     ELSE FoldLeft(LAMBDA out, line : out \o <<Newline>> \o line,
                   lines[first], SubSeq(lines, first + 1, last))

Holds(sections, name) == \E i \in DOMAIN sections : sections[i].name = name

locate_(sections, name) ==
  CHOOSE i \in DOMAIN sections : sections[i].name = name

MutantOrdered(sections, stability) == TRUE

(* A section may only be added behind sections at least as stable.           *)
Ordered(sections, stability) ==
  sections = <<>> \/ rank_(stability) >= rank_(Last(sections).stability)

(* add_section: one template, or none when the section is refused.           *)
add_section(sections, name, title, text, stability) ==
  IF Holds(sections, name) \/ ~Ordered(sections, stability) THEN {}
  ELSE {Append(sections, [name |-> name, title |-> title, stability |-> stability,
                          text |-> canonicalize_(text)])}

-----------------------------------------------------------------------------
(* What one section contributes: its heading, a blank line, its body.        *)
RenderedPart(section) ==
  IF section.title = "" THEN section.text
  ELSE IF section.text = <<>> THEN <<"#", section.title>>
  ELSE <<"#", section.title>> \o Gap \o section.text

(* render, without the final newline.                                        *)
render(sections) ==
  FoldLeft(LAMBDA md, s : IF RenderedPart(s) = <<>> THEN md
             ELSE IF md = <<>> THEN RenderedPart(s) ELSE md \o Gap \o RenderedPart(s), <<>>, sections)

-----------------------------------------------------------------------------
to_json(sections) ==
  [i \in DOMAIN sections |->
     [sections[i] EXCEPT !.stability = StabilityNames[rank_(@) + 1]]]

(* from_json rebuilds through add_section, with its admission rules.         *)
from_json(document) ==
  FoldLeft(LAMBDA built, s :
             UNION {add_section(t, s.name, s.title, s.text, StabilityOf(s.stability)) : t \in built},
           {<<>>}, document)

PtInit == ptSections = <<>>

Add(name, title, text, tier) ==
  \E t \in add_section(ptSections, name, title, text, tier) : ptSections' = t

MutantAppended(text) == text

Appended(text) == canonicalize_(text)

(* append: Growing sections only; an empty chunk changes no byte.             *)
AppendTo(name, text) ==
  /\ Holds(ptSections, name)
  /\ LET i == locate_(ptSections, name)
     IN /\ ptSections[i].stability = Growing
        /\ Appended(text) # <<>> /\ Len(ptSections[i].text) < MaxLength
        /\ ptSections' = [ptSections EXCEPT ![i].text =
             IF @ = <<>> THEN Appended(text) ELSE @ \o Gap \o Appended(text)]

Rewrite(name, text) ==
  /\ Holds(ptSections, name)
  /\ LET i == locate_(ptSections, name)
     IN /\ ptSections[i].stability = Volatile
        /\ ptSections' = [ptSections EXCEPT ![i].text = canonicalize_(text)]

Erase(name) ==
  /\ Holds(ptSections, name)
  /\ LET i == locate_(ptSections, name)
     IN /\ ptSections[i].stability = Volatile
        /\ ptSections' = RemoveAt(ptSections, i)

PtNext ==
  \/ \E n \in SectionNames, title \in Titles, text \in Texts, tier \in Immutable .. Volatile :
       Add(n, title, text, tier)
  \/ \E n \in SectionNames, text \in Texts : AppendTo(n, text) \/ Rewrite(n, text)
  \/ \E n \in SectionNames : Erase(n)

PtSpec == PtInit /\ [][PtNext]_ptSections

-----------------------------------------------------------------------------
(* A saved template comes back byte for byte: nothing an operation stored is  *)
(* refused or changed by the admission rules and the canonicalisation that    *)
(* from_json applies again.                                                   *)
RestoredExactly == from_json(to_json(ptSections)) = {ptSections}

(* No operation disturbs the cached prefix: what was rendered up to the end   *)
(* of an Immutable section, and of the first section that may grow, stays a   *)
(* prefix of every later rendering (the header's byte-stability promise).     *)
PrefixSurvives ==
  [][\A i \in DOMAIN ptSections :
       \/ ptSections[i].stability = Immutable
       \/ ptSections[i].stability = Growing
          /\ \A j \in 1 .. i - 1 : ptSections[j].stability = Immutable
       => IsPrefix(render(SubSeq(ptSections, 1, i)), render(ptSections'))]_ptSections
=============================================================================
