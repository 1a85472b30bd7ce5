------------------------------- MODULE Wording -------------------------------
(***************************************************************************)
(* What the translation's rules ask of a text (text.rs, core.rs).  A text  *)
(* is one of a small set; the dictionaries, the glossary and the patterns  *)
(* that look at its characters are the functions below.                    *)
(***************************************************************************)
EXTENDS Sequences

CONSTANTS
  NotThere,  \* an attribute, a field or a key that is absent
  Traits,    \* what each text is: blank, human (reads as a sentence), capital
             \* (begins with one), technical (lower case with - . / : #), plain
             \* (an address, a file or more than 500 characters: not words),
             \* english (to the dictionaries), glossary (holds one of its terms),
             \* long (more than 120 characters, or than one line)
  Holders,   \* the placeholders in each text
  Urls       \* the URLs in each text

Is(text, trait) == trait \in Traits[text]

\* is_human_text, or else a capital or a placeholder.
Sounds(text) == Is(text, "human") \/ Is(text, "capital") \/ Holders[text] # <<>>

\* Text that goes through the dictionaries.
Worded(text) == ~Is(text, "blank") /\ ~Is(text, "plain")

\* label_english_findings_with: the glossary has the first word.
EnglishTerms(text) ==
  CASE Is(text, "glossary") -> <<"glossary-english">>
    [] Is(text, "english") /\ ~Is(text, "glossary") -> <<"english-label">>
    [] OTHER -> <<>>
=============================================================================
