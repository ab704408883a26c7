---------------------------- MODULE Localization ----------------------------
(***************************************************************************)
(* Nickvision::Localization: Gettext (src/localization/gettext.cpp) and    *)
(* Documentation::getHelpUrl() (src/localization/documentation.cpp). Their *)
(* state is static: the domain of the first init(), the languages found    *)
(* when there was one, the switch that turns translations off; and the     *)
(* variable LANGUAGE, which belongs to the process. A language is the      *)
(* sequence of its parts, as pt_BR is <<"pt", "BR">>, a locale as well,    *)
(* without its codeset. Of a message only its form is kept.                *)
(***************************************************************************)
EXTENDS UserDirectories, SequencesExt

CONSTANTS
    DomainOf,   \* the domain in lower case and without spaces, of each name
    Languages,  \* those there may be translations to, in the order of sort()
    Catalogs,   \* <<domain, language>> that there may be a .mo file of
    Locales     \* names of the account's locale; <<>> if it is not valid

\* No language has the empty name, nor that of NotChosen.
ASSUME LocalizationAssumption ==
    /\ Languages \in Seq(Seq(STRING) \ {<<>>, <<"?">>})
    /\ Locales \subseteq Seq(STRING)
    /\ "LANGUAGE" \in DOMAIN Settings

VARIABLES
    domainName,       \* s_domainName
    initialized,      \* the static of init()
    langs,            \* the static of getAvailableLanguages(), which is sorted
    translationsOff,  \* s_translationsOff
    catalogs,         \* the .mo files there are
    locale,           \* the account's locale
    chosen,           \* the last language that changeLanguage() took
    page              \* what the last step returned, if it was getHelpUrl()

gettextVars ==
    <<domainName, initialized, langs, translationsOff, catalogs, locale, chosen, page>>
localizationVars == <<directoryVars, gettextVars>>

SystemDefault == <<>>
C == <<"C">>
NotChosen == <<"?">>
NoPage == <<"-">>
HelpPage == <<"help:">>  \* of the viewer that Linux has

GettextInit ==
    /\ domainName = "" /\ initialized = FALSE /\ langs = {} /\ translationsOff = FALSE
    /\ chosen = NotChosen /\ page = NoPage

\* Nothing is known of the variables the process starts with.
LocalizationInit ==
    /\ os \in OperatingSystems
    /\ \E language \in ToSet(Languages) \cup {Unset}, packaging \in SUBSET {"container", "SNAP"} :
          env = [key \in DOMAIN Settings |->
                    IF key = "LANGUAGE" THEN language
                    ELSE IF key \in packaging THEN <<"1">> ELSE Unset]
    /\ dirsFile = [dir |-> <<>>, lines |-> <<>>]
    /\ GettextInit
    /\ catalogs \in SUBSET Catalogs
    /\ locale \in Locales

-----------------------------------------------------------------------------
\* Only the first call does something, whether gettext took the domain or not.
init(name) ==
    /\ ~initialized
    /\ initialized' = TRUE
    /\ domainName' = DomainOf[name]
    /\ page' = NoPage
    /\ UNCHANGED <<directoryVars, langs, translationsOff, catalogs, locale, chosen>>

\* What getAvailableLanguages() leaves in its static and returns: languages
\* are looked for as long as none was found.
AvailableLanguages ==
    IF langs # {} THEN langs
    ELSE {l \in ToSet(Languages) : <<domainName, l>> \in catalogs}

getAvailableLanguages ==
    /\ langs' = AvailableLanguages
    /\ page' = NoPage
    /\ UNCHANGED <<directoryVars, domainName, initialized, translationsOff, catalogs, locale,
                   chosen>>

\* Mutant: nothing turns translations on again.
TakeSwitchOff(language, off) ==
    /\ chosen' = language
    /\ translationsOff' = (translationsOff \/ off)
    /\ page' = NoPage
    /\ UNCHANGED <<domainName, initialized, catalogs, locale>>

\* changeLanguage() returns true.
Take(language, off) ==
    /\ chosen' = language
    /\ translationsOff' = off
    /\ page' = NoPage
    /\ UNCHANGED <<domainName, initialized, catalogs, locale>>

changeLanguage(language) ==
    \/ /\ language = SystemDefault
       /\ IF hasVariable("LANGUAGE") THEN clearVariable("LANGUAGE") ELSE UNCHANGED directoryVars
       /\ Take(language, FALSE)
       /\ UNCHANGED langs
    \/ /\ language = C
       /\ Take(language, TRUE)
       /\ UNCHANGED <<directoryVars, langs>>
    \/ /\ language \in AvailableLanguages \ {SystemDefault, C}
       /\ langs' = AvailableLanguages
       /\ setVariable("LANGUAGE", language)
       /\ Take(language, FALSE)
    \/ /\ language \notin {SystemDefault, C} \cup AvailableLanguages
       /\ getAvailableLanguages  \* and returns false

-----------------------------------------------------------------------------
(* What is shown of a message, if gettext has a translation or not; without *)
(* one it returns what it was given, and that is the context for two.       *)

Form(n) == IF n = 1 THEN "message" ELSE "plural"
GettextOf(given, translated) == IF translated THEN "translation" ELSE given

dgettext(translated) ==
    IF translationsOff THEN "message" ELSE GettextOf("message", translated)

dngettext(n, translated) ==
    IF translationsOff THEN Form(n) ELSE GettextOf(Form(n), translated)

pgettext(translated) ==
    LET translation == GettextOf("context", translated)
    IN  IF translationsOff \/ translation = "context" THEN "message" ELSE translation

pngettext(n, translated) ==
    LET translation == GettextOf(IF n = 1 THEN "context" ELSE "plural", translated)
    IN  IF translationsOff \/ translation \in {"context", "plural"} THEN Form(n) ELSE translation

-----------------------------------------------------------------------------
getDeploymentMode ==
    IF hasVariable("container") THEN "Flatpak"
    ELSE IF hasVariable("SNAP") THEN "Snap" ELSE "Local"

\* The locales that the manual in English is for.
English == {<<>>, C, <<"en", "US">>, <<"*">>}

PageLanguage ==
    LET fits == {i \in DOMAIN Languages :
                    Languages[i] \in AvailableLanguages \cap {locale, <<locale[1]>>}}
    IN  IF locale \in English \/ fits = {} THEN C
        ELSE Languages[CHOOSE i \in fits : \A j \in fits : i <= j]

getHelpUrl ==
    /\ IF os = "Linux" /\ getDeploymentMode # "Snap"
       THEN page' = HelpPage /\ UNCHANGED langs
       ELSE /\ page' = PageLanguage
            /\ langs' = IF locale \in English THEN langs ELSE AvailableLanguages
    /\ UNCHANGED <<directoryVars, domainName, initialized, translationsOff, catalogs, locale,
                   chosen>>

-----------------------------------------------------------------------------
\* Another program adds or removes the translations to a language.
ChangeCatalogs(catalog) ==
    /\ catalogs' = IF catalog \in catalogs THEN catalogs \ {catalog} ELSE catalogs \cup {catalog}
    /\ page' = NoPage
    /\ UNCHANGED <<directoryVars, domainName, initialized, langs, translationsOff, locale, chosen>>

LocalizationNext ==
    \/ \E name \in DOMAIN DomainOf : init(name)
    \/ getAvailableLanguages
    \/ \E language \in ToSet(Languages) \cup {SystemDefault, C} : changeLanguage(language)
    \/ getHelpUrl
    \/ \E catalog \in Catalogs : ChangeCatalogs(catalog)

LocalizationSpec == LocalizationInit /\ [][LocalizationNext]_localizationVars

\* The last language that was taken is the one messages are shown in, whatever
\* was refused, turned off, listed or installed since: all four functions agree
\* on whether there is a translation, LANGUAGE asks gettext for it, and no user
\* sees the context of a message. Pages are in a language of the reader.
LanguageIsHonoured ==
    /\ \A n \in 0..2, translated \in BOOLEAN :
          LET shown(form) == IF chosen # C /\ translated THEN "translation" ELSE form
          IN  /\ dgettext(translated) = shown("message")
              /\ dngettext(n, translated) = shown(Form(n))
              /\ pgettext(translated) = shown("message")
              /\ pngettext(n, translated) = shown(Form(n))
    /\ chosen \in langs \ {C} => env["LANGUAGE"] = chosen
    /\ chosen = SystemDefault => getVariable("LANGUAGE") = <<>>
    /\ chosen \notin {NotChosen, SystemDefault, C} => chosen \in langs
    /\ page \notin {NoPage, HelpPage, C} => page \in langs /\ IsPrefix(page, locale)

=============================================================================
