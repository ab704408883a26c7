---------------------------- MODULE Environment -----------------------------
(***************************************************************************)
(* Nickvision::System::Environment (src/system/environment.cpp): the       *)
(* search for a dependency, whose answers are kept in a static map, while  *)
(* others install and remove files and the variables change. The calls     *)
(* come one after the other: the map has no lock. A path to a file is its  *)
(* directory, its name and its extension.                                  *)
(***************************************************************************)
EXTENDS UserDirectories, SequencesExt

CONSTANTS
    ExecutableDirectory,  \* read once
    Places,               \* directories that files may be in
    WindowsApps,          \* the part of a path that is passed over
    Names                 \* dependencies, without an extension

ASSUME EnvironmentAssumption ==
    /\ "PATH" \in DOMAIN Settings /\ Settings["PATH"] \subseteq Seq(Seq(STRING))
    /\ ExecutableDirectory \in Seq(STRING)
    /\ Names \subseteq STRING \ {""}

VARIABLES
    files,         \* the files there are
    dependencies,  \* the static map, for the pairs that were sought
    answer         \* what the last step returned, if it was a search

searchVars == <<files, dependencies, answer>>
environmentVars == <<directoryVars, searchVars>>

DependencySearchOption == {"Global", "App", "System", "Local"}

NoPath == [dir |-> <<>>, name |-> "", extension |-> ""]
Extension == IF os = "Windows" THEN "exe" ELSE ""
FilePaths == [dir : Places, name : Names, extension : {Extension}]
Pairs == Names \X DependencySearchOption
Sought(pair) == pair \in DOMAIN dependencies
NoAnswer == <<>>

SearchInit == files = {} /\ dependencies = <<>> /\ answer = NoAnswer

EnvironmentInit ==
    /\ os \in OperatingSystems
    /\ env = [key \in DOMAIN Settings |-> Unset]
    /\ dirsFile = [dir |-> Base("Config"), lines |-> Lines]
    /\ SearchInit

getPath == getVariable("PATH")

-----------------------------------------------------------------------------
SearchDirs(option) ==
    CASE option = "Global" -> <<ExecutableDirectory>> \o getPath
      [] option = "App"    -> <<ExecutableDirectory>>
      [] option = "System" -> getPath
      [] option = "Local"  -> <<Directory("LocalData")>>

\* All but the directories of PATH that belong to WindowsApps.
Searched(option) ==
    LET dirs  == SearchDirs(option)
        fixed == IF option = "System" THEN 0 ELSE 1  \* those before PATH
    IN  {i \in DOMAIN dirs : i <= fixed \/ WindowsApps \notin ToSet(dirs[i])}

Candidate(pair, i) ==
    [dir |-> SearchDirs(pair[2])[i], name |-> pair[1], extension |-> Extension]

Search(pair) ==
    LET found == {i \in Searched(pair[2]) : Candidate(pair, i) \in files}
    IN  IF found = {} THEN NoPath
        ELSE Candidate(pair, CHOOSE i \in found : \A j \in found : i <= j)

\* The map gets the answer, and the caller a reference to it.
Remember(pair, path) ==
    /\ dependencies' = [p \in {pair} \cup DOMAIN dependencies |->
                           IF p = pair THEN path ELSE dependencies[p]]
    /\ answer' = [of |-> pair, path |-> path]
    /\ UNCHANGED <<directoryVars, files>>

\* Mutant: an answer is kept without a test that the file is still there.
FindOnce(pair) ==
    Remember(pair, IF Sought(pair) /\ dependencies[pair] # NoPath
                   THEN dependencies[pair] ELSE Search(pair))

findDependency(pair) ==
    Remember(pair, IF Sought(pair) /\ dependencies[pair] \in files
                   THEN dependencies[pair] ELSE Search(pair))

-----------------------------------------------------------------------------
Install(file) ==
    /\ file \notin files
    /\ files' = files \cup {file}
    /\ answer' = NoAnswer
    /\ UNCHANGED <<directoryVars, dependencies>>

Uninstall(file) ==
    /\ file \in files
    /\ files' = files \ {file}
    /\ answer' = NoAnswer
    /\ UNCHANGED <<directoryVars, dependencies>>

EnvironmentNext ==
    \/ \E pair \in Pairs : findDependency(pair)
    \/ \E file \in FilePaths : Install(file) \/ Uninstall(file)
    \/ \E key \in {k \in DOMAIN Settings : Settings[k] # {}} :
          /\ \/ \E value \in Settings[key] : setVariable(key, value)
             \/ clearVariable(key)
          /\ answer' = NoAnswer
          /\ UNCHANGED <<files, dependencies>>

EnvironmentSpec == EnvironmentInit /\ [][EnvironmentNext]_environmentVars

Usable(found) ==
    IF found.path = NoPath
    THEN \A i \in Searched(found.of[2]) : Candidate(found.of, i) \notin files
    ELSE found.path \in files /\ found.path.name = found.of[1]

\* What is found exists, and nothing is found only if no place of the option
\* has it, whatever was found, installed, removed or set before; and an answer
\* stays what it was until its file is gone, whatever PATH has become and
\* whatever else is sought.
DependencyIsUsable ==
    /\ [](answer # NoAnswer => Usable(answer))
    /\ [][\A pair \in DOMAIN dependencies :
            dependencies[pair] \in files =>
                dependencies'[pair] = dependencies[pair]]_dependencies

=============================================================================
