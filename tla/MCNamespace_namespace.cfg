\* Files and servers change between and during the calls.
SPECIFICATION Spec
CONSTANTS
  Hosts <- MCHosts
  Word <- MCWord
  Names <- MCNames
  Handles = {h1}
  MaxChanges = 2
INVARIANTS
  TypeOK
  ListedIsFound
  ListedOpens
  ListingIsExact
  FoundIffThere
  OpensTheOnlyOne
  NamedServerAnswers
