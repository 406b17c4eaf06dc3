SPECIFICATION FairSpec
CONSTANT None = none
PROPERTIES  StartsWhole CommandsEnd
