CONSTANTS
  Menus <- MCMenus
  Ingredients <- MCIngredients
  Unknown = 99
  MenuKana <- MCMenuKana
  Kana <- MCKana
  Category <- MCCategory
  MaxResults = 2
  MaxListMenus = 2
  Seeds <- MCSeeds
  Queries <- MCQueries
SPECIFICATION SpecCatalog
INVARIANTS BestKept MissingTold ListComplete
