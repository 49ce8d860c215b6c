---------------------------- MODULE MCRecipeLinks ----------------------------
EXTENDS RecipeLinks
=============================================================================
